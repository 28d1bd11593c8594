------------------------- MODULE AsyncLibraryProofs -------------------------
(***************************************************************************)
(* For any number of tasks, requests and ring entries: a request of        *)
(* zz9k.library is reported once when it completes, however it completes,  *)
(* with a reply of its own number, and the dispatcher process never sleeps *)
(* on completions.  The programs that wait for the replies, which MCAsync  *)
(* runs beside it, never sleep on one and leave nothing behind.            *)
(***************************************************************************)
EXTENDS MCAsync, Integers, FiniteSetTheorems, SequenceTheorems,
        WellFoundedInduction, TLAPS

\* What the card and the completion ring hold.
CardRequest == [ctx : 1..MaxContexts, id : 1..MaxId]

CardInv ==
    /\ inflight \subseteq CardRequest /\ ring \in Seq(CardRequest)
    /\ \A t \in Tasks :
        /\ async[t].queued \/ async[t].completed => async[t].req \in CardRequest
        /\ async[t].completed =>
             \/ async[t].reply = Cancelled
             \/ async[t].reply \in CardRequest /\ async[t].reply.id = async[t].req.id

\* The pending list holds queued requests only, each once.
PendingInv ==
    /\ \A i \in DOMAIN pending : async[pending[i]].queued
    /\ \A i, j \in DOMAIN pending : pending[i] = pending[j] => i = j

\* lib_OpenCnt counts the tasks that have the library open.
Closing   == {"stop", "stopping", "close"}
IsOpen(t) == pc[t] # "out" /\ pc[t] \notin Closing
OpenTasks == {t \in Tasks : IsOpen(t)}

CountInv == IsFiniteSet(OpenTasks) /\ openCnt = Cardinality(OpenTasks)

BaseInv == TypeOK /\ CardInv /\ PendingInv /\ CountInv

\* While one task closes the library for good no other has it open, and a
\* queued request is of a task that has.
CloseInv ==
    /\ \A t, u \in Tasks : pc[t] \in Closing => ~IsOpen(u) /\ (pc[u] \in Closing => u = t)
    /\ \A t \in Tasks : async[t].queued => IsOpen(t)

\* A request is queued, or completed and reported.
ReportInv ==
    \A t \in Tasks :
        /\ async[t].req # NoRequest => async[t].queued \/ async[t].completed
        /\ async[t].queued => ~async[t].completed /\ posted[t] = 0
        /\ async[t].completed => posted[t] = 1

\* A call that polls holds the semaphore.
Holding == {"wait", "call", "wrapper"}

HoldingInv == \A t \in Tasks : pc[t] \in Holding => owner = t

\* Who waits for the dispatcher to start or stop, and whom it signals.
WaitersInv ==
    /\ \A t \in Tasks : pc[t] = "starting"
                          => startTask = t /\ disp \in {"created", "waiting", "polling"}
    /\ startTask # Nobody => pc[startTask] = "starting"
    /\ stopTask # Nobody => pc[stopTask] = "stopping" /\ disp # "none"
    /\ disp = "created" => startTask # Nobody
    /\ stopReq => disp # "none"
    /\ disp # "none" /\ (stopReq \/ dispBreak \/ disp = "exiting")
         => \E t \in Tasks : pc[t] = "stopping"

\* The dispatcher is there before it is waited for, and gone when its end is
\* told; while it serves, the interrupt is its own.
DispatcherInv ==
    /\ \A t \in Tasks : tsig[t] => \/ pc[t] = "starting" /\ disp # "created"
                                   \/ pc[t] = "stopping" /\ disp = "none"
    /\ \A t \in Tasks : pc[t] = "close" => disp = "none"
    /\ disp # "none" => ctx # 0
    /\ disp \in {"waiting", "polling"} => enabled /\ irqTask = Dispatcher

LibraryInv == BaseInv /\ CloseInv /\ ReportInv /\ HoldingInv /\ WaitersInv
              /\ DispatcherInv /\ NoLostWakeup

---------------------------------------------------------------------------
\* The first of a set of positions, and a sequence without one of its elements.

LEMMA SmallestOf ==
    ASSUME NEW T, T \subseteq Nat, T # {}
    PROVE  Min(T) \in T
  <1> DEFINE R == {ss \in Nat \X Nat : ss[1] < ss[2]}
  <1>1. IsWellFoundedOn(R, Nat)
    BY NatLessThanWellFounded DEF OpToRel
  <1> HIDE DEF R
  <1>2. PICK x \in T : \A y \in T : ~(<<y, x>> \in R)
    BY <1>1, WFMin
  <1>3. ASSUME NEW y \in T PROVE x <= y
    <2>1. x \in Nat /\ y \in Nat /\ <<y, x>> \in Nat \X Nat
      OBVIOUS
    <2>2. ~(<<y, x>>[1] < <<y, x>>[2])
      BY <1>2, <2>1 DEF R
    <2>3. QED
      BY <2>1, <2>2
  <1>4. QED
    BY <1>3 DEF Min

LEMMA WithoutOne ==
    ASSUME NEW S, NEW s \in Seq(S), NEW i \in DOMAIN s
    PROVE  /\ RemoveAt(s, i) \in Seq(S)
           /\ DOMAIN RemoveAt(s, i) = 1..(Len(s) - 1)
           /\ \A j \in 1..(Len(s) - 1) :
                RemoveAt(s, i)[j] = IF j < i THEN s[j] ELSE s[j + 1]
  <1> DEFINE before == SubSeq(s, 1, i - 1)
             rest   == SubSeq(s, i + 1, Len(s))
  <1>1. Len(s) \in Nat /\ i \in 1..Len(s) /\ \A j \in 1..Len(s) : s[j] \in S
    BY LenProperties, ElementOfSeq
  <1>2. /\ before \in Seq(S) /\ Len(before) = i - 1
        /\ \A j \in 1..(i - 1) : before[j] = s[j]
    <2>1. \A j \in 1..(i - 1) : s[j] \in S
      BY <1>1
    <2>2. /\ before \in Seq(S) /\ Len(before) = IF 1 <= i - 1 THEN i - 1 - 1 + 1 ELSE 0
          /\ \A j \in 1..(i - 1 - 1 + 1) : before[j] = s[1 + j - 1]
      BY <1>1, <2>1, SubSeqProperties
    <2>3. QED
      BY <1>1, <2>2
  <1>3. /\ rest \in Seq(S) /\ Len(rest) = Len(s) - i
        /\ \A j \in 1..(Len(s) - i) : rest[j] = s[i + j]
    <2>1. \A j \in (i + 1)..Len(s) : s[j] \in S
      BY <1>1
    <2>2. /\ rest \in Seq(S)
          /\ Len(rest) = IF i + 1 <= Len(s) THEN Len(s) - (i + 1) + 1 ELSE 0
          /\ \A j \in 1..(Len(s) - (i + 1) + 1) : rest[j] = s[(i + 1) + j - 1]
      BY <1>1, <2>1, SubSeqProperties
    <2>3. QED
      BY <1>1, <2>2
  <1>4. RemoveAt(s, i) = before \o rest
    BY DEF RemoveAt
  <1> HIDE DEF before, rest
  <1>5. /\ before \o rest \in Seq(S) /\ Len(before \o rest) = Len(s) - 1
        /\ \A j \in 1..(Len(s) - 1) :
             (before \o rest)[j] = IF j <= i - 1 THEN before[j] ELSE rest[j - (i - 1)]
    <2>1. /\ before \o rest \in Seq(S) /\ Len(before \o rest) = Len(before) + Len(rest)
          /\ \A j \in 1..(Len(before) + Len(rest)) :
               (before \o rest)[j] = IF j <= Len(before) THEN before[j]
                                                        ELSE rest[j - Len(before)]
      BY <1>2, <1>3, ConcatProperties
    <2>2. Len(before) = i - 1 /\ Len(before) + Len(rest) = Len(s) - 1
      BY <1>1, <1>2, <1>3
    <2>3. QED
      BY <2>1, <2>2
  <1>6. ASSUME NEW j \in 1..(Len(s) - 1)
        PROVE  (before \o rest)[j] = IF j < i THEN s[j] ELSE s[j + 1]
    <2>1. CASE j < i
      BY <1>1, <1>2, <1>5, <1>6, <2>1
    <2>2. CASE ~(j < i)
      <3>1. j - (i - 1) \in 1..(Len(s) - i) /\ i + (j - (i - 1)) = j + 1
        BY <1>1, <1>6, <2>2
      <3>2. (before \o rest)[j] = rest[j - (i - 1)]
        <4>1. ~(j <= i - 1)
          BY <1>1, <1>6, <2>2
        <4>2. QED
          BY <1>5, <1>6, <4>1
      <3>3. rest[j - (i - 1)] = s[i + (j - (i - 1))]
        BY <1>3, <3>1
      <3>4. QED
        BY <2>2, <3>1, <3>2, <3>3
    <2>3. QED
      BY <2>1, <2>2
  <1>7. QED
    BY <1>4, <1>5, <1>6, LenProperties

LEMMA Parameters ==
    /\ Dispatcher \notin Tasks /\ Nobody \notin Tasks /\ Nobody # Dispatcher
    /\ RingSize \in Nat \ {0} /\ WaitPolls \in Nat \ {0}
    /\ MaxId \in Nat \ {0} /\ MaxContexts \in Nat \ {0}
  BY AsyncLibraryAssumption

LEMMA Requests ==
    /\ NoRequest \in Request /\ Cancelled \in Request /\ CardRequest \subseteq Request
    /\ NoRequest \notin CardRequest /\ Cancelled \notin CardRequest
    /\ NoAsync \in [queued : BOOLEAN, completed : BOOLEAN, req : Request, reply : Request]
  <1>1. /\ NoRequest \in Request /\ Cancelled \in Request /\ CardRequest \subseteq Request
        /\ NoRequest \notin CardRequest /\ Cancelled \notin CardRequest
    BY Parameters DEF NoRequest, Cancelled, Request, CardRequest
  <1>2. QED
    BY <1>1 DEF NoAsync

---------------------------------------------------------------------------
\* What a step does to the requests: a queued one completes, or one of the
\* operations below takes place, or nothing.

Completes(t, reply) ==
    /\ async[t].queued
    /\ \E i \in DOMAIN pending : pending[i] = t /\ pending' = RemoveAt(pending, i)
    /\ async' = [async EXCEPT ![t].queued = FALSE, ![t].completed = TRUE,
                              ![t].reply = reply]
    /\ posted' = [posted EXCEPT ![t] = posted[t] + 1]

\* The pending list is numbered from 1.
LEMMA PendingNumbered == TypeOK => pending \in Seq(Tasks) /\ DOMAIN pending \subseteq Nat \ {0}
  <1> SUFFICES ASSUME TypeOK PROVE pending \in Seq(Tasks) /\ DOMAIN pending \subseteq Nat \ {0}
    OBVIOUS
  <1>1. pending \in Seq(Tasks)
    BY DEF TypeOK
  <1>2. DOMAIN pending = 1..Len(pending) /\ Len(pending) \in Nat
    BY <1>1, LenProperties
  <1>3. QED
    BY <1>1, <1>2

LEMMA DispatchCompletes ==
    ASSUME TypeOK, PendingInv, NEW comp, Dispatch(comp)
    PROVE  \/ UNCHANGED asyncs
           \/ \E t \in Tasks : Completes(t, comp) /\ async[t].req.id = comp.id
  <1> DEFINE found == {i \in DOMAIN pending : async[pending[i]].req.id = comp.id}
             first == FindPending(comp.id)
  <1>1. CASE first = 0
    BY <1>1 DEF Dispatch
  <1>2. CASE first # 0
    <2>1. pending \in Seq(Tasks) /\ DOMAIN pending \subseteq Nat \ {0}
      BY PendingNumbered
    <2>2. found # {} /\ first = Min(found)
      BY <1>2 DEF FindPending
    <2>3. first \in found
      BY <2>1, <2>2, SmallestOf
    <2> HIDE DEF first
    <2>4. pending[first] \in Tasks /\ async[pending[first]].queued
          /\ async[pending[first]].req.id = comp.id
      BY <2>1, <2>3, LenProperties DEF PendingInv
    <2>5. Completes(pending[first], comp)
      BY <1>2, <2>3, <2>4 DEF Dispatch, Unlink, Completes, first
    <2>6. QED
      BY <2>4, <2>5
  <1>3. QED
    BY <1>1, <1>2

LEMMA RequestSteps ==
    ASSUME TypeOK, PendingInv, [Next]_vars
    PROVE  \/ UNCHANGED asyncs
           \/ \E t \in Tasks : Completes(t, Cancelled)
           \/ ring # <<>> /\ \E t \in Tasks : /\ Completes(t, Head(ring))
                                              /\ async[t].req.id = Head(ring).id
           \/ \E t \in Tasks : CallAsync(t) \/ CallAsyncRefused(t) \/ CloseLib(t) \/ CloseCore(t)
  <1>1. CASE UNCHANGED vars
    BY <1>1 DEF vars, asyncs
  <1>2. ASSUME NEW t \in Tasks, CancelAsync(t)
        PROVE  Completes(t, Cancelled)
    <2>1. /\ async[t].queued
          /\ \E i \in DOMAIN pending : pending[i] = t /\ pending' = RemoveAt(pending, i)
      <3> DEFINE id == async[t].req.id
                 found == {i \in DOMAIN pending : async[pending[i]].req.id = id}
      <3>1. /\ FindPending(id) # 0 /\ pending[FindPending(id)] = t
            /\ pending' = RemoveAt(pending, FindPending(id)) /\ async[t].queued
        BY <1>2 DEF CancelAsync, Unlink
      <3>2. found # {} /\ FindPending(id) = Min(found)
        BY <3>1 DEF FindPending
      <3>3. found \subseteq Nat
        BY PendingNumbered
      <3>4. FindPending(id) \in DOMAIN pending
        BY <3>2, <3>3, SmallestOf
      <3>5. QED
        BY <3>1, <3>4
    <2>2. QED
      BY <1>2, <2>1 DEF CancelAsync, Completes
  <1>3. ASSUME NEW t \in Tasks, WaitPoll(t) \/ CallPoll(t)
        PROVE  UNCHANGED asyncs \/ (ring # <<>> /\ Dispatch(Head(ring)))
    BY <1>3 DEF WaitPoll, CallPoll, CallKeeps
  <1>4. ASSUME NEW t \in Tasks,
               TaskStep(t) \/ TaskBegin(t),
               ~CancelAsync(t), ~WaitPoll(t), ~CallPoll(t), ~CallAsync(t),
               ~CallAsyncRefused(t), ~CloseLib(t), ~CloseCore(t)
        PROVE  UNCHANGED asyncs
    BY <1>4 DEF TaskStep, TaskBegin, StopDispatcher, EnsureDispatcher, EnsureDone, WaitDone,
                WrapperPoll, CallTimeout, OpenLib, WaitAsync, BeginCall
  <1>5. CASE DispatcherPoll
    BY <1>5, DispatchCompletes DEF DispatcherPoll
  <1>6. CASE DispatcherStart \/ DispatcherWake \/ DispatcherExit \/ Isr \/ FwComplete
    BY <1>6 DEF DispatcherStart, DispatcherWake, DispatcherExit, Isr, FwComplete
  <1>7. QED
    BY <1>1, <1>2, <1>3, <1>4, <1>5, <1>6, DispatchCompletes DEF Next, DispatcherStep

---------------------------------------------------------------------------
\* The pending list.

LEMMA CompletesKeepsPending ==
    ASSUME TypeOK, PendingInv, NEW t \in Tasks, NEW reply \in Request, Completes(t, reply)
    PROVE  /\ PendingInv' /\ pending' \in Seq(Tasks)
           /\ async' \in [Tasks -> [queued : BOOLEAN, completed : BOOLEAN,
                                    req : Request, reply : Request]]
           /\ posted' \in [Tasks -> Nat]
  <1>1. PICK i \in DOMAIN pending : pending[i] = t /\ pending' = RemoveAt(pending, i)
    BY DEF Completes
  <1>2. /\ pending \in Seq(Tasks) /\ Len(pending) \in Nat /\ DOMAIN pending = 1..Len(pending)
        /\ \A j \in DOMAIN pending : pending[j] \in Tasks
    BY LenProperties DEF TypeOK
  <1>3. /\ pending' \in Seq(Tasks) /\ DOMAIN pending' = 1..(Len(pending) - 1)
        /\ \A j \in 1..(Len(pending) - 1) :
             pending'[j] = IF j < i THEN pending[j] ELSE pending[j + 1]
    BY <1>1, <1>2, WithoutOne
  <1>4. ASSUME NEW j \in DOMAIN pending'
        PROVE  \E k \in DOMAIN pending : /\ k # i /\ pending'[j] = pending[k]
                                         /\ k = IF j < i THEN j ELSE j + 1
    <2>1. j \in 1..(Len(pending) - 1) /\ i \in 1..Len(pending)
      BY <1>2, <1>3
    <2>2. QED
      BY <1>2, <1>3, <2>1
  <1>5. \A u \in Tasks : u # t => async'[u] = async[u]
    BY DEF Completes, TypeOK
  <1>6. ASSUME NEW j \in DOMAIN pending' PROVE async'[pending'[j]].queued
    <2>1. PICK k \in DOMAIN pending : k # i /\ pending'[j] = pending[k]
      BY <1>4
    <2>2. pending[k] # t
      BY <1>1, <2>1 DEF PendingInv
    <2>3. QED
      BY <1>2, <1>5, <2>1, <2>2 DEF PendingInv
  <1>7. ASSUME NEW j \in DOMAIN pending', NEW k \in DOMAIN pending', pending'[j] = pending'[k]
        PROVE  j = k
    <2>1. PICK m \in DOMAIN pending : /\ m # i /\ pending'[j] = pending[m]
                                      /\ m = IF j < i THEN j ELSE j + 1
      BY <1>4
    <2>2. PICK n \in DOMAIN pending : /\ n # i /\ pending'[k] = pending[n]
                                      /\ n = IF k < i THEN k ELSE k + 1
      BY <1>4
    <2>3. m = n
      BY <1>7, <2>1, <2>2 DEF PendingInv
    <2>4. j \in Int /\ k \in Int /\ i \in Int
      BY <1>2, <1>3
    <2>5. QED
      BY <2>1, <2>2, <2>3, <2>4
  <1>8. async' \in [Tasks -> [queued : BOOLEAN, completed : BOOLEAN,
                              req : Request, reply : Request]]
        /\ posted' \in [Tasks -> Nat]
    <2>1. /\ async \in [Tasks -> [queued : BOOLEAN, completed : BOOLEAN,
                                  req : Request, reply : Request]]
          /\ posted \in [Tasks -> Nat]
      BY DEF TypeOK
    <2>2. posted' \in [Tasks -> Nat]
      BY <2>1 DEF Completes
    <2>3. /\ DOMAIN async' = Tasks /\ async' = [u \in Tasks |-> async'[u]]
          /\ \A u \in Tasks : u # t => async'[u] = async[u]
          /\ async'[t] = [async[t] EXCEPT !.queued = FALSE, !.completed = TRUE, !.reply = reply]
      BY <2>1 DEF Completes
    <2>4. async'[t] \in [queued : BOOLEAN, completed : BOOLEAN, req : Request, reply : Request]
      BY <2>1, <2>3
    <2>5. QED
      BY <2>1, <2>2, <2>3, <2>4
  <1>9. QED
    BY <1>3, <1>6, <1>7, <1>8 DEF PendingInv

\* The request of a call is of the context it was entered with.
LEMMA SubmittedIsCardRequest ==
    ASSUME TypeOK, NEW req, Enter, Submit(req)
    PROVE  /\ req \in CardRequest /\ nextId' \in 1..(MaxId + 1)
           /\ ctx' \in 0..contexts' /\ contexts' \in 0..MaxContexts
           /\ inflight' = inflight \cup {req}
  <1>1. ctx' \in 1..contexts' /\ contexts' \in 0..MaxContexts
    BY Parameters DEF Enter, TypeOK
  <1>2. FirstId \in 1..MaxId
    BY Parameters DEF Submit, CanSubmit, FirstId, TypeOK
  <1>3. QED
    BY <1>1, <1>2, Parameters DEF Submit, CardRequest

LEMMA OperationsKeepPending ==
    ASSUME TypeOK, PendingInv, NEW t \in Tasks,
           CallAsync(t) \/ CallAsyncRefused(t) \/ CloseLib(t) \/ CloseCore(t)
    PROVE  PendingInv'
  <1>1. pending \in Seq(Tasks) /\ \A i \in DOMAIN pending : pending[i] \in Tasks
    BY LenProperties DEF TypeOK
  <1>2. CASE CloseCore(t)
    <2>1. pending' = <<>>
      BY <1>2 DEF CloseCore
    <2>2. DOMAIN pending' = 1..0
      BY <2>1, EmptySeq, LenProperties
    <2>3. QED
      BY <2>2 DEF PendingInv
  <1>3. CASE CallAsyncRefused(t) \/ CloseLib(t)
    <2>1. pending' = pending /\ async' = [async EXCEPT ![t] = NoAsync] /\ ~async[t].queued
      BY <1>3 DEF CallAsyncRefused, CloseLib
    <2>2. \A i \in DOMAIN pending : pending[i] # t
      BY <2>1 DEF PendingInv
    <2>3. QED
      BY <1>1, <2>1, <2>2 DEF PendingInv, TypeOK
  <1>4. CASE CallAsync(t)
    <2>1. /\ pending' = <<t>> \o pending /\ ~async[t].queued
          /\ \E req : async' = [async EXCEPT ![t] = [NoAsync EXCEPT !.queued = TRUE,
                                                                    !.req = req]]
      BY <1>4 DEF CallAsync
    <2>2. async'[t].queued /\ \A u \in Tasks : u # t => async'[u] = async[u]
      BY <2>1 DEF TypeOK, NoAsync
    <2>3. /\ DOMAIN pending' = 1..(Len(pending) + 1) /\ pending'[1] = t
          /\ \A i \in 2..(Len(pending) + 1) : pending'[i] = pending[i - 1]
      <3>1. <<t>> \in Seq(Tasks) /\ Len(<<t>>) = 1 /\ <<t>>[1] = t
        OBVIOUS
      <3>2. /\ pending' \in Seq(Tasks) /\ Len(pending') = 1 + Len(pending)
            /\ \A i \in 1..(1 + Len(pending)) :
                 pending'[i] = IF i <= 1 THEN <<t>>[i] ELSE pending[i - 1]
        BY <1>1, <2>1, <3>1, ConcatProperties
      <3>3. Len(pending) \in Nat
        BY <1>1, LenProperties
      <3>4. DOMAIN pending' = 1..(1 + Len(pending))
        BY <3>2, LenProperties
      <3>5. pending'[1] = t
        BY <3>1, <3>2, <3>3
      <3>6. ASSUME NEW i \in 2..(Len(pending) + 1) PROVE pending'[i] = pending[i - 1]
        BY <3>2, <3>3, <3>6
      <3>7. QED
        BY <3>3, <3>4, <3>5, <3>6
    <2>4. DOMAIN pending = 1..Len(pending) /\ Len(pending) \in Nat
      BY <1>1, LenProperties
    <2>5. \A i \in DOMAIN pending : pending[i] # t
      BY <2>1 DEF PendingInv
    <2>6. ASSUME NEW i \in DOMAIN pending', i # 1
          PROVE  i - 1 \in DOMAIN pending /\ pending'[i] = pending[i - 1] /\ i \in Int
      BY <2>3, <2>4, <2>6
    <2>7. ASSUME NEW i \in DOMAIN pending' PROVE async'[pending'[i]].queued
      <3>1. CASE i = 1
        BY <2>2, <2>3, <3>1
      <3>2. CASE i # 1
        BY <1>1, <2>2, <2>5, <2>6, <3>2 DEF PendingInv
      <3>3. QED
        BY <3>1, <3>2
    <2>8. ASSUME NEW i \in DOMAIN pending', NEW j \in DOMAIN pending', pending'[i] = pending'[j]
          PROVE  i = j
      <3>1. CASE i = 1 \/ j = 1
        BY <2>3, <2>5, <2>6, <2>8, <3>1
      <3>2. CASE i # 1 /\ j # 1
        <4>1. i - 1 = j - 1
          BY <2>6, <2>8, <3>2 DEF PendingInv
        <4>2. QED
          BY <2>6, <3>2, <4>1
      <3>3. QED
        BY <3>1, <3>2
    <2>9. QED
      BY <2>7, <2>8 DEF PendingInv
  <1>5. QED
    BY <1>2, <1>3, <1>4

LEMMA PendingStep ==
    ASSUME TypeOK, CardInv, PendingInv, [Next]_vars
    PROVE  PendingInv'
  <1>1. CASE UNCHANGED asyncs
    BY <1>1 DEF asyncs, PendingInv
  <1>2. ring # <<>> => Head(ring) \in Request
    BY HeadTailProperties, Requests DEF CardInv
  <1>3. QED
    BY <1>1, <1>2, RequestSteps, CompletesKeepsPending, OperationsKeepPending, Requests

---------------------------------------------------------------------------
\* The card's side, and each request with its reply.

LEMMA CardStep ==
    ASSUME TypeOK, CardInv, PendingInv, [Next]_vars
    PROVE  CardInv'
  <1>1. ring # <<>> => Head(ring) \in CardRequest /\ Tail(ring) \in Seq(CardRequest)
    BY HeadTailProperties DEF CardInv
  <1>2. inflight' \subseteq CardRequest /\ ring' \in Seq(CardRequest)
    <2>1. inflight \subseteq CardRequest /\ ring \in Seq(CardRequest)
      BY DEF CardInv
    <2>2. ASSUME NEW t \in Tasks, CallAsync(t) \/ BeginCall(t)
          PROVE  inflight' \subseteq CardRequest /\ ring' = ring
      <3>1. Enter /\ (\E req : Submit(req)) /\ ring' = ring
        BY <2>2 DEF CallAsync, BeginCall
      <3>2. QED
        BY <2>1, <3>1, SubmittedIsCardRequest
    <2>3. CASE FwComplete
      <3>1. \E req \in CardRequest : inflight' \subseteq inflight /\ ring' = Append(ring, req)
        BY <2>1, <2>3 DEF FwComplete
      <3>2. QED
        BY <2>1, <3>1, AppendProperties
    <2>4. ASSUME NEW t \in Tasks, TaskStep(t) \/ TaskBegin(t), ~CallAsync(t), ~BeginCall(t)
          PROVE  inflight' = inflight /\ (ring' = ring \/ (ring # <<>> /\ ring' = Tail(ring)))
      BY <2>4 DEF TaskStep, TaskBegin, StopDispatcher, CloseCore, EnsureDispatcher,
        EnsureDone, WaitPoll, WaitDone, CallPoll, WrapperPoll, CallTimeout, OpenLib, CloseLib,
        CallAsyncRefused, CancelAsync, WaitAsync, card
    <2>5. CASE DispatcherStep \/ Isr \/ UNCHANGED vars
      <3>1. inflight' = inflight /\ (ring' = ring \/ (ring # <<>> /\ ring' = Tail(ring)))
        BY <2>5 DEF DispatcherStep, DispatcherStart, DispatcherWake, DispatcherPoll,
          DispatcherExit, Isr, card, vars
      <3>2. QED
        BY <1>1, <2>1, <3>1
    <2>6. QED
      BY <1>1, <2>1, <2>2, <2>3, <2>4, <2>5 DEF Next
  <1>3. ASSUME NEW t \in Tasks
        PROVE  /\ async'[t].queued \/ async'[t].completed => async'[t].req \in CardRequest
               /\ async'[t].completed =>
                    \/ async'[t].reply = Cancelled
                    \/ async'[t].reply \in CardRequest /\ async'[t].reply.id = async'[t].req.id
    <2>1. /\ async[t].queued \/ async[t].completed => async[t].req \in CardRequest
          /\ async[t].completed =>
               \/ async[t].reply = Cancelled
               \/ async[t].reply \in CardRequest /\ async[t].reply.id = async[t].req.id
      BY DEF CardInv
    <2>2. CASE UNCHANGED asyncs
      BY <2>1, <2>2 DEF asyncs
    <2>3. ASSUME NEW u \in Tasks, NEW reply, Completes(u, reply),
                 reply = Cancelled \/ (reply \in CardRequest /\ reply.id = async[u].req.id)
          PROVE  /\ async'[t].queued \/ async'[t].completed => async'[t].req \in CardRequest
                 /\ async'[t].completed =>
                      \/ async'[t].reply = Cancelled
                      \/ async'[t].reply \in CardRequest /\ async'[t].reply.id = async'[t].req.id
      <3>1. CASE u # t
        <4>1. async'[t] = async[t]
          BY <2>3, <3>1 DEF Completes, TypeOK
        <4>2. QED
          BY <2>1, <4>1
      <3>2. CASE u = t
        <4>1. async'[t].req = async[t].req /\ async'[t].reply = reply /\ async[t].queued
          BY <2>3, <3>2 DEF Completes, TypeOK
        <4>2. QED
          BY <2>1, <2>3, <3>2, <4>1
      <3>3. QED
        BY <3>1, <3>2
    <2>4. ASSUME NEW u \in Tasks, CallAsync(u) \/ CallAsyncRefused(u) \/ CloseLib(u) \/ CloseCore(u)
          PROVE  /\ async'[t].queued \/ async'[t].completed => async'[t].req \in CardRequest
                 /\ async'[t].completed =>
                      \/ async'[t].reply = Cancelled
                      \/ async'[t].reply \in CardRequest /\ async'[t].reply.id = async'[t].req.id
      <3>1. CASE CloseCore(u)
        <4>1. /\ async'[t].req = async[t].req
              /\ async'[t] = async[t] \/ (async[t].queued /\ async'[t].reply = Cancelled)
          BY <3>1 DEF CloseCore, TypeOK
        <4>2. QED
          BY <2>1, <4>1
      <3>2. CASE (CallAsyncRefused(u) \/ CloseLib(u)) /\ u = t
        <4>1. ~async'[t].queued /\ ~async'[t].completed
          BY <3>2 DEF CallAsyncRefused, CloseLib, NoAsync, TypeOK
        <4>2. QED
          BY <4>1
      <3>3. CASE CallAsync(u) /\ u = t
        <4>1. Enter /\ \E req : /\ Submit(req)
                                /\ async' = [async EXCEPT ![t] = [NoAsync EXCEPT !.queued = TRUE,
                                                                                 !.req = req]]
          BY <3>3 DEF CallAsync
        <4>2. PICK req \in CardRequest :
                  async' = [async EXCEPT ![t] = [NoAsync EXCEPT !.queued = TRUE, !.req = req]]
          BY <4>1, SubmittedIsCardRequest
        <4>3. async'[t].req = req /\ ~async'[t].completed
          BY <4>2 DEF NoAsync, TypeOK
        <4>4. QED
          BY <4>3
      <3>4. CASE u # t /\ ~CloseCore(u)
        <4>1. async'[t] = async[t]
          BY <2>4, <3>4 DEF CallAsync, CallAsyncRefused, CloseLib, TypeOK
        <4>2. QED
          BY <2>1, <4>1
      <3>5. QED
        BY <2>4, <3>1, <3>2, <3>3, <3>4
    <2>5. QED
      BY <1>1, <2>2, <2>3, <2>4, RequestSteps
  <1>4. QED
    BY <1>2, <1>3 DEF CardInv

---------------------------------------------------------------------------
\* Who has the library open.

LEMMA OpenOrClosed ==
    ASSUME TypeOK, [Next]_vars, \A t \in Tasks : ~OpenLib(t) /\ ~CloseLib(t)
    PROVE  /\ openCnt' = openCnt
           /\ \A u \in Tasks : /\ IsOpen(u)' <=> IsOpen(u)
                               /\ ~IsOpen(u) /\ pc'[u] # pc[u] =>
                                    pc[u] \in Closing /\ pc'[u] \in Closing \cup {"out"}
  <1>1. CASE UNCHANGED pc /\ UNCHANGED openCnt
    BY <1>1 DEF IsOpen
  <1>2. ASSUME NEW t \in Tasks, StopDispatcher(t) \/ CloseCore(t)
        PROVE  /\ openCnt' = openCnt /\ pc[t] \in Closing
               /\ \E where \in Closing \cup {"out"} : pc' = [pc EXCEPT ![t] = where]
    BY <1>2 DEF StopDispatcher, CloseCore, Goto, Closing
  <1>3. ASSUME NEW t \in Tasks, TaskStep(t) \/ TaskBegin(t),
               ~StopDispatcher(t), ~CloseCore(t), ~OpenLib(t), ~CloseLib(t), pc' # pc
        PROVE  /\ openCnt' = openCnt /\ IsOpen(t)
               /\ \E where : /\ pc' = [pc EXCEPT ![t] = where]
                             /\ where # "out" /\ where \notin Closing
    <2>1. CASE EnsureDispatcher(t) \/ EnsureDone(t)
      BY <2>1 DEF EnsureDispatcher, EnsureDone, Goto, Closing, IsOpen
    <2>2. CASE WaitAsync(t) \/ WaitDone(t) \/ CallAsync(t) \/ BeginCall(t)
      BY ZenonT(30), <2>2 DEF WaitAsync, WaitDone, CallAsync, BeginCall, Goto, Closing, IsOpen
    <2>3. CASE CallPoll(t) \/ WrapperPoll(t) \/ CallTimeout(t)
      BY <1>3, <2>3 DEF CallPoll, WrapperPoll, CallTimeout, EndCall, Goto, Closing, IsOpen
    <2>4. CASE WaitPoll(t) \/ CallAsyncRefused(t) \/ CancelAsync(t)
      BY <1>3, <2>4 DEF WaitPoll, CallAsyncRefused, CancelAsync
    <2>5. QED
      BY <1>3, <2>1, <2>2, <2>3, <2>4 DEF TaskStep, TaskBegin
  <1>4. openCnt' = openCnt
    BY DEF Next, TaskStep, TaskBegin, StopDispatcher, CloseCore, EnsureDispatcher,
      EnsureDone, WaitPoll, WaitDone, CallPoll, WrapperPoll, CallTimeout, CallAsync,
      CallAsyncRefused, CancelAsync, WaitAsync, BeginCall, DispatcherStep, DispatcherStart,
      DispatcherWake, DispatcherPoll, DispatcherExit, Isr, FwComplete, vars
  <1>5. CASE DispatcherStep \/ Isr \/ FwComplete \/ UNCHANGED vars
    <2>1. pc' = pc
      BY <1>5 DEF DispatcherStep, DispatcherStart, DispatcherWake, DispatcherPoll,
        DispatcherExit, Isr, FwComplete, vars
    <2>2. QED
      BY <1>1, <1>4, <2>1
  <1>6. ASSUME NEW t \in Tasks, TaskStep(t) \/ TaskBegin(t)
        PROVE  \A u \in Tasks : /\ IsOpen(u)' <=> IsOpen(u)
                                /\ ~IsOpen(u) /\ pc'[u] # pc[u] =>
                                     pc[u] \in Closing /\ pc'[u] \in Closing \cup {"out"}
    <2>1. CASE pc' = pc
      BY <1>1, <1>4, <2>1
    <2>2. CASE StopDispatcher(t) \/ CloseCore(t)
      BY <1>2, <2>2 DEF IsOpen, TypeOK
    <2>3. CASE pc' # pc /\ ~StopDispatcher(t) /\ ~CloseCore(t)
      BY <1>3, <1>6, <2>3 DEF IsOpen, TypeOK
    <2>4. QED
      BY <2>1, <2>2, <2>3
  <1>7. QED
    BY <1>4, <1>5, <1>6 DEF Next

LEMMA OpenSteps ==
    ASSUME TypeOK, NEW t \in Tasks
    PROVE  /\ OpenLib(t) => /\ t \notin OpenTasks /\ OpenTasks' = OpenTasks \cup {t}
                            /\ openCnt' = openCnt + 1
           /\ CloseLib(t) => /\ t \in OpenTasks /\ OpenTasks' = OpenTasks \ {t}
                             /\ openCnt' = openCnt - 1
  <1>1. ASSUME OpenLib(t)
        PROVE  pc[t] = "out" /\ pc' = [pc EXCEPT ![t] = "idle"] /\ openCnt' = openCnt + 1
    BY <1>1 DEF OpenLib, Goto
  <1>2. ASSUME CloseLib(t)
        PROVE  /\ pc[t] = "idle" /\ openCnt' = openCnt - 1
               /\ \E where \in {"stop", "out"} : pc' = [pc EXCEPT ![t] = where]
    BY <1>2 DEF CloseLib, Goto
  <1>3. QED
    BY <1>1, <1>2 DEF OpenTasks, IsOpen, Closing, TypeOK

LEMMA CountStep ==
    ASSUME TypeOK, CountInv, [Next]_vars
    PROVE  CountInv' /\ openCnt' \in Nat
  <1>1. IsFiniteSet(OpenTasks) /\ openCnt = Cardinality(OpenTasks) /\ openCnt \in Nat
    BY DEF CountInv, TypeOK
  <1>2. ASSUME NEW t \in Tasks, OpenLib(t) \/ CloseLib(t)
        PROVE  CountInv' /\ openCnt' \in Nat
    <2>1. CASE OpenLib(t)
      <3>1. t \notin OpenTasks /\ OpenTasks' = OpenTasks \cup {t} /\ openCnt' = openCnt + 1
        BY <2>1, OpenSteps
      <3>2. QED
        BY <1>1, <3>1, FS_AddElement DEF CountInv
    <2>2. CASE CloseLib(t)
      <3>1. t \in OpenTasks /\ OpenTasks' = OpenTasks \ {t} /\ openCnt' = openCnt - 1
        BY <2>2, OpenSteps
      <3>2. /\ IsFiniteSet(OpenTasks \ {t})
            /\ Cardinality(OpenTasks \ {t}) = Cardinality(OpenTasks) - 1
        BY <1>1, <3>1, FS_RemoveElement
      <3>3. Cardinality(OpenTasks \ {t}) \in Nat
        BY <3>2, FS_CardinalityType
      <3>4. QED
        BY <1>1, <3>1, <3>2, <3>3 DEF CountInv
    <2>3. QED
      BY <1>2, <2>1, <2>2
  <1>3. CASE \A t \in Tasks : ~OpenLib(t) /\ ~CloseLib(t)
    <2>1. openCnt' = openCnt /\ OpenTasks' = OpenTasks
      BY <1>3, OpenOrClosed DEF OpenTasks
    <2>2. QED
      BY <1>1, <2>1 DEF CountInv
  <1>4. QED
    BY <1>2, <1>3

---------------------------------------------------------------------------
\* Type correctness.

AsyncTypes ==
    /\ pending \in Seq(Tasks)
    /\ async \in [Tasks -> [queued : BOOLEAN, completed : BOOLEAN,
                            req : Request, reply : Request]]
    /\ posted \in [Tasks -> Nat]

LEMMA OperationsKeepTypes ==
    ASSUME TypeOK, NEW t \in Tasks,
           CallAsync(t) \/ CallAsyncRefused(t) \/ CloseLib(t) \/ CloseCore(t)
    PROVE  AsyncTypes'
  <1>1. AsyncTypes
    BY DEF TypeOK, AsyncTypes
  <1>2. CASE CallAsyncRefused(t) \/ CloseLib(t)
    <2>1. /\ pending' = pending /\ async' = [async EXCEPT ![t] = NoAsync]
          /\ posted' = [posted EXCEPT ![t] = 0]
      BY <1>2 DEF CallAsyncRefused, CloseLib
    <2>2. QED
      BY <1>1, <2>1, Requests DEF AsyncTypes
  <1>3. CASE CloseCore(t)
    <2>1. pending' \in Seq(Tasks) /\ posted' = posted
      BY <1>3, EmptySeq DEF CloseCore
    <2>2. \A u \in Tasks : async'[u] \in [queued : BOOLEAN, completed : BOOLEAN,
                                         req : Request, reply : Request]
      BY <1>1, <1>3, Requests DEF CloseCore, AsyncTypes
    <2>3. async' = [u \in Tasks |-> async'[u]]
      BY <1>3 DEF CloseCore
    <2>4. QED
      BY <1>1, <2>1, <2>2, <2>3 DEF AsyncTypes
  <1>4. CASE CallAsync(t)
    <2>1. Enter /\ \E req : /\ Submit(req)
                            /\ async' = [async EXCEPT ![t] = [NoAsync EXCEPT !.queued = TRUE,
                                                                             !.req = req]]
      BY <1>4 DEF CallAsync
    <2>2. PICK req \in Request :
              async' = [async EXCEPT ![t] = [NoAsync EXCEPT !.queued = TRUE, !.req = req]]
      BY <2>1, SubmittedIsCardRequest, Requests
    <2>3. [NoAsync EXCEPT !.queued = TRUE, !.req = req]
             \in [queued : BOOLEAN, completed : BOOLEAN, req : Request, reply : Request]
      BY Requests
    <2>4. pending' = <<t>> \o pending /\ posted' = [posted EXCEPT ![t] = 0]
      BY <1>4 DEF CallAsync
    <2>5. pending' \in Seq(Tasks)
      <3>1. <<t>> \in Seq(Tasks)
        OBVIOUS
      <3>2. QED
        BY <1>1, <2>4, <3>1, ConcatProperties DEF AsyncTypes
    <2>6. QED
      BY <1>1, <2>2, <2>3, <2>4, <2>5 DEF AsyncTypes
  <1>5. QED
    BY <1>2, <1>3, <1>4

LEMMA AsyncTypesStep ==
    ASSUME TypeOK, CardInv, PendingInv, [Next]_vars
    PROVE  AsyncTypes'
  <1>1. CASE UNCHANGED asyncs
    BY <1>1 DEF asyncs, AsyncTypes, TypeOK
  <1>2. ring # <<>> => Head(ring) \in Request
    BY HeadTailProperties, Requests DEF CardInv
  <1>3. QED
    BY <1>1, <1>2, RequestSteps, CompletesKeepsPending, OperationsKeepTypes, Requests
    DEF AsyncTypes

IrqTypes == /\ {asserted, enabled} \subseteq BOOLEAN
            /\ irqTask \in Tasks \cup {Dispatcher, Nobody}

CoreTypes == /\ ctx \in 0..contexts /\ contexts \in 0..MaxContexts
             /\ nextId \in 1..(MaxId + 1)

DispTypes == /\ {dispSig, dispBreak, stopReq} \subseteq BOOLEAN
             /\ {startTask, stopTask} \subseteq Tasks \cup {Nobody}
             /\ disp \in {"none", "created", "waiting", "polling", "exiting"}

TaskTypes ==
    /\ owner \in Tasks \cup {Nobody}
    /\ pc \in [Tasks -> {"out", "idle", "ensure", "starting", "wait", "call",
                         "wrapper", "stop", "stopping", "close"}]
    /\ tsig \in [Tasks -> BOOLEAN] /\ call \in [Tasks -> Request]
    /\ polls \in [Tasks -> 0..WaitPolls]

\* The variables besides those of the requests and of the card.
RestTypes == IrqTypes /\ CoreTypes /\ DispTypes /\ TaskTypes

LEMMA TypeStep ==
    ASSUME TypeOK, CardInv, PendingInv, CountInv, [Next]_vars
    PROVE  TypeOK'
  <1>1. IrqTypes /\ CoreTypes /\ DispTypes /\ TaskTypes /\ openCnt \in Nat
    BY DEF TypeOK, RestTypes, IrqTypes, CoreTypes, DispTypes, TaskTypes
  <1>2. AsyncTypes' /\ openCnt' \in Nat
    BY AsyncTypesStep, CountStep
  <1>3. inflight' \subseteq Request /\ ring' \in Seq(Request)
    <2>1. inflight' \subseteq CardRequest /\ ring' \in Seq(CardRequest)
      BY CardStep DEF CardInv
    <2>2. QED
      BY <2>1, Requests, SeqMonotonic
  <1>18. /\ UNCHANGED irqs => IrqTypes'
         /\ UNCHANGED core => CoreTypes'
         /\ UNCHANGED dispatcher => DispTypes'
         /\ UNCHANGED <<owner, pc, tsig, call, polls>> => TaskTypes'
         /\ UNCHANGED <<owner, pc, call, polls>> /\ tsig' \in [Tasks -> BOOLEAN] => TaskTypes'
    BY <1>1 DEF irqs, core, dispatcher,
         RestTypes, IrqTypes, CoreTypes, DispTypes, TaskTypes
  <1>4. ASSUME NEW t \in Tasks, OpenLib(t) \/ CloseLib(t) \/ StopDispatcher(t) \/ CloseCore(t)
        PROVE  RestTypes'
    <2>1. CASE OpenLib(t) \/ CloseLib(t)
      BY <1>1, <2>1 DEF OpenLib, CloseLib, Goto, irqs, core, dispatcher,
         RestTypes, IrqTypes, CoreTypes, DispTypes, TaskTypes
    <2>2. CASE StopDispatcher(t)
      BY <1>1, <2>2 DEF StopDispatcher, Goto, irqs, core, dispatcher,
         RestTypes, IrqTypes, CoreTypes, DispTypes, TaskTypes
    <2>3. CASE CloseCore(t)
      <3>1. CoreTypes'
        <4>1. ctx' = 0 /\ nextId' = 1 /\ contexts' = contexts
          BY <2>3 DEF CloseCore
        <4>2. QED
          BY <1>1, <4>1, Parameters DEF RestTypes, IrqTypes, CoreTypes, DispTypes, TaskTypes
      <3>2. QED
        BY <1>1, <2>3, <3>1 DEF CloseCore, Goto, dispatcher,
         RestTypes, IrqTypes, CoreTypes, DispTypes, TaskTypes
    <2>4. QED
      BY <1>4, <2>1, <2>2, <2>3
  <1>5. ASSUME Enter, nextId' = FirstId PROVE CoreTypes'
    BY <1>1, <1>5, Parameters DEF Enter, FirstId,
         RestTypes, IrqTypes, CoreTypes, DispTypes, TaskTypes
  <1>6. ASSUME NEW t \in Tasks, CallAsync(t) \/ BeginCall(t)
        PROVE  RestTypes'
    <2>1. PICK req : /\ Enter /\ Submit(req)
                     /\ call' \in {call, [call EXCEPT ![t] = req]}
      BY <1>6 DEF CallAsync, BeginCall
    <2>2. CoreTypes' /\ req \in Request
      <3>1. CoreTypes' /\ req \in CardRequest
        BY <2>1, SubmittedIsCardRequest DEF CoreTypes
      <3>2. QED
        BY <3>1, Requests
    <2>3. /\ UNCHANGED <<irqs, dispatcher, tsig, polls>> /\ owner' \in {owner, t}
          /\ \E where \in {"ensure", "call", "wrapper"} : pc' = [pc EXCEPT ![t] = where]
      BY <1>6 DEF CallAsync, BeginCall, Goto
    <2>4. QED
      BY <1>1, <2>1, <2>2, <2>3 DEF irqs, dispatcher,
         RestTypes, IrqTypes, CoreTypes, DispTypes, TaskTypes
  <1>7. ASSUME NEW t \in Tasks, CallAsyncRefused(t) \/ CancelAsync(t) \/ WaitAsync(t)
        PROVE  RestTypes'
    <2>1. CoreTypes'
      BY <1>5, <1>7 DEF CallAsyncRefused, CancelAsync, WaitAsync
    <2>2. CASE CallAsyncRefused(t) \/ CancelAsync(t)
      BY <1>1, <2>1, <2>2 DEF CallAsyncRefused, CancelAsync, irqs, dispatcher,
         RestTypes, IrqTypes, CoreTypes, DispTypes, TaskTypes
    <2>3. CASE WaitAsync(t)
      <3>1. IrqTypes'
        BY <1>1, <2>3 DEF WaitAsync, irqs,
         RestTypes, IrqTypes, CoreTypes, DispTypes, TaskTypes
      <3>2. QED
        BY <1>1, <2>1, <2>3, <3>1, Parameters DEF WaitAsync, dispatcher, Goto,
         RestTypes, IrqTypes, CoreTypes, DispTypes, TaskTypes
    <2>4. QED
      BY <1>7, <2>2, <2>3
  <1>8. ASSUME NEW t \in Tasks, EnsureDispatcher(t) \/ EnsureDone(t)
        PROVE  RestTypes'
    BY <1>1, <1>8 DEF EnsureDispatcher, EnsureDone, irqs, core, dispatcher, Goto,
         RestTypes, IrqTypes, CoreTypes, DispTypes, TaskTypes
  <1>9. ASSUME NEW t \in Tasks, WaitPoll(t) \/ WaitDone(t)
        PROVE  RestTypes'
    <2>1. CASE WaitPoll(t)
      <3>1. polls[t] \in 0..WaitPolls /\ polls[t] + 1 \in 0..WaitPolls
        BY <1>1, <2>1, Parameters DEF WaitPoll, PollsLeft,
         RestTypes, IrqTypes, CoreTypes, DispTypes, TaskTypes
      <3>2. QED
        BY <1>1, <2>1, <3>1 DEF WaitPoll, irqs, core, dispatcher,
         RestTypes, IrqTypes, CoreTypes, DispTypes, TaskTypes
    <2>2. CASE WaitDone(t)
      <3>1. IrqTypes'
        BY <1>1, <2>2 DEF WaitDone, irqs,
         RestTypes, IrqTypes, CoreTypes, DispTypes, TaskTypes
      <3>2. QED
        BY <1>1, <2>2, <3>1, Parameters DEF WaitDone, core, dispatcher, Goto,
         RestTypes, IrqTypes, CoreTypes, DispTypes, TaskTypes
    <2>3. QED
      BY <1>9, <2>1, <2>2
  <1>10. ASSUME NEW t \in Tasks, CallPoll(t) \/ WrapperPoll(t) \/ CallTimeout(t)
         PROVE  RestTypes'
    <2>1. UNCHANGED <<irqs, core, dispatcher, tsig, polls>>
      BY <1>10 DEF CallPoll, WrapperPoll, CallTimeout
    <2>2. EndCall(t) \/ UNCHANGED <<owner, pc, call>>
      BY <1>10 DEF CallPoll, WrapperPoll, CallTimeout
    <2>3. QED
      BY <1>1, <2>1, <2>2, Requests DEF EndCall, Goto, irqs, core, dispatcher,
         RestTypes, IrqTypes, CoreTypes, DispTypes, TaskTypes
  <1>11. ASSUME NEW who PROVE SignalTasks(who) => tsig' \in [Tasks -> BOOLEAN]
    BY <1>1 DEF SignalTasks,
         RestTypes, IrqTypes, CoreTypes, DispTypes, TaskTypes
  <1>12. ASSUME DispatcherStart PROVE RestTypes'
    <2>1. tsig' \in [Tasks -> BOOLEAN] /\ UNCHANGED <<core, owner, pc, call, polls>>
      BY <1>11, <1>12 DEF DispatcherStart
    <2>2. IrqTypes' /\ DispTypes'
      BY <1>1, <1>12 DEF DispatcherStart, irqs, FirstPoll,
         RestTypes, IrqTypes, CoreTypes, DispTypes, TaskTypes
    <2>3. QED
      BY <1>18, <2>1, <2>2 DEF RestTypes
  <1>13. ASSUME DispatcherWake \/ DispatcherPoll PROVE RestTypes'
    <2>1. UNCHANGED <<irqs, core, owner, pc, tsig, call, polls>>
      BY <1>13 DEF DispatcherWake, DispatcherPoll
    <2>2. DispTypes'
      BY <1>1, <1>13 DEF DispatcherWake, DispatcherPoll,
         RestTypes, IrqTypes, CoreTypes, DispTypes, TaskTypes
    <2>3. QED
      BY <1>18, <2>1, <2>2 DEF RestTypes
  <1>14. ASSUME DispatcherExit PROVE RestTypes'
    <2>1. tsig' \in [Tasks -> BOOLEAN] /\ UNCHANGED <<core, owner, pc, call, polls>>
      BY <1>11, <1>14 DEF DispatcherExit
    <2>2. IrqTypes' /\ DispTypes'
      BY <1>1, <1>14 DEF DispatcherExit,
         RestTypes, IrqTypes, CoreTypes, DispTypes, TaskTypes
    <2>3. QED
      BY <1>18, <2>1, <2>2 DEF RestTypes
  <1>15. ASSUME Isr \/ FwComplete \/ UNCHANGED vars PROVE RestTypes'
    <2>1. UNCHANGED <<core, owner, pc, tsig, call, polls>>
      BY <1>15 DEF Isr, FwComplete, vars, core
    <2>2. IrqTypes' /\ DispTypes'
      BY <1>1, <1>15 DEF Isr, FwComplete, vars, dispatcher,
         RestTypes, IrqTypes, CoreTypes, DispTypes, TaskTypes
    <2>3. QED
      BY <1>18, <2>1, <2>2 DEF RestTypes
  <1>16. ASSUME NEW t \in Tasks, TaskStep(t) \/ TaskBegin(t) PROVE RestTypes'
    BY <1>4, <1>6, <1>7, <1>8, <1>9, <1>10, <1>16 DEF TaskStep, TaskBegin
  <1>17. RestTypes'
    BY <1>12, <1>13, <1>14, <1>15, <1>16 DEF Next, DispatcherStep
  <1>19. QED
    BY <1>2, <1>3, <1>17 DEF TypeOK, AsyncTypes, RestTypes, IrqTypes, CoreTypes, DispTypes, TaskTypes

LEMMA InitBase == Init => BaseInv
  <1> SUFFICES ASSUME Init PROVE BaseInv
    OBVIOUS
  <1>1. TypeOK
    <2>1. <<>> \in Seq(Request) /\ <<>> \in Seq(Tasks)
      BY EmptySeq
    <2>2. /\ inflight \subseteq Request /\ ring \in Seq(Request) /\ pending \in Seq(Tasks)
          /\ async \in [Tasks -> [queued : BOOLEAN, completed : BOOLEAN,
                                  req : Request, reply : Request]]
          /\ call \in [Tasks -> Request]
      BY <2>1, Requests DEF Init
    <2>3. ctx \in 0..contexts /\ contexts \in 0..MaxContexts /\ nextId \in 1..(MaxId + 1)
      BY Parameters DEF Init
    <2>4. polls \in [Tasks -> 0..WaitPolls] /\ posted \in [Tasks -> Nat]
      BY Parameters DEF Init
    <2>5. QED
      BY <2>2, <2>3, <2>4 DEF Init, TypeOK
  <1>2. CardInv
    <2>1. <<>> \in Seq(CardRequest)
      BY EmptySeq
    <2>2. QED
      BY <2>1 DEF Init, CardInv, NoAsync
  <1>3. PendingInv
    <2>1. DOMAIN pending = 1..0
      BY EmptySeq, LenProperties DEF Init
    <2>2. QED
      BY <2>1 DEF PendingInv
  <1>4. OpenTasks = {} /\ openCnt = 0
    BY DEF Init, OpenTasks, IsOpen
  <1>5. QED
    BY <1>1, <1>2, <1>3, <1>4, FS_EmptySet DEF BaseInv, CountInv

LEMMA BaseStep == BaseInv /\ [Next]_vars => BaseInv'
  BY TypeStep, CardStep, PendingStep, CountStep DEF BaseInv

LEMMA BaseInvariant == Spec => []BaseInv
  BY InitBase, BaseStep, PTL DEF Spec

\* Every variable has its type: lib_OpenCnt is never negative, a wait never polls
\* more often than it was told.
THEOREM TypeCorrect == Spec => []TypeOK
  <1>1. BaseInv => TypeOK
    BY DEF BaseInv
  <1>2. QED
    BY <1>1, BaseInvariant, PTL

---------------------------------------------------------------------------
\* Contexts: they are numbered as they are opened, and what is queued belongs to
\* the one that is open.

ContextInv ==
    /\ ctx \in {0, contexts}
    /\ \A r \in inflight : r.ctx <= contexts
    /\ \A i \in DOMAIN ring : ring[i].ctx <= contexts
    /\ \A t \in Tasks :
        /\ async[t].queued => ctx # 0 /\ async[t].req.ctx = ctx
        /\ async[t].completed => \/ async[t].reply = Cancelled
                                \/ async[t].reply.ctx <= async[t].req.ctx

\* What every step does to the context that is open, to the card and to the ring.
LEMMA ContextSteps ==
    ASSUME BaseInv, ContextInv, [Next]_vars
    PROVE  /\ ctx' \in {0, contexts'} /\ contexts \in Nat /\ contexts' \in Nat
           /\ contexts <= contexts'
           /\ ctx' # ctx => ctx = 0 \/ \E t \in Tasks : CloseCore(t)
           /\ \A r \in inflight' : r \in inflight \/ r.ctx = ctx'
           /\ \/ ring' = ring
              \/ ring # <<>> /\ ring' = Tail(ring)
              \/ \E r \in inflight : ring' = Append(ring, r)
  <1>a. TypeOK /\ contexts \in Nat /\ ctx \in {0, contexts}
    BY Parameters DEF BaseInv, TypeOK, ContextInv
  <1>1. ASSUME Enter
        PROVE  /\ ctx' \in {0, contexts'} /\ contexts' \in Nat /\ contexts <= contexts'
               /\ ctx' # ctx => ctx = 0
    BY <1>1, <1>a DEF Enter
  <1>2. ASSUME NEW t \in Tasks, CallAsync(t) \/ BeginCall(t)
        PROVE  Enter /\ ring' = ring /\ \A r \in inflight' : r \in inflight \/ r.ctx = ctx'
    BY <1>2 DEF CallAsync, BeginCall, Submit
  <1>3. ASSUME NEW t \in Tasks, CallAsyncRefused(t) \/ CancelAsync(t) \/ WaitAsync(t)
        PROVE  Enter /\ ring' = ring /\ inflight' = inflight
    BY <1>3 DEF CallAsyncRefused, CancelAsync, WaitAsync, card
  <1>4. ASSUME NEW t \in Tasks, CloseCore(t)
        PROVE  ctx' = 0 /\ contexts' = contexts /\ ring' = ring /\ inflight' = inflight
    BY <1>4 DEF CloseCore, card
  <1>5. ASSUME NEW t \in Tasks,
               \/ StopDispatcher(t) \/ EnsureDispatcher(t) \/ EnsureDone(t)
               \/ WaitPoll(t) \/ WaitDone(t) \/ CallPoll(t) \/ WrapperPoll(t)
               \/ CallTimeout(t) \/ OpenLib(t) \/ CloseLib(t)
        PROVE  /\ UNCHANGED <<ctx, contexts, inflight>>
               /\ ring' = ring \/ (ring # <<>> /\ ring' = Tail(ring))
    BY <1>5 DEF StopDispatcher, EnsureDispatcher, EnsureDone, WaitPoll, WaitDone, CallPoll,
      WrapperPoll, CallTimeout, OpenLib, CloseLib, core, card
  <1>6. CASE FwComplete
    BY <1>6, <1>a DEF FwComplete, core
  <1>7. CASE DispatcherStep \/ Isr \/ UNCHANGED vars
    <2>1. /\ UNCHANGED <<ctx, contexts, inflight>>
          /\ ring' = ring \/ (ring # <<>> /\ ring' = Tail(ring))
      BY <1>7 DEF DispatcherStep, DispatcherStart, DispatcherWake, DispatcherPoll,
        DispatcherExit, Isr, card, core, vars
    <2>2. QED
      BY <1>a, <2>1
  <1>8. QED
    BY <1>a, <1>1, <1>2, <1>3, <1>4, <1>5, <1>6, <1>7 DEF Next, TaskStep, TaskBegin

LEMMA ContextStep ==
    ASSUME BaseInv, ContextInv, [Next]_vars
    PROVE  ContextInv'
  <1>a. TypeOK /\ CardInv /\ PendingInv /\ TypeOK' /\ CardInv'
    BY BaseStep DEF BaseInv
  <1>1. /\ ctx' \in {0, contexts'} /\ contexts \in Nat /\ contexts' \in Nat
        /\ contexts <= contexts'
    BY ContextSteps
  <1>2. \A r \in CardRequest : r.ctx \in Nat /\ r.ctx # 0
    BY DEF CardRequest
  <1>3. \A r \in inflight' : r.ctx <= contexts'
    <2>1. SUFFICES ASSUME NEW r \in inflight' PROVE r.ctx <= contexts'
      OBVIOUS
    <2>2. r \in CardRequest
      BY <1>a, <2>1 DEF CardInv
    <2>3. r \in inflight \/ r.ctx = ctx'
      BY ContextSteps
    <2>4. QED
      BY <1>1, <1>2, <2>2, <2>3 DEF ContextInv
  <1>4. ring \in Seq(CardRequest) /\ \A i \in DOMAIN ring : ring[i] \in CardRequest
    BY <1>a, LenProperties DEF CardInv
  <1>5. \A i \in DOMAIN ring' : ring'[i].ctx <= contexts'
    <2>1. \A i \in DOMAIN ring : ring[i].ctx <= contexts'
      BY <1>1, <1>2, <1>4 DEF ContextInv
    <2>2. CASE ring' = ring
      BY <2>1, <2>2
    <2>3. CASE ring # <<>> /\ ring' = Tail(ring)
      <3>1. /\ Len(ring) \in Nat \ {0} /\ DOMAIN ring = 1..Len(ring)
            /\ DOMAIN ring' = 1..(Len(ring) - 1)
            /\ \A i \in 1..(Len(ring) - 1) : ring'[i] = ring[i + 1]
        BY <1>4, <2>3, HeadTailProperties, LenProperties, EmptySeq
      <3>2. ASSUME NEW i \in 1..(Len(ring) - 1)
            PROVE  i + 1 \in DOMAIN ring /\ ring'[i] = ring[i + 1]
        BY <3>1
      <3>3. QED
        BY <2>1, <3>1, <3>2
    <2>4. ASSUME NEW r \in inflight, ring' = Append(ring, r)
          PROVE  \A i \in DOMAIN ring' : ring'[i].ctx <= contexts'
      <3>1. r \in CardRequest /\ r.ctx <= contexts
        BY <1>a DEF CardInv, ContextInv
      <3>2. r.ctx <= contexts'
        BY <1>1, <1>2, <3>1
      <3>3. /\ DOMAIN ring' = 1..(Len(ring) + 1) /\ ring'[Len(ring) + 1] = r
            /\ Len(ring) \in Nat /\ DOMAIN ring = 1..Len(ring)
            /\ \A i \in 1..Len(ring) : ring'[i] = ring[i]
        BY <1>4, <2>4, <3>1, AppendProperties, LenProperties
      <3>4. QED
        BY <2>1, <3>2, <3>3
    <2>5. QED
      BY <2>2, <2>3, <2>4, ContextSteps
  <1>6. ASSUME NEW t \in Tasks
        PROVE  /\ async'[t].queued => ctx' # 0 /\ async'[t].req.ctx = ctx'
               /\ async'[t].completed => \/ async'[t].reply = Cancelled
                                        \/ async'[t].reply.ctx <= async'[t].req.ctx
    <2>a. /\ async[t].queued => ctx # 0 /\ async[t].req.ctx = ctx
          /\ async[t].completed => \/ async[t].reply = Cancelled
                                  \/ async[t].reply.ctx <= async[t].req.ctx
      BY DEF ContextInv
    <2>1. ASSUME NEW u \in Tasks, CloseCore(u)
          PROVE  ~async'[t].queued /\ \/ async'[t] = async[t]
                                      \/ async'[t].reply = Cancelled
      <3>1. async'[t] = IF async[t].queued
                        THEN [async[t] EXCEPT !.queued = FALSE, !.completed = TRUE,
                                              !.reply = Cancelled]
                        ELSE async[t]
        BY <2>1 DEF CloseCore
      <3>2. async[t] \in [queued : BOOLEAN, completed : BOOLEAN,
                          req : Request, reply : Request]
        BY <1>a DEF TypeOK
      <3>3. CASE async[t].queued
        BY <3>1, <3>2, <3>3
      <3>4. CASE ~async[t].queued
        BY <3>1, <3>4
      <3>5. QED
        BY <3>3, <3>4
    <2>2. CASE async'[t] = async[t] /\ \A u \in Tasks : ~CloseCore(u)
      <3>1. async[t].queued => ctx' = ctx
        BY <2>2, <2>a, ContextSteps
      <3>2. QED
        BY <2>2, <2>a, <3>1
    <2>3. ASSUME NEW reply, Completes(t, reply),
                 reply = Cancelled \/ (ring # <<>> /\ reply = Head(ring))
          PROVE  ~async'[t].queued /\ \/ async'[t].reply = Cancelled
                                      \/ async'[t].reply.ctx <= async'[t].req.ctx
      <3>1. /\ async[t].queued /\ ~async'[t].queued /\ async'[t].reply = reply
            /\ async'[t].req = async[t].req
        BY <1>a, <2>3 DEF Completes, TypeOK
      <3>2. ASSUME ring # <<>>, reply = Head(ring)
            PROVE  reply.ctx <= contexts
        <4>1. 1 \in DOMAIN ring /\ reply = ring[1]
          BY <1>4, <3>2, HeadTailProperties, LenProperties, EmptySeq
        <4>2. QED
          BY <4>1 DEF ContextInv
      <3>3. async[t].req.ctx = contexts
        BY <2>a, <3>1 DEF ContextInv
      <3>4. QED
        BY <2>3, <3>1, <3>2, <3>3
    <2>4. ASSUME CallAsync(t)
          PROVE  /\ async'[t].queued /\ ctx' # 0 /\ async'[t].req.ctx = ctx'
                 /\ ~async'[t].completed
      <3>1. ctx' # 0
        BY <1>1, <1>a, <2>4, Parameters DEF CallAsync, Enter, TypeOK
      <3>2. \E req : /\ req.ctx = ctx'
                     /\ async' = [async EXCEPT ![t] = [NoAsync EXCEPT !.queued = TRUE,
                                                                      !.req = req]]
        BY <2>4 DEF CallAsync, Submit
      <3>3. QED
        BY <1>a, <3>1, <3>2 DEF NoAsync, TypeOK
    <2>5. ASSUME CallAsyncRefused(t) \/ CloseLib(t)
          PROVE  ~async'[t].queued /\ ~async'[t].completed
      BY <1>a, <2>5 DEF CallAsyncRefused, CloseLib, NoAsync, TypeOK
    <2>6. ASSUME NEW u \in Tasks, u # t,
                 \/ \E reply : Completes(u, reply)
                 \/ CallAsync(u) \/ CallAsyncRefused(u) \/ CloseLib(u)
          PROVE  async'[t] = async[t]
      BY <1>a, <2>6 DEF Completes, CallAsync, CallAsyncRefused, CloseLib, TypeOK
    <2>7. CASE UNCHANGED asyncs
      BY <2>1, <2>2, <2>7, <2>a DEF asyncs
    <2>8. QED
      BY <1>a, <2>1, <2>2, <2>3, <2>4, <2>5, <2>6, <2>7, <2>a, RequestSteps
  <1>7. QED
    BY <1>1, <1>3, <1>5, <1>6 DEF ContextInv

\* zz9k_find_pending goes by the id alone.  That is enough among the requests of one
\* context, whatever is cancelled, requeued or late; after the library was closed
\* and opened again the reply may be that of the older request with this id.
THEOREM ReplyIsOwn == Spec => []OwnReply
  <1>1. Init => ContextInv
    <2>1. <<>> \in Seq(CardRequest) /\ DOMAIN <<>> = {}
      BY EmptySeq
    <2>2. QED
      BY <2>1 DEF Init, ContextInv, NoAsync
  <1>2. BaseInv /\ ContextInv => OwnReply
    <2> SUFFICES ASSUME BaseInv, ContextInv, NEW t \in Tasks, async[t].completed,
                        async[t].reply # Cancelled
                 PROVE  \/ async[t].reply = async[t].req
                        \/ /\ async[t].reply.id = async[t].req.id
                           /\ async[t].reply.ctx < async[t].req.ctx
      BY DEF OwnReply
    <2>1. /\ async[t].req \in CardRequest /\ async[t].reply \in CardRequest
          /\ async[t].reply.id = async[t].req.id
      BY DEF BaseInv, CardInv
    <2>2. async[t].reply.ctx <= async[t].req.ctx
      BY DEF ContextInv
    <2>3. CASE async[t].reply.ctx = async[t].req.ctx
      BY <2>1, <2>3 DEF CardRequest
    <2>4. CASE async[t].reply.ctx # async[t].req.ctx
      <3>1. async[t].reply.ctx \in Nat /\ async[t].req.ctx \in Nat
        BY <2>1 DEF CardRequest
      <3>2. QED
        BY <2>1, <2>2, <2>4, <3>1
    <2>5. QED
      BY <2>3, <2>4
  <1>3. BaseInv /\ ContextInv /\ [Next]_vars => ContextInv'
    BY ContextStep
  <1>4. QED
    BY <1>1, <1>2, <1>3, BaseInvariant, PTL DEF Spec

---------------------------------------------------------------------------
\* When nobody opens the library while it closes for good: who is still there.

LEMMA CloseStep ==
    ASSUME ~OpenInClose, BaseInv, CloseInv, [Next]_vars
    PROVE  CloseInv'
  <1>1. TypeOK /\ PendingInv /\ CountInv
    BY DEF BaseInv
  <1>2. ASSUME NEW s \in Tasks, OpenLib(s)
        PROVE  CloseInv'
    <2>1. /\ pc' = [pc EXCEPT ![s] = "idle"] /\ async' = async
          /\ \A u \in Tasks : pc[u] \notin Closing
      BY <1>2 DEF OpenLib, Goto, asyncs, Closing
    <2>2. QED
      BY <1>1, <2>1 DEF CloseInv, IsOpen, Closing, TypeOK
  <1>3. ASSUME NEW s \in Tasks, CloseLib(s)
        PROVE  CloseInv'
    <2>1. /\ pc[s] = "idle" /\ ~async[s].queued /\ async' = [async EXCEPT ![s] = NoAsync]
          /\ pc' = [pc EXCEPT ![s] = IF openCnt = 1 THEN "stop" ELSE "out"]
      BY <1>3 DEF CloseLib, Goto
    <2>2. \A u \in Tasks : pc[u] \notin Closing
      BY <2>1 DEF CloseInv, IsOpen, Closing
    <2>3. openCnt = 1 => \A u \in Tasks : u # s => ~IsOpen(u)
      <3>1. s \in OpenTasks
        BY <2>1 DEF OpenTasks, IsOpen, Closing
      <3>2. openCnt = 1 => \E x : OpenTasks = {x}
        BY <1>1, FS_Singleton DEF CountInv
      <3>3. QED
        BY <3>1, <3>2 DEF OpenTasks
    <2>4. \A u \in Tasks : async'[u].queued => u # s /\ async[u].queued
      BY <1>1, <2>1 DEF TypeOK, NoAsync
    <2>5. QED
      BY <1>1, <2>1, <2>2, <2>3, <2>4 DEF CloseInv, IsOpen, Closing, TypeOK
  <1>4. CASE \A s \in Tasks : ~OpenLib(s) /\ ~CloseLib(s)
    <2>1. \A u \in Tasks : /\ IsOpen(u)' <=> IsOpen(u)
                           /\ pc'[u] \in Closing => pc[u] \in Closing
      BY <1>1, <1>4, OpenOrClosed DEF IsOpen
    <2>2. ASSUME NEW u \in Tasks, async'[u].queued
          PROVE  IsOpen(u)
      <3>1. CASE UNCHANGED asyncs
        BY <2>2, <3>1 DEF CloseInv, asyncs
      <3>2. ASSUME NEW s \in Tasks, NEW reply, Completes(s, reply)
            PROVE  async[u].queued
        BY <1>1, <2>2, <3>2 DEF Completes, TypeOK
      <3>3. ASSUME NEW s \in Tasks, CallAsync(s) \/ CallAsyncRefused(s) \/ CloseCore(s)
            PROVE  IsOpen(u)
        <4>1. CASE CallAsync(s) /\ u = s
          BY <4>1 DEF CallAsync, IsOpen, Closing
        <4>2. CASE (CallAsync(s) \/ CallAsyncRefused(s)) /\ u # s
          <5>1. async'[u] = async[u]
            BY <1>1, <4>2 DEF CallAsync, CallAsyncRefused, TypeOK
          <5>2. QED
            BY <2>2, <5>1 DEF CloseInv
        <4>3. CASE CallAsyncRefused(s) /\ u = s
          BY <1>1, <2>2, <4>3 DEF CallAsyncRefused, TypeOK, NoAsync
        <4>4. CASE CloseCore(s)
          BY <1>1, <2>2, <4>4 DEF CloseCore, TypeOK
        <4>5. QED
          BY <3>3, <4>1, <4>2, <4>3, <4>4
      <3>4. QED
        BY <1>1, <1>4, <3>1, <3>2, <3>3, RequestSteps DEF CloseInv
    <2>3. QED
      BY <2>1, <2>2 DEF CloseInv
  <1>5. QED
    BY <1>2, <1>3, <1>4

LEMMA ReportStep ==
    ASSUME BaseInv, CloseInv, ReportInv, [Next]_vars
    PROVE  ReportInv'
  <1>1. TypeOK /\ PendingInv
    BY DEF BaseInv
  <1>2. CASE UNCHANGED asyncs
    BY <1>2 DEF ReportInv, asyncs
  <1>3. ASSUME NEW s \in Tasks, NEW reply, Completes(s, reply)
        PROVE  ReportInv'
    <2>1. /\ ~async'[s].queued /\ async'[s].completed /\ posted'[s] = posted[s] + 1
          /\ \A u \in Tasks : u # s => async'[u] = async[u] /\ posted'[u] = posted[u]
      BY <1>1, <1>3 DEF Completes, TypeOK
    <2>2. posted[s] = 0
      BY <1>3 DEF Completes, ReportInv
    <2>3. QED
      BY <2>1, <2>2 DEF ReportInv
  <1>4. ASSUME NEW s \in Tasks, CallAsync(s) \/ CallAsyncRefused(s) \/ CloseLib(s)
        PROVE  ReportInv'
    <2>1. \A u \in Tasks : u # s => async'[u] = async[u] /\ posted'[u] = posted[u]
      BY <1>1, <1>4 DEF CallAsync, CallAsyncRefused, CloseLib, TypeOK
    <2>2. /\ posted'[s] = 0 /\ ~async'[s].completed
          /\ async'[s].queued \/ async'[s].req = NoRequest
      <3>1. CASE CallAsync(s)
        BY <1>1, <3>1 DEF CallAsync, NoAsync, TypeOK
      <3>2. CASE CallAsyncRefused(s) \/ CloseLib(s)
        <4>1. async'[s] = NoAsync /\ posted'[s] = 0
          BY <1>1, <3>2 DEF CallAsyncRefused, CloseLib, TypeOK
        <4>2. QED
          BY <4>1 DEF NoAsync
      <3>3. QED
        BY <1>4, <3>1, <3>2
    <2>3. QED
      BY <2>1, <2>2 DEF ReportInv
  <1>5. ASSUME NEW s \in Tasks, CloseCore(s)
        PROVE  ReportInv'
    <2>1. \A u \in Tasks : ~async[u].queued
      BY <1>5 DEF CloseCore, CloseInv, Closing
    <2>2. \A u \in Tasks : async'[u] = async[u] /\ posted'[u] = posted[u]
      BY <1>5, <2>1 DEF CloseCore
    <2>3. QED
      BY <2>2 DEF ReportInv
  <1>6. QED
    BY <1>1, <1>2, <1>3, <1>4, <1>5, RequestSteps

---------------------------------------------------------------------------
\* The semaphore and the dispatcher.

LEMMA HoldingStep ==
    ASSUME TypeOK, HoldingInv, [Next]_vars
    PROVE  HoldingInv'
  <1>1. ASSUME NEW t \in Tasks, WaitAsync(t) \/ BeginCall(t)
        PROVE  HoldingInv'
    <2>1. /\ owner = Nobody /\ owner' = t
          /\ \E where : pc' = [pc EXCEPT ![t] = where]
      BY <1>1 DEF WaitAsync, BeginCall, Enter, Goto
    <2>2. QED
      BY <2>1, Parameters DEF HoldingInv, TypeOK
  <1>2. ASSUME NEW t \in Tasks, TaskStep(t) \/ TaskBegin(t), ~WaitAsync(t), ~BeginCall(t)
        PROVE  HoldingInv'
    <2>1. CASE UNCHANGED <<owner, pc>>
      BY <2>1 DEF HoldingInv
    <2>2. CASE WaitDone(t) \/ CallPoll(t) \/ WrapperPoll(t) \/ CallTimeout(t)
      <3>1. CASE ~UNCHANGED <<owner, pc>>
        <4>1. owner' = Nobody /\ pc' = [pc EXCEPT ![t] = "idle"] /\ pc[t] \in Holding
          BY <2>2, <3>1 DEF WaitDone, CallPoll, WrapperPoll, CallTimeout, EndCall, Goto, Holding
        <4>2. \A u \in Tasks : pc[u] \in Holding => u = t
          BY <4>1 DEF HoldingInv
        <4>3. QED
          BY <4>1, <4>2 DEF HoldingInv, Holding, TypeOK
      <3>2. QED
        BY <2>1, <3>1
    <2>3. CASE StopDispatcher(t) \/ CloseCore(t) \/ EnsureDispatcher(t) \/ EnsureDone(t)
               \/ OpenLib(t) \/ CloseLib(t) \/ CallAsync(t)
      <3>1. owner' = owner /\ \E where : /\ pc' = [pc EXCEPT ![t] = where]
                                         /\ where \notin Holding
        <4>1. CASE StopDispatcher(t) \/ CloseCore(t)
          BY <4>1 DEF StopDispatcher, CloseCore, Goto, Holding
        <4>2. CASE EnsureDispatcher(t) \/ EnsureDone(t)
          BY <4>2 DEF EnsureDispatcher, EnsureDone, Goto, Holding
        <4>3. CASE OpenLib(t) \/ CloseLib(t)
          BY <4>3 DEF OpenLib, CloseLib, Goto, Holding
        <4>4. CASE CallAsync(t)
          <5>1. owner' = owner /\ pc' = [pc EXCEPT ![t] = "ensure"]
            BY <4>4 DEF CallAsync, Goto
          <5>2. "ensure" \notin Holding
            BY DEF Holding
          <5>3. QED
            BY <5>1, <5>2
        <4>5. QED
          BY <2>3, <4>1, <4>2, <4>3, <4>4
      <3>2. QED
        BY <3>1 DEF HoldingInv, TypeOK
    <2>4. CASE WaitPoll(t) \/ CallAsyncRefused(t) \/ CancelAsync(t)
      BY <2>1, <2>4 DEF WaitPoll, CallAsyncRefused, CancelAsync
    <2>5. QED
      BY <1>2, <2>2, <2>3, <2>4 DEF TaskStep, TaskBegin
  <1>3. CASE DispatcherStep \/ Isr \/ FwComplete \/ UNCHANGED vars
    BY <1>3 DEF HoldingInv, DispatcherStep, DispatcherStart, DispatcherWake, DispatcherPoll,
      DispatcherExit, Isr, FwComplete, vars
  <1>4. QED
    BY <1>1, <1>2, <1>3 DEF Next

\* Steps that neither start nor stop the dispatcher, nor wait for it.
Waiting == {"starting", "stopping", "close"}

LEMMA LeavesDispatcher ==
    ASSUME TypeOK, NEW t \in Tasks,
           \/ OpenLib(t) \/ CloseLib(t) \/ CallAsync(t) \/ CallAsyncRefused(t)
           \/ CancelAsync(t) \/ WaitAsync(t) \/ BeginCall(t) \/ WaitPoll(t) \/ WaitDone(t)
           \/ CallPoll(t) \/ WrapperPoll(t) \/ CallTimeout(t)
    PROVE  /\ UNCHANGED <<dispatcher, tsig>>
           /\ ctx # 0 => ctx' = ctx
           /\ disp # "none" /\ irqTask = Dispatcher => UNCHANGED irqs
           /\ \A u \in Tasks : pc'[u] = pc[u] \/ (pc[u] \notin Waiting /\ pc'[u] \notin Waiting)
           /\ ring' # <<>> => ring # <<>>
  <1>1. ring # <<>> \/ ring' = ring
    BY DEF OpenLib, CloseLib, CallAsync, CallAsyncRefused, CancelAsync, WaitAsync, BeginCall,
      WaitPoll, WaitDone, CallPoll, WrapperPoll, CallTimeout, card
  <1>2. UNCHANGED <<dispatcher, tsig>> /\ (ctx # 0 => ctx' = ctx)
    BY DEF OpenLib, CloseLib, CallAsync, CallAsyncRefused, CancelAsync, WaitAsync, BeginCall,
      WaitPoll, WaitDone, CallPoll, WrapperPoll, CallTimeout, core, Enter
  <1>3. disp # "none" /\ irqTask = Dispatcher => UNCHANGED irqs
    BY Parameters DEF OpenLib, CloseLib, CallAsync, CallAsyncRefused, CancelAsync, WaitAsync,
      BeginCall, WaitPoll, WaitDone, CallPoll, WrapperPoll, CallTimeout, irqs
  <1>4. pc' = pc \/ (pc[t] \notin Waiting /\ \E where : /\ pc' = [pc EXCEPT ![t] = where]
                                                        /\ where \notin Waiting)
    <2>1. CASE OpenLib(t) \/ CallAsync(t) \/ WaitAsync(t) \/ WaitDone(t)
      BY ZenonT(30), <2>1 DEF OpenLib, CallAsync, WaitAsync, WaitDone, Goto, Waiting
    <2>4. CASE CloseLib(t)
      <3>1. pc[t] = "idle" /\ (\/ pc' = [pc EXCEPT ![t] = "stop"]
                              \/ pc' = [pc EXCEPT ![t] = "out"])
        BY <2>4 DEF CloseLib, Goto
      <3>2. QED
        BY <3>1 DEF Waiting
    <2>5. CASE BeginCall(t)
      <3>1. pc[t] = "idle" /\ (Goto(t, "call") \/ Goto(t, "wrapper"))
        BY <2>5 DEF BeginCall
      <3>2. QED
        BY <3>1 DEF Goto, Waiting
    <2>2. CASE CallAsyncRefused(t) \/ CancelAsync(t) \/ WaitPoll(t)
      BY <2>2 DEF CallAsyncRefused, CancelAsync, WaitPoll
    <2>3. CASE CallPoll(t) \/ WrapperPoll(t) \/ CallTimeout(t)
      BY <2>3 DEF CallPoll, WrapperPoll, CallTimeout, EndCall, Goto, Waiting
    <2>6. QED
      BY <2>1, <2>2, <2>3, <2>4, <2>5
  <1>5. QED
    BY <1>1, <1>2, <1>3, <1>4 DEF TypeOK

\* Who starts the dispatcher has the library open: nobody stops it then.
LEMMA OpenOrStopping ==
    ASSUME CloseInv, NEW t \in Tasks, NEW u \in Tasks,
           pc[t] \in {"ensure", "starting"}
    PROVE  pc[u] \notin Closing
  BY DEF CloseInv, IsOpen, Closing

\* Where the dispatcher's first step goes while a task waits for it.
LEMMA StartsServing ==
    ASSUME TypeOK, CloseInv, WaitersInv, DispatcherInv, DispatcherStart
    PROVE  /\ disp = "created" /\ disp' = "waiting" /\ dispSig' = TRUE /\ ctx # 0
           /\ enabled' = TRUE /\ irqTask' = Dispatcher
           /\ startTask \in Tasks /\ pc[startTask] = "starting"
           /\ tsig' = [t \in Tasks |-> tsig[t] \/ t \in {startTask}]
           /\ UNCHANGED <<dispBreak, stopReq, startTask, stopTask, pc, ctx>>
  <1>1. disp = "created" /\ startTask \in Tasks /\ pc[startTask] = "starting"
    BY DEF DispatcherStart, WaitersInv, TypeOK
  <1>2. ~stopReq
    BY <1>1, OpenOrStopping DEF WaitersInv, Closing
  <1>3. ctx # 0
    BY <1>1 DEF DispatcherInv
  <1>4. QED
    BY <1>1, <1>2, <1>3 DEF DispatcherStart, FirstPoll, SignalTasks, core

\* The last closer goes on when the dispatcher has gone.
LEMMA ClosesAlone ==
    ASSUME TypeOK, DispatcherInv, NEW t \in Tasks, CloseCore(t)
    PROVE  /\ disp = "none" /\ pc[t] \in {"stopping", "close"}
           /\ pc' = [pc EXCEPT ![t] = "out"] /\ tsig' = [tsig EXCEPT ![t] = FALSE]
           /\ UNCHANGED dispatcher
  BY DEF CloseCore, Goto, DispatcherInv

LEMMA WaitersStep ==
    ASSUME TypeOK, CloseInv, WaitersInv, DispatcherInv, [Next]_vars
    PROVE  WaitersInv'
  <1>1. ASSUME UNCHANGED dispatcher,
               \A u \in Tasks : \/ pc'[u] = pc[u]
                                \/ pc[u] \notin Waiting /\ pc'[u] \notin Waiting
        PROVE  WaitersInv'
    <2>1. \A u \in Tasks : /\ pc'[u] = "starting" <=> pc[u] = "starting"
                           /\ pc'[u] = "stopping" <=> pc[u] = "stopping"
      BY <1>1 DEF Waiting
    <2>2. UNCHANGED <<disp, dispBreak, stopReq, startTask, stopTask>>
      BY <1>1 DEF dispatcher
    <2>3. {startTask, stopTask} \subseteq Tasks \cup {Nobody}
      BY DEF TypeOK
    <2>4. QED
      BY <2>1, <2>2, <2>3 DEF WaitersInv
  <1>2. ASSUME NEW t \in Tasks, TaskStep(t) \/ TaskBegin(t), ~StopDispatcher(t),
               ~CloseCore(t), ~EnsureDispatcher(t), ~EnsureDone(t)
        PROVE  WaitersInv'
    BY <1>1, <1>2, LeavesDispatcher DEF TaskStep, TaskBegin
  <1>3. CASE Isr \/ FwComplete \/ UNCHANGED vars
    BY <1>3 DEF WaitersInv, Isr, FwComplete, vars, dispatcher
  <1>4. ASSUME NEW t \in Tasks, StopDispatcher(t)
        PROVE  WaitersInv'
    <2>1. CASE disp = "none"
      <3>1. pc[t] = "stop" /\ pc' = [pc EXCEPT ![t] = "close"] /\ UNCHANGED dispatcher
        BY <1>4, <2>1 DEF StopDispatcher, Goto
      <3>2. QED
        BY <2>1, <3>1 DEF WaitersInv, dispatcher, TypeOK
    <2>2. CASE disp # "none"
      <3>1. /\ pc[t] = "stop" /\ pc' = [pc EXCEPT ![t] = "stopping"] /\ stopTask' = t
            /\ UNCHANGED <<disp, startTask>>
        BY <1>4, <2>2 DEF StopDispatcher, Goto
      <3>2. pc'[t] = "stopping" /\ \A u \in Tasks : u # t => pc'[u] = pc[u]
        BY <3>1 DEF TypeOK
      <3>3. QED
        BY <2>2, <3>1, <3>2 DEF WaitersInv, TypeOK
    <2>3. QED
      BY <2>1, <2>2
  <1>5. ASSUME NEW t \in Tasks, CloseCore(t)
        PROVE  WaitersInv'
    BY <1>5, ClosesAlone DEF WaitersInv, dispatcher, TypeOK
  <1>6. ASSUME NEW t \in Tasks, EnsureDispatcher(t)
        PROVE  WaitersInv'
    <2>1. CASE disp # "none" \/ ctx = 0 \/ ~IrqSupported
      <3>1. pc[t] = "ensure" /\ pc' = [pc EXCEPT ![t] = "idle"] /\ UNCHANGED dispatcher
        BY <1>6, <2>1 DEF EnsureDispatcher, Goto
      <3>2. QED
        BY <1>1, <3>1 DEF Waiting, TypeOK
    <2>2. CASE ~(disp # "none" \/ ctx = 0 \/ ~IrqSupported)
      <3>1. /\ pc[t] = "ensure" /\ disp = "none" /\ pc' = [pc EXCEPT ![t] = "starting"]
            /\ disp' = "created" /\ ~dispBreak' /\ ~stopReq' /\ startTask' = t
            /\ UNCHANGED stopTask
        BY <1>6, <2>2 DEF EnsureDispatcher, Goto
      <3>2. \A u \in Tasks : pc[u] # "starting"
        BY <3>1 DEF WaitersInv
      <3>3. stopTask = Nobody
        BY <3>1 DEF WaitersInv
      <3>4. pc'[t] = "starting" /\ \A u \in Tasks : u # t => pc'[u] = pc[u]
        BY <3>1 DEF TypeOK
      <3>5. t # Nobody
        BY Parameters
      <3>6. QED
        BY <3>1, <3>2, <3>3, <3>4, <3>5 DEF WaitersInv
    <2>3. QED
      BY <2>1, <2>2
  <1>7. ASSUME NEW t \in Tasks, EnsureDone(t)
        PROVE  WaitersInv'
    <2>1. /\ pc[t] = "starting" /\ pc' = [pc EXCEPT ![t] = "idle"] /\ startTask' = Nobody
          /\ UNCHANGED <<disp, dispBreak, stopReq, stopTask>>
      BY <1>7 DEF EnsureDone, Goto
    <2>2. disp # "created"
      BY <1>7, <2>1 DEF EnsureDone, DispatcherInv
    <2>3. \A u \in Tasks : pc[u] = "starting" => u = t
      BY <2>1 DEF WaitersInv
    <2>4. pc'[t] = "idle" /\ \A u \in Tasks : u # t => pc'[u] = pc[u]
      BY <2>1 DEF TypeOK
    <2>5. QED
      BY <2>1, <2>2, <2>3, <2>4 DEF WaitersInv, TypeOK
  <1>8. CASE DispatcherStart
    <2>1. /\ disp = "created" /\ disp' = "waiting" /\ pc[startTask] = "starting"
          /\ startTask \in Tasks /\ UNCHANGED <<dispBreak, stopReq, startTask, stopTask, pc>>
      BY <1>8, StartsServing
    <2>2. QED
      BY <2>1 DEF WaitersInv
  <1>9. CASE DispatcherWake
    <2>1. /\ disp = "waiting" /\ disp' = (IF dispBreak THEN "exiting" ELSE "polling")
          /\ UNCHANGED <<dispBreak, stopReq, startTask, stopTask, pc>>
      BY <1>9 DEF DispatcherWake
    <2>2. \A u \in Tasks : pc[u] = "starting" => ~dispBreak
      BY <2>1, OpenOrStopping DEF WaitersInv, Closing
    <2>3. QED
      BY <2>1, <2>2 DEF WaitersInv
  <1>10. CASE DispatcherPoll
    <2>1. /\ disp = "polling" /\ disp' \in {"waiting", "polling", "exiting"}
          /\ disp' = "exiting" => stopReq
          /\ UNCHANGED <<dispBreak, stopReq, startTask, stopTask, pc>>
      BY <1>10 DEF DispatcherPoll
    <2>2. \A u \in Tasks : pc[u] = "starting" => ~stopReq
      BY <2>1, OpenOrStopping DEF WaitersInv, Closing
    <2>3. QED
      BY <2>1, <2>2 DEF WaitersInv
  <1>11. CASE DispatcherExit
    <2>1. /\ disp = "exiting" /\ disp' = "none" /\ ~stopReq' /\ stopTask' = Nobody
          /\ UNCHANGED <<startTask, pc>>
      BY <1>11 DEF DispatcherExit
    <2>2. \A u \in Tasks : pc[u] # "starting"
      BY <2>1 DEF WaitersInv
    <2>3. QED
      BY <2>1, <2>2 DEF WaitersInv, TypeOK
  <1>12. QED
    BY <1>2, <1>3, <1>4, <1>5, <1>6, <1>7, <1>8, <1>9, <1>10, <1>11 DEF Next, DispatcherStep

LEMMA DispatcherInvStep ==
    ASSUME TypeOK, CloseInv, WaitersInv, DispatcherInv, [Next]_vars
    PROVE  DispatcherInv'
  <1>1. ASSUME NEW t \in Tasks, TaskStep(t) \/ TaskBegin(t), ~StopDispatcher(t),
               ~CloseCore(t), ~EnsureDispatcher(t), ~EnsureDone(t)
        PROVE  DispatcherInv'
    <2>1. /\ UNCHANGED <<disp, tsig>> /\ (ctx # 0 => ctx' = ctx)
          /\ disp # "none" /\ irqTask = Dispatcher => UNCHANGED <<enabled, irqTask>>
          /\ \A u \in Tasks : pc'[u] = pc[u] \/ (pc[u] \notin Waiting /\ pc'[u] \notin Waiting)
      BY <1>1, LeavesDispatcher DEF TaskStep, TaskBegin, dispatcher, irqs
    <2>2. \A u \in Tasks : /\ pc'[u] = "starting" <=> pc[u] = "starting"
                           /\ pc'[u] = "stopping" <=> pc[u] = "stopping"
                           /\ pc'[u] = "close" <=> pc[u] = "close"
      BY <2>1 DEF Waiting
    <2>3. disp' \in {"waiting", "polling"} => enabled' /\ irqTask' = Dispatcher
      BY <2>1 DEF DispatcherInv
    <2>4. disp' # "none" => ctx' # 0
      BY <2>1 DEF DispatcherInv
    <2>5. \A u \in Tasks : tsig'[u] => \/ pc'[u] = "starting" /\ disp' # "created"
                                       \/ pc'[u] = "stopping" /\ disp' = "none"
      BY <2>1, <2>2 DEF DispatcherInv
    <2>6. QED
      BY <2>1, <2>2, <2>3, <2>4, <2>5 DEF DispatcherInv
  <1>2. CASE Isr \/ FwComplete \/ UNCHANGED vars
    BY <1>2 DEF DispatcherInv, Isr, FwComplete, vars, dispatcher, core
  <1>3. ASSUME NEW t \in Tasks, StopDispatcher(t)
        PROVE  DispatcherInv'
    <2>1. /\ pc[t] = "stop" /\ UNCHANGED <<disp, tsig, irqs, core>>
          /\ pc' = [pc EXCEPT ![t] = IF disp = "none" THEN "close" ELSE "stopping"]
      BY <1>3 DEF StopDispatcher, Goto, dispatcher
    <2>2. ~tsig[t] /\ \A u \in Tasks : u # t => pc'[u] = pc[u]
      BY <2>1 DEF DispatcherInv, TypeOK
    <2>3. pc'[t] = "close" => disp = "none"
      BY <2>1 DEF TypeOK
    <2>4. QED
      BY <2>1, <2>2, <2>3 DEF DispatcherInv, irqs, core
  <1>4. ASSUME NEW t \in Tasks, CloseCore(t)
        PROVE  DispatcherInv'
    BY <1>4, ClosesAlone DEF DispatcherInv, dispatcher, TypeOK
  <1>5. ASSUME NEW t \in Tasks, EnsureDispatcher(t)
        PROVE  DispatcherInv'
    <2>1. CASE disp # "none" \/ ctx = 0 \/ ~IrqSupported
      <3>1. /\ pc[t] = "ensure" /\ pc' = [pc EXCEPT ![t] = "idle"]
            /\ UNCHANGED <<disp, tsig, ctx, enabled, irqTask>>
        BY <1>5, <2>1 DEF EnsureDispatcher, Goto, dispatcher, irqs, core
      <3>2. ~tsig[t] /\ pc'[t] = "idle" /\ \A u \in Tasks : u # t => pc'[u] = pc[u]
        BY <3>1 DEF DispatcherInv, TypeOK
      <3>3. QED
        BY <3>1, <3>2 DEF DispatcherInv
    <2>2. CASE ~(disp # "none" \/ ctx = 0 \/ ~IrqSupported)
      <3>1. /\ pc[t] = "ensure" /\ disp = "none" /\ ctx # 0 /\ disp' = "created"
            /\ UNCHANGED <<tsig, ctx>> /\ pc' = [pc EXCEPT ![t] = "starting"]
        BY <1>5, <2>2 DEF EnsureDispatcher, Goto, core
      <3>2. \A u \in Tasks : pc[u] \notin Closing /\ pc[u] # "starting"
        BY <3>1, OpenOrStopping DEF WaitersInv
      <3>3. \A u \in Tasks : ~tsig[u] /\ pc'[u] # "close"
        BY <3>1, <3>2 DEF DispatcherInv, Closing, TypeOK
      <3>4. QED
        BY <3>1, <3>3 DEF DispatcherInv
    <2>3. QED
      BY <2>1, <2>2
  <1>6. ASSUME NEW t \in Tasks, EnsureDone(t)
        PROVE  DispatcherInv'
    <2>1. /\ pc' = [pc EXCEPT ![t] = "idle"] /\ tsig' = [tsig EXCEPT ![t] = FALSE]
          /\ UNCHANGED <<disp, ctx, enabled, irqTask>>
      BY <1>6 DEF EnsureDone, Goto, irqs, core
    <2>2. ~tsig'[t] /\ pc'[t] = "idle"
          /\ \A u \in Tasks : u # t => pc'[u] = pc[u] /\ tsig'[u] = tsig[u]
      BY <2>1 DEF TypeOK
    <2>3. QED
      BY <2>1, <2>2 DEF DispatcherInv
  <1>7. CASE DispatcherStart
    <2>1. /\ disp = "created" /\ disp' = "waiting" /\ ctx # 0 /\ pc[startTask] = "starting"
          /\ enabled' = TRUE /\ irqTask' = Dispatcher /\ startTask \in Tasks
          /\ tsig' = [t \in Tasks |-> tsig[t] \/ t \in {startTask}]
          /\ UNCHANGED <<pc, ctx>>
      BY <1>7, StartsServing
    <2>2. \A u \in Tasks : ~tsig[u] /\ pc[u] # "close"
      BY <2>1, OpenOrStopping DEF DispatcherInv, Closing
    <2>3. \A u \in Tasks : tsig'[u] => u = startTask
      BY <2>1, <2>2
    <2>4. QED
      BY <2>1, <2>2, <2>3 DEF DispatcherInv
  <1>8. CASE DispatcherWake
    <2>1. /\ disp = "waiting" /\ disp' \in {"exiting", "polling"}
          /\ UNCHANGED <<ctx, enabled, irqTask, pc, tsig>>
      BY <1>8 DEF DispatcherWake, core, irqs
    <2>2. QED
      BY <2>1 DEF DispatcherInv
  <1>9. CASE DispatcherPoll
    <2>1. /\ disp = "polling" /\ disp' \in {"waiting", "polling", "exiting"}
          /\ UNCHANGED <<ctx, enabled, irqTask, pc, tsig>>
      BY <1>9 DEF DispatcherPoll, core, irqs
    <2>2. QED
      BY <2>1 DEF DispatcherInv
  <1>10. CASE DispatcherExit
    <2>1. /\ disp = "exiting" /\ disp' = "none" /\ UNCHANGED pc
          /\ tsig' = [t \in Tasks |-> tsig[t] \/ t \in {stopTask}]
      BY <1>10 DEF DispatcherExit, SignalTasks, StopWaiter
    <2>2. \A u \in Tasks : pc[u] # "starting"
      BY <2>1 DEF WaitersInv
    <2>3. \A u \in Tasks : tsig'[u] => pc[u] = "stopping"
      BY <2>1, <2>2, Parameters DEF DispatcherInv, WaitersInv
    <2>4. QED
      BY <2>1, <2>2, <2>3 DEF DispatcherInv
  <1>11. QED
    BY <1>1, <1>2, <1>3, <1>4, <1>5, <1>6, <1>7, <1>8, <1>9, <1>10 DEF Next, DispatcherStep

\* The dispatcher looks at the ring once more before it sleeps, and what comes
\* later raises the interrupt that is its own while it serves.
LEMMA WakeupStep ==
    ASSUME TypeOK, CloseInv, WaitersInv, DispatcherInv, NoLostWakeup, [Next]_vars
    PROVE  NoLostWakeup'
  <1>1. ASSUME NEW t \in Tasks, TaskStep(t) \/ TaskBegin(t), ~StopDispatcher(t),
               ~CloseCore(t), ~EnsureDispatcher(t), ~EnsureDone(t)
        PROVE  NoLostWakeup'
    <2>1. /\ UNCHANGED <<disp, dispSig, dispBreak>> /\ (ring' # <<>> => ring # <<>>)
          /\ disp # "none" /\ irqTask = Dispatcher => UNCHANGED <<asserted, enabled, irqTask>>
      BY <1>1, LeavesDispatcher DEF TaskStep, TaskBegin, dispatcher, irqs
    <2>2. QED
      BY <2>1 DEF NoLostWakeup, DispatcherInv
  <1>2. ASSUME NEW t \in Tasks, StopDispatcher(t)
        PROVE  NoLostWakeup'
    BY <1>2 DEF StopDispatcher, NoLostWakeup, dispatcher, irqs, card
  <1>3. ASSUME NEW t \in Tasks, CloseCore(t)
        PROVE  NoLostWakeup'
    BY <1>3, ClosesAlone DEF NoLostWakeup, dispatcher
  <1>4. ASSUME NEW t \in Tasks, EnsureDispatcher(t) \/ EnsureDone(t)
        PROVE  NoLostWakeup'
    BY <1>4 DEF EnsureDispatcher, EnsureDone, NoLostWakeup, dispatcher, irqs, card
  <1>5. CASE DispatcherStart
    BY <1>5, StartsServing DEF NoLostWakeup
  <1>6. CASE DispatcherWake \/ DispatcherExit
    BY <1>6 DEF DispatcherWake, DispatcherExit, NoLostWakeup
  <1>7. CASE DispatcherPoll
    BY <1>7 DEF DispatcherPoll, DispatcherInv, NoLostWakeup
  <1>8. CASE Isr \/ FwComplete
    BY <1>8 DEF Isr, FwComplete, DispatcherInv, NoLostWakeup, dispatcher, card
  <1>9. CASE UNCHANGED vars
    BY <1>9 DEF vars, NoLostWakeup
  <1>10. QED
    BY <1>1, <1>2, <1>3, <1>4, <1>5, <1>6, <1>7, <1>8, <1>9 DEF Next, DispatcherStep

LEMMA InitLibrary == Init => LibraryInv
  <1> SUFFICES ASSUME Init
               PROVE  LibraryInv
    OBVIOUS
  <1>1. BaseInv
    BY InitBase
  <1>2. /\ \A t \in Tasks : /\ pc[t] = "out" /\ tsig[t] = FALSE /\ async[t] = NoAsync
        /\ startTask = Nobody /\ stopTask = Nobody /\ disp = "none" /\ ~stopReq
    BY DEF Init
  <1>3. CloseInv /\ HoldingInv
    BY <1>2 DEF CloseInv, HoldingInv, Closing, Holding, NoAsync
  <1>4. ReportInv
    BY <1>2 DEF ReportInv, NoAsync
  <1>5. WaitersInv /\ DispatcherInv
    BY <1>2 DEF WaitersInv, DispatcherInv
  <1>6. NoLostWakeup
    BY <1>2 DEF NoLostWakeup
  <1>7. QED
    BY <1>1, <1>3, <1>4, <1>5, <1>6 DEF LibraryInv

LEMMA LibraryInvariant ==
    ASSUME ~OpenInClose
    PROVE  Spec => []LibraryInv
  <1>1. ASSUME LibraryInv, [Next]_vars
        PROVE  LibraryInv'
    <2>1. /\ BaseInv /\ CloseInv /\ ReportInv /\ HoldingInv /\ WaitersInv /\ DispatcherInv
          /\ NoLostWakeup /\ TypeOK
      BY <1>1 DEF LibraryInv, BaseInv
    <2>2. BaseInv' /\ CloseInv' /\ ReportInv' /\ HoldingInv'
      BY <1>1, <2>1, BaseStep, CloseStep, ReportStep, HoldingStep
    <2>3. WaitersInv' /\ DispatcherInv' /\ NoLostWakeup'
      BY <1>1, <2>1, WaitersStep, DispatcherInvStep, WakeupStep
    <2>4. QED
      BY <2>2, <2>3 DEF LibraryInv
  <1>2. QED
    BY <1>1, InitLibrary, PTL DEF Spec

\* When no task opens the library while its last closer waits for the dispatcher,
\* each request is reported once when it completes (by a reply, by ZZ9KCancelAsync)
\* and never while it is queued.
THEOREM EachReportedOnce ==
    ASSUME ~OpenInClose
    PROVE  Spec => []ReportedOnce
  <1>1. LibraryInv => ReportedOnce
    BY DEF LibraryInv, ReportInv, ReportedOnce
  <1>2. QED
    BY <1>1, LibraryInvariant, PTL

\* Under the same assumption the dispatcher process never waits while a completion
\* lies in the ring and nothing is going to wake it.
THEOREM NoWakeupIsLost ==
    ASSUME ~OpenInClose
    PROVE  Spec => []NoLostWakeup
  <1>1. LibraryInv => NoLostWakeup
    BY DEF LibraryInv
  <1>2. QED
    BY <1>1, LibraryInvariant, PTL

\* One caller at a time reads completions: the task that holds the semaphore, no
\* other task being in a polling call, or the dispatcher process while no task holds
\* it and none is in one (ZZ9KPoll, ZZ9KWaitAsync, ZZ9KCall).
THEOREM OnePollerAtATime ==
    Spec => [][Len(ring') < Len(ring) =>
                  \/ /\ owner = Nobody /\ disp = "polling"
                     /\ \A t \in Tasks : pc[t] \notin Holding
                  \/ /\ owner \in Tasks /\ UNCHANGED disp
                     /\ \A t \in Tasks : pc[t] \in Holding <=> t = owner]_vars
  <1>1. Init => HoldingInv
    BY DEF Init, HoldingInv, Holding
  <1>2. TypeOK /\ HoldingInv /\ [Next]_vars => HoldingInv'
    BY HoldingStep
  <1>3. BaseInv /\ HoldingInv /\ [Next]_vars =>
           [Len(ring') < Len(ring) =>
               \/ /\ owner = Nobody /\ disp = "polling"
                  /\ \A t \in Tasks : pc[t] \notin Holding
               \/ /\ owner \in Tasks /\ UNCHANGED disp
                  /\ \A t \in Tasks : pc[t] \in Holding <=> t = owner]_vars
    <2> SUFFICES ASSUME BaseInv, HoldingInv, Next, Len(ring') < Len(ring)
                 PROVE  \/ /\ owner = Nobody /\ disp = "polling"
                           /\ \A t \in Tasks : pc[t] \notin Holding
                        \/ /\ owner \in Tasks /\ UNCHANGED disp
                           /\ \A t \in Tasks : pc[t] \in Holding <=> t = owner
      OBVIOUS
    <2>1. ring' # ring
      <3>1. Len(ring) \in Nat
        BY LenProperties DEF BaseInv, CardInv
      <3>2. QED
        BY <3>1
    <2>2. ~FwComplete
      <3>1. SUFFICES ASSUME NEW r \in inflight, ring' = Append(ring, r) PROVE FALSE
        BY DEF FwComplete
      <3>2. r \in CardRequest /\ ring \in Seq(CardRequest)
        BY DEF BaseInv, CardInv
      <3>3. Len(ring') = Len(ring) + 1 /\ Len(ring) \in Nat
        BY <3>1, <3>2, AppendProperties, LenProperties
      <3>4. QED
        BY <3>3
    <2>3. ASSUME NEW t \in Tasks, TaskStep(t) \/ TaskBegin(t)
          PROVE  WaitPoll(t) \/ CallPoll(t) \/ WrapperPoll(t)
      BY <2>1, <2>3
         DEF TaskStep, TaskBegin, StopDispatcher, CloseCore, EnsureDispatcher, EnsureDone,
             WaitDone, CallTimeout, OpenLib, CloseLib, CallAsync, CallAsyncRefused,
             CancelAsync, WaitAsync, BeginCall, card
    <2>4. ASSUME NEW t \in Tasks, WaitPoll(t) \/ CallPoll(t) \/ WrapperPoll(t)
          PROVE  pc[t] \in Holding /\ UNCHANGED disp
      BY <2>4 DEF WaitPoll, CallPoll, WrapperPoll, Holding, dispatcher
    <2>5. ASSUME NEW t \in Tasks, TaskStep(t) \/ TaskBegin(t)
          PROVE  /\ owner \in Tasks /\ UNCHANGED disp
                 /\ \A u \in Tasks : pc[u] \in Holding <=> u = owner
      BY <2>3, <2>4, <2>5 DEF HoldingInv
    <2>6. CASE DispatcherStep \/ Isr
      <3>1. DispatcherPoll
        BY <2>1, <2>6
           DEF DispatcherStep, DispatcherStart, DispatcherWake, DispatcherExit, Isr, card
      <3>2. owner = Nobody /\ disp = "polling"
        BY <3>1 DEF DispatcherPoll
      <3>3. \A t \in Tasks : pc[t] \notin Holding
        BY <3>2, Parameters DEF HoldingInv
      <3>4. QED
        BY <3>2, <3>3
    <2>7. QED
      BY <2>2, <2>5, <2>6 DEF Next
  <1>4. QED
    BY <1>1, <1>2, <1>3, BaseInvariant, TypeCorrect, PTL DEF Spec

---------------------------------------------------------------------------
\* The programs that wait for the replies (EventWait, which MCAsync runs beside the
\* pending list).

LEMMA SameCardinality == ASSUME NEW S PROVE Program!Cardinality(S) = Cardinality(S)
  BY Zenon DEF Program!Cardinality, Cardinality

InWait == {"cancel", "enter", "drain", "start", "block", "decide"}
Reporting == {"finish", "handle"}
Gone    == {"leave", "close", "closed"}

\* Where the task may be with which tool and status; what the wait has not
\* begun to collect, and what was queued.
PlaceInv ==
    /\ place # "drain" => at = 1
    /\ place \notin {"drain", "block", "decide", "finish", "handle"} => woken = {} /\ got = {}
    /\ place \in {"queue", "close", "closed"} => \A p \in 1..Count : port[p] = <<>>
    /\ place = "drain" => tool # "callback"
    /\ place = "start" => tool = "callback"
    /\ place = "cancel" => tool = "cancel"
    /\ place = "queue" => status = "NONE"
    /\ place \in InWait => status \in {"NONE", "OK", "QUEUE_FAILED"}
    /\ place \in Reporting \cup Gone => status # "NONE"
    /\ place # "queue" /\ status \in {"NONE", "OK"} => expected = Program!Used
    /\ place \in InWait \cup Reporting /\ tool # "cancel" =>
          expected = Program!Used /\ status # "QUEUE_FAILED"

\* A message is in a port with its signal set, or the drain is still to come
\* to that port.  A callback that ran has its signal set or just taken, and a
\* program that waits for one does not wait again.
SignalInv ==
    /\ tool # "callback" =>
          \A p \in Program!Ports : port[p] # <<>> => p \in signals \/ (place = "drain" /\ p >= at)
    /\ tool = "callback" =>
          /\ 1 \in signals \cup woken => port[1] # <<>>
          /\ port[1] # <<>> => \/ 1 \in signals
                               \/ place = "decide" /\ 1 \in woken
                               \/ place \in {"finish", "handle", "leave"}
          /\ place \in Reporting /\ status = "OK" => port[1] # <<>>

\* A request on the library's list has been reported nowhere; only what was
\* queued is; and whoever leaves well has seen all of it.
SentInv ==
    /\ place = "queue" => sent = {} /\ expected = {}
    /\ sent \subseteq expected /\ got \subseteq expected
    /\ \A p \in 1..Count : Program!ToSet(port[p]) \subseteq expected
    /\ sent \cap seen = {} /\ sent \cap got = {}
    /\ \A p \in 1..Count : sent \cap Program!ToSet(port[p]) = {}
    /\ place \in Gone /\ status = "OK" => seen = Program!Used
    /\ place \notin {"close", "closed"} => stray = {}
    /\ stray # {} => status # "OK"

ProgramInv == Program!TypeOK /\ PlaceInv /\ SignalInv /\ SentInv

---------------------------------------------------------------------------
\* Constants, sets of requests and sequences of messages.

LEMMA Limits ==
    ASSUME Program!EventWaitAssumption
    PROVE  /\ Count \in Nat \ {0} /\ MaxRounds \in Nat \ {0}
           /\ Tools \subseteq {"msg", "batch", "cancel", "ports", "callback"}
           /\ OthersOpen \subseteq BOOLEAN
  BY DEF Program!EventWaitAssumption

\* The signals are distinct from each other and from the ports.
LEMMA Signals ==
    ASSUME Program!EventWaitAssumption
    PROVE  /\ Program!Ports \subseteq 1..Count /\ 1 \in Program!Ports
           /\ Program!Used \subseteq 1..Count
           /\ Program!Timer \notin Program!Ports /\ Program!CtrlC \notin Program!Ports
           /\ Program!Timer # Program!CtrlC
           /\ Program!Ports \subseteq Program!WaitMask /\ Program!Timer \in Program!WaitMask
           /\ Program!CtrlC \in Program!WaitMask
           /\ tool = "callback" => Program!Used = {1} /\ Program!Ports = {1}
  BY Limits
     DEF Program!Ports, Program!Used, Program!Timer, Program!CtrlC, Program!WaitMask,
         Program!Single

\* A request's message goes to one of the ports.
LEMMA PortOfFacts ==
    ASSUME Program!EventWaitAssumption, NEW r \in Program!Used
    PROVE  Program!PortOf(r) \in Program!Ports /\ Program!PortOf(r) \in 1..Count
  BY Limits DEF Program!PortOf, Program!Ports, Program!Used, Program!Single

\* As many requests as there are signals for: all of them.
LEMMA CountUsed ==
    ASSUME Program!EventWaitAssumption
    PROVE  /\ IsFiniteSet(Program!Used) /\ Program!Cardinality(Program!Used) \in Nat
           /\ \A k \in 0..Program!Cardinality(Program!Used) : 1..k \subseteq Program!Used
           /\ 1..Program!Cardinality(Program!Used) = Program!Used
  <1>1. CASE tool \in Program!Single
    <2>1. Program!Used = {1}
      BY <1>1 DEF Program!Used
    <2>2. Program!Cardinality(Program!Used) = 1 /\ IsFiniteSet(Program!Used)
      BY <2>1, FS_Singleton, SameCardinality
    <2>3. QED
      BY <2>1, <2>2
  <1>2. CASE tool \notin Program!Single
    <2>1. Program!Used = 1..Count
      BY <1>2 DEF Program!Used
    <2>2. Program!Cardinality(Program!Used) = Count /\ IsFiniteSet(Program!Used)
      BY <2>1, Limits, FS_Interval, SameCardinality
    <2>3. QED
      BY <2>1, <2>2, Limits
  <1>3. QED
    BY <1>1, <1>2

LEMMA ToSetFacts ==
    ASSUME NEW S, NEW q \in Seq(S), NEW r \in S
    PROVE  /\ Program!ToSet(<<>>) = {} /\ Program!ToSet(q) \subseteq S
           /\ Program!ToSet(Append(q, r)) = Program!ToSet(q) \cup {r} /\ Append(q, r) # <<>>
           /\ q # <<>> => Program!ToSet(q) # {}
  <1> DEFINE p == Append(q, r)
  <1>1. /\ DOMAIN q = 1..Len(q) /\ Len(q) \in Nat /\ DOMAIN p = 1..(Len(q) + 1)
        /\ p[Len(q) + 1] = r /\ \A i \in 1..Len(q) : p[i] = q[i] /\ q[i] \in S
        /\ p # <<>> /\ (q # <<>> => 1 \in DOMAIN q)
    OBVIOUS
  <1> HIDE DEF p
  <1>2. Program!ToSet(p) = Program!ToSet(q) \cup {r}
    <2>1. \A i \in DOMAIN p : i = Len(q) + 1 \/ i \in DOMAIN q
      BY <1>1
    <2>2. Len(q) + 1 \in DOMAIN p /\ \A i \in DOMAIN q : i \in DOMAIN p
      BY <1>1
    <2>3. QED
      BY <1>1, <2>1, <2>2 DEF Program!ToSet
  <1>3. /\ Program!ToSet(<<>>) = {} /\ Program!ToSet(q) \subseteq S
        /\ q # <<>> => Program!ToSet(q) # {}
    BY <1>1 DEF Program!ToSet
  <1>4. QED
    BY <1>1, <1>2, <1>3 DEF p

---------------------------------------------------------------------------
\* Types.

Statuses == {"NONE", "OK", "TIMEOUT", "CANCELLED", "QUEUE_FAILED"}

LEMMA WaitTypeStep ==
    ASSUME Program!EventWaitAssumption, ProgramInv, [Program!Next]_Program!vars
    PROVE  Program!TypeOK'
  <1>a. Program!TypeOK /\ PlaceInv /\ SentInv
    BY DEF ProgramInv
  <1>b. /\ Program!Ports \subseteq 1..Count /\ 1 \in Program!Ports
        /\ Program!Used \subseteq 1..Count
        /\ Program!Ports \subseteq Program!WaitMask /\ Program!Timer \in Program!WaitMask
        /\ Program!CtrlC \in Program!WaitMask
    BY Signals
  <1>1. CASE Program!Queue
    <2>1. PICK k \in 0..Program!Cardinality(Program!Used) :
             /\ sent' = 1..k /\ expected' = 1..k
             /\ Program!AllQueued(k) \/ Program!QueuedInPart(k)
      BY <1>1 DEF Program!Queue
    <2>2. sent' \subseteq Program!Used /\ expected' \subseteq Program!Used
      <3>1. 1..k \subseteq Program!Used
        BY CountUsed
      <3>2. QED
        BY <2>1, <3>1
    <2>3. /\ place' \in {"cancel", "enter", "leave"} /\ status' \in Statuses
      BY <1>a, <2>1 DEF Program!AllQueued, Program!QueuedInPart, Program!TypeOK, Statuses
    <2>4. seen = {}
      BY <1>1, <1>a DEF Program!Queue, SentInv, Program!TypeOK
    <2>5. QED
      BY <1>1, <1>a, <2>2, <2>3, <2>4
         DEF Program!Queue, Program!TypeOK, Program!env, Program!helper, Statuses,
             Program!Used, Program!Ports, Program!WaitMask
  <1>2. ASSUME NEW r \in Program!Used, port' = [port EXCEPT ![Program!PortOf(r)] = Append(@, r)]
        PROVE  port' \in [1..Count -> Seq(Program!Used)]
    BY <1>2, <1>a, PortOfFacts DEF Program!TypeOK
  <1>3. CASE Program!Cancel
    <2>1. CASE Program!Cancelled \in sent
      <3>1. Program!Cancelled \in Program!Used /\ Program!PortOf(Program!Cancelled) = 1
        BY <1>3, <1>a, <2>1 DEF Program!TypeOK, Program!PortOf, Program!Cancel, PlaceInv
      <3>2. port' \in [1..Count -> Seq(Program!Used)]
        BY <1>2, <1>3, <2>1, <3>1 DEF Program!Cancel
      <3>3. QED
        BY <1>3, <1>a, <1>b, <2>1, <3>2
           DEF Program!Cancel, Program!TypeOK, Program!env, Program!helper, Program!Used,
               Program!Ports, Program!WaitMask
    <2>2. CASE Program!Cancelled \notin sent
      BY <1>3, <1>a, <2>2
         DEF Program!Cancel, Program!TypeOK, Program!env, Program!helper, Program!Used,
             Program!Ports, Program!WaitMask
    <2>3. QED
      BY <2>1, <2>2
  <1>4. CASE Program!Handle
    <2>1. Program!Arrived \subseteq expected /\ Program!Arrived \subseteq Program!Used
      BY <1>a, <1>b DEF Program!Arrived, SentInv, Program!TypeOK
    <2>2. seen' \subseteq expected
      BY <1>4, <1>a, <2>1 DEF Program!Handle, Program!TypeOK
    <2>3. place' \in {"enter", "leave"} /\ status' \in Statuses
      BY <1>4, <1>a DEF Program!Handle, Program!TypeOK, Statuses
    <2>4. QED
      BY <1>4, <1>a, <2>2, <2>3
         DEF Program!Handle, Program!TypeOK, Program!env, Statuses, Program!Used,
             Program!Ports, Program!WaitMask
  <1>5. CASE Program!Leave \/ Program!Close
    <2>0. [p \in 1..Count |-> <<>>] \in [1..Count -> Seq(Program!Used)]
      OBVIOUS
    <2>1. /\ port' \in [1..Count -> Seq(Program!Used)]
          /\ signals' \subseteq Program!WaitMask
          /\ sent' \subseteq Program!Used /\ place' \in {"close", "closed"}
      <3>1. CASE Program!Leave
        BY <1>a, <2>0, <3>1 DEF Program!Leave, Program!TypeOK
      <3>2. CASE Program!Close
        BY <1>a, <3>2 DEF Program!Close, Program!TypeOK
      <3>3. QED
        BY <1>5, <3>1, <3>2
    <2>2. UNCHANGED <<Program!env, Program!helper, Program!prog, status, stray>>
      BY <1>5 DEF Program!Leave, Program!Close
    <2>3. QED
      BY <1>a, <2>1, <2>2
         DEF Program!TypeOK, Program!env, Program!helper, Program!prog, Program!Used,
             Program!Ports, Program!WaitMask
  <1>6. CASE Program!Again
    <2>1. round' \in 1..MaxRounds
      BY <1>6, <1>a, Limits DEF Program!Again, Program!TypeOK
    <2>2. QED
      BY <1>6, <1>a, <2>1
         DEF Program!Again, Program!TypeOK, Program!env, Program!Used, Program!Ports,
             Program!WaitMask
  <1>7. CASE Program!Enter
    BY <1>7, <1>a, <1>b
       DEF Program!Enter, Program!TypeOK, Program!env, Program!prog, Program!Used,
           Program!Ports, Program!WaitMask
  <1>8. CASE Program!Drain
    <2>1. got' \subseteq Program!Used
      <3>1. port[at] \in Seq(Program!Used) /\ got \subseteq Program!Used
        BY <1>a, <1>b DEF Program!TypeOK
      <3>2. Program!ToSet(port[at]) \subseteq Program!Used
        BY <3>1 DEF Program!ToSet
      <3>3. QED
        BY <1>8, <3>1, <3>2 DEF Program!Drain
    <2>2. port' \in [1..Count -> Seq(Program!Used)]
      <3>1. <<>> \in Seq(Program!Used)
        OBVIOUS
      <3>2. QED
        BY <1>8, <1>a, <3>1 DEF Program!Drain, Program!TypeOK
    <2>3. at' \in Program!Ports /\ place' \in {"drain", "decide"}
      BY <1>8, <1>b DEF Program!Drain
    <2>4. QED
      BY <1>8, <1>a, <2>1, <2>2, <2>3
         DEF Program!Drain, Program!TypeOK, Program!env, Program!prog, Program!Used,
             Program!Ports, Program!WaitMask
  <1>9. CASE Program!Start
    BY <1>9, <1>a
       DEF Program!Start, Program!TimerSent, Program!SignalsKept, Program!TypeOK,
           Program!env, Program!prog, Program!Used, Program!Ports, Program!WaitMask
  <1>10. CASE Program!Block
    BY <1>10, <1>a
       DEF Program!Block, Program!TypeOK, Program!env, Program!prog, Program!Used,
           Program!Ports, Program!WaitMask
  <1>11. CASE Program!Decide
    <2>1. place' \in {"handle", "finish"} /\ status' \in Statuses
      BY <1>11, <1>a DEF Program!Decide, Program!TypeOK, Statuses
    <2>2. QED
      BY <1>11, <1>a, <2>1
         DEF Program!Decide, Program!TypeOK, Program!env, Program!prog, Statuses,
             Program!Used, Program!Ports, Program!WaitMask
  <1>12. CASE Program!KeepWaiting
    BY <1>12, <1>a
       DEF Program!KeepWaiting, Program!TypeOK, Program!env, Program!prog, Program!helper,
           Program!Used, Program!Ports, Program!WaitMask
  <1>13. CASE Program!Finish
    BY <1>13, <1>a, <1>b
       DEF Program!Finish, Program!TypeOK, Program!env, Program!prog, Program!Used,
           Program!Ports, Program!WaitMask
  <1>14. CASE Program!Expire \/ Program!Break
    BY ZenonT(30), <1>14, <1>a, <1>b
       DEF Program!Expire, Program!Break, Program!TypeOK, Program!env, Program!prog,
           Program!helper, Program!Used, Program!Ports, Program!WaitMask
  <1>15. ASSUME NEW r \in 1..Count, Program!Complete(r) PROVE Program!TypeOK'
    <2>1. r \in Program!Used /\ Program!PortOf(r) \in Program!WaitMask
      BY <1>15, <1>a, <1>b, PortOfFacts DEF Program!Complete, Program!TypeOK
    <2>2. CASE Program!HasPorts
      <3>1. port' \in [1..Count -> Seq(Program!Used)]
        BY <1>2, <1>15, <2>1, <2>2 DEF Program!Complete
      <3>2. QED
        BY ZenonT(30), <1>15, <1>a, <2>1, <2>2, <3>1
           DEF Program!Complete, Program!TypeOK, Program!env, Program!prog, Program!helper,
               Program!Used, Program!Ports, Program!WaitMask
    <2>3. CASE ~Program!HasPorts
      BY ZenonT(30), <1>15, <1>a, <2>1, <2>3
         DEF Program!Complete, Program!TypeOK, Program!env, Program!prog, Program!helper,
             Program!Used, Program!Ports, Program!WaitMask
    <2>4. QED
      BY <2>2, <2>3
  <1>16. CASE UNCHANGED Program!vars
    BY <1>16, <1>a
       DEF Program!vars, Program!TypeOK, Program!Used, Program!Ports, Program!WaitMask
  <1>17. QED
    BY <1>1, <1>3, <1>4, <1>5, <1>6, <1>7, <1>8, <1>9, <1>10, <1>11, <1>12, <1>13,
       <1>14, <1>15, <1>16 DEF Program!Next, Program!Step

---------------------------------------------------------------------------
\* Phases.

LEMMA PlaceStep ==
    ASSUME Program!EventWaitAssumption, ProgramInv, [Program!Next]_Program!vars
    PROVE  PlaceInv'
  <1>a. Program!TypeOK /\ PlaceInv /\ SignalInv /\ SentInv
    BY DEF ProgramInv
  <1>u. UNCHANGED tool => Program!Used' = Program!Used
    BY DEF Program!Used
  <1> USE DEF InWait, Reporting, Gone
  <1>1. CASE Program!Queue
    <2>1. PICK k \in 0..Program!Cardinality(Program!Used) :
             /\ sent' = 1..k /\ expected' = 1..k
             /\ Program!AllQueued(k) \/ Program!QueuedInPart(k)
      BY <1>1 DEF Program!Queue
    <2>2. UNCHANGED <<Program!env, port, at, woken, got>> /\ place = "queue"
      BY <1>1 DEF Program!Queue, Program!helper
    <2>3. CASE Program!AllQueued(k)
      <3>1. expected' = Program!Used
        BY <2>1, <2>3, CountUsed DEF Program!AllQueued
      <3>2. QED
        BY <1>a, <1>u, <2>2, <2>3, <3>1 DEF Program!AllQueued, PlaceInv, Program!env
    <2>4. CASE Program!QueuedInPart(k)
      BY <1>a, <1>u, <2>2, <2>4 DEF Program!QueuedInPart, PlaceInv, Program!env
    <2>5. QED
      BY <2>1, <2>3, <2>4
  <1>2. CASE Program!Cancel
    BY <1>2, <1>a, <1>u DEF Program!Cancel, PlaceInv, Program!env, Program!helper
  <1>3. CASE Program!Handle
    <2>1. /\ place = "handle" /\ place' \in {"enter", "leave"} /\ got' = {} /\ woken' = {}
          /\ UNCHANGED <<tool, at, expected>>
          /\ status' \in {status, "OK"}
          /\ place' = "enter" => status' \in {"OK", "QUEUE_FAILED"}
          /\ status' # status => tool = "callback"
      BY <1>3 DEF Program!Handle, Program!env
    <2>2. QED
      BY <1>a, <1>u, <2>1 DEF PlaceInv
  <1>4. CASE Program!Leave \/ Program!Close
    <2>1. /\ place \in Gone /\ place' \in {"close", "closed"}
          /\ UNCHANGED <<tool, at, woken, got, expected, status>>
          /\ port' = port \/ port' = [p \in 1..Count |-> <<>>]
          /\ place = "close" => port' = port
          /\ place = "leave" => port' = [p \in 1..Count |-> <<>>]
      BY <1>4 DEF Program!Leave, Program!Close, Program!env, Program!helper, Program!prog
    <2>2. \A p \in 1..Count : port'[p] = <<>>
      BY <1>a, <2>1 DEF PlaceInv
    <2>3. QED
      BY <1>a, <1>u, <2>1, <2>2 DEF PlaceInv
  <1>5. CASE Program!Again
    BY <1>5, <1>a, <1>u DEF Program!Again, PlaceInv, Program!env
  <1>6. CASE Program!Enter
    <2>1. /\ place = "enter" /\ place' = IF tool = "callback" THEN "start" ELSE "drain"
          /\ at' = 1 /\ got' = {} /\ woken' = {} /\ UNCHANGED <<tool, expected, status>>
      BY <1>6 DEF Program!Enter, Program!env, Program!prog
    <2>2. QED
      BY <1>a, <1>u, <2>1 DEF PlaceInv
  <1>7. CASE Program!Drain
    BY <1>7, <1>a, <1>u DEF Program!Drain, PlaceInv, Program!env, Program!prog
  <1>8. CASE Program!Start
    BY <1>8, <1>a, <1>u DEF Program!Start, PlaceInv, Program!env, Program!prog
  <1>9. CASE Program!Block
    BY <1>9, <1>a, <1>u DEF Program!Block, PlaceInv, Program!env, Program!prog
  <1>10. CASE Program!Decide
    <2>1. /\ place = "decide" /\ place' \in {"handle", "finish"}
          /\ UNCHANGED <<tool, at, expected>>
          /\ \/ status' = IF status = "QUEUE_FAILED" THEN status ELSE "OK"
             \/ status' \in {"CANCELLED", "TIMEOUT"}
      BY <1>10 DEF Program!Decide, Program!env, Program!prog
    <2>2. QED
      BY <1>a, <1>u, <2>1 DEF PlaceInv
  <1>11. CASE Program!KeepWaiting
    BY <1>11, <1>a, <1>u
       DEF Program!KeepWaiting, PlaceInv, Program!env, Program!prog, Program!helper
  <1>12. CASE Program!Finish
    BY <1>12, <1>a, <1>u DEF Program!Finish, PlaceInv, Program!env, Program!prog
  <1>13. CASE Program!Expire \/ Program!Break
    BY <1>13, <1>a, <1>u
       DEF Program!Expire, Program!Break, PlaceInv, Program!env, Program!prog,
           Program!helper
  <1>14. ASSUME NEW r \in 1..Count, Program!Complete(r) PROVE PlaceInv'
    <2>1. UNCHANGED <<tool, place, at, woken, got, expected, status>>
      BY <1>14 DEF Program!Complete, Program!env, Program!prog, Program!helper
    <2>2. r \in sent
      BY <1>14 DEF Program!Complete
    <2>3. place \in {"queue", "close", "closed"} => UNCHANGED port
      BY <1>14, <1>a, <2>2 DEF Program!Complete, Program!HasPorts, SentInv
    <2>4. QED
      BY <1>a, <1>u, <2>1, <2>3 DEF PlaceInv
  <1>15. CASE UNCHANGED Program!vars
    BY <1>15, <1>a, <1>u DEF Program!vars, PlaceInv
  <1>16. QED
    BY <1>1, <1>2, <1>3, <1>4, <1>5, <1>6, <1>7, <1>8, <1>9, <1>10, <1>11, <1>12,
       <1>13, <1>14, <1>15 DEF Program!Next, Program!Step

---------------------------------------------------------------------------
\* Signals.

\* A step that leaves ports and drain alone and sets signals at most.
LEMMA MoreSignals ==
    ASSUME Program!TypeOK, SignalInv, UNCHANGED <<tool, port, at, woken, status>>,
           place' = place, signals \subseteq signals', 1 \in signals' => 1 \in signals
    PROVE  SignalInv'
  BY DEF SignalInv, Program!Ports, Reporting

\* The wait of a program with ports.
LEMMA PortSignalStep ==
    ASSUME Program!EventWaitAssumption, ProgramInv, Program!Step, tool # "callback"
    PROVE  SignalInv'
  <1>a. /\ Program!TypeOK /\ PlaceInv
        /\ \A p \in Program!Ports : port[p] # <<>> => p \in signals \/ (place = "drain" /\ p >= at)
    BY DEF ProgramInv, SignalInv
  <1>b. /\ Program!Ports \subseteq 1..Count /\ 1 \in Program!Ports
        /\ Program!Used \subseteq 1..Count
        /\ Program!Timer \notin Program!Ports /\ Program!CtrlC \notin Program!Ports
    BY Signals
  <1>c. tool' = tool
    BY DEF Program!Step, Program!Queue, Program!Cancel, Program!Enter, Program!Drain,
           Program!Start, Program!Block, Program!Decide, Program!KeepWaiting,
           Program!Finish,
           Program!Handle, Program!Leave, Program!Close, Program!Again, Program!env
  <1>1. SUFFICES ASSUME NEW p \in Program!Ports, port'[p] # <<>>
                 PROVE  p \in signals' \/ (place' = "drain" /\ p >= at')
    BY <1>c DEF SignalInv, Program!Ports
  <1>2. CASE \/ Program!Queue \/ Program!Enter \/ Program!Decide
             \/ Program!KeepWaiting \/ Program!Handle \/ Program!Start
    <2>1. signals' = signals /\ port' = port /\ place # "drain"
      BY <1>2
         DEF Program!Queue, Program!Enter, Program!Decide, Program!KeepWaiting,
             Program!Handle, Program!Start, Program!SignalsKept, Program!helper
    <2>2. QED
      BY <1>1, <1>a, <2>1
  <1>3. CASE Program!Cancel
    <2>1. place = "cancel" /\ signals \subseteq signals' /\ (p # 1 => port'[p] = port[p])
          /\ (1 \in signals' \/ port' = port)
      BY <1>3, <1>a, <1>b DEF Program!Cancel, Program!TypeOK
    <2>2. QED
      BY <1>1, <1>a, <2>1
  <1>4. CASE Program!Leave
    BY <1>1, <1>4, <1>b DEF Program!Leave
  <1>5. CASE Program!Close \/ Program!Again
    <2>1. signals' = signals /\ port' = port /\ place # "drain"
      BY <1>5 DEF Program!Close, Program!Again
    <2>2. QED
      BY <1>1, <1>a, <2>1
  <1>6. CASE Program!Drain
    <2>1. /\ place = "drain" /\ signals' = signals /\ port' = [port EXCEPT ![at] = <<>>]
          /\ at \in Program!Ports /\ at \in Nat /\ p \in Nat
      BY <1>6, <1>a, <1>b DEF Program!Drain, Program!TypeOK
    <2>2. p # at /\ port[p] # <<>>
      BY <1>1, <1>a, <1>b, <2>1 DEF Program!TypeOK
    <2>3. CASE p \in signals
      BY <2>1, <2>3
    <2>4. CASE p \notin signals
      <3>1. p > at
        BY <1>a, <2>1, <2>2, <2>4
      <3>2. at + 1 \in Program!Ports
        <4>1. Program!Ports = {1} \/ Program!Ports = 1..Count
          BY DEF Program!Ports
        <4>2. QED
          BY <2>1, <3>1, <4>1, Limits
      <3>3. place' = "drain" /\ at' = at + 1
        BY <1>6, <2>1, <3>2 DEF Program!Drain
      <3>4. QED
        BY <2>1, <3>1, <3>3
    <2>5. QED
      BY <2>3, <2>4
  <1>7. CASE Program!Block
    <2>1. place' = "drain" /\ at' = at /\ place = "block"
      BY <1>7 DEF Program!Block
    <2>2. at = 1 /\ p >= 1
      BY <1>a, <1>b, <2>1 DEF PlaceInv
    <2>3. QED
      BY <2>1, <2>2
  <1>8. CASE Program!Finish
    <2>1. signals \subseteq signals' /\ port' = port /\ place # "drain"
      BY <1>8 DEF Program!Finish
    <2>2. QED
      BY <1>1, <1>a, <2>1
  <1>9. QED
    BY <1>2, <1>3, <1>4, <1>5, <1>6, <1>7, <1>8 DEF Program!Step

\* A callback that ran is reported by the wait it wakes, and nothing is waited
\* for after that.
LEMMA CallbackEnds ==
    ASSUME Program!EventWaitAssumption, ProgramInv, Program!Handle, tool = "callback"
    PROVE  place' = "leave"
  <1>a. Program!TypeOK /\ PlaceInv /\ SignalInv /\ SentInv
    BY DEF ProgramInv
  <1>1. /\ place = "handle" /\ Program!Arrived = Program!ToSet(port[1])
        /\ expected = Program!Used /\ Program!Used = {1}
        /\ status \in {"OK", "TIMEOUT", "CANCELLED"}
    BY <1>a, Signals
       DEF Program!Handle, Program!Arrived, PlaceInv, Program!TypeOK, Reporting, Gone
  <1>2. /\ port[1] \in Seq(Program!Used) /\ 1 \in Program!Used
    BY <1>a, <1>1, Signals DEF Program!TypeOK
  <1>3. Program!Arrived \subseteq {1} /\ (port[1] # <<>> => Program!Arrived # {})
    BY <1>1, <1>2, ToSetFacts
  <1>4. CASE Program!Arrived = {}
    <2>1. status # "OK"
      BY <1>1, <1>3, <1>4, <1>a DEF SignalInv, Reporting
    <2>2. QED
      BY <1>1, <1>4, <2>1 DEF Program!Handle
  <1>5. CASE Program!Arrived # {}
    <2>1. CASE status' \notin {"OK", "QUEUE_FAILED"}
      BY <2>1 DEF Program!Handle
    <2>2. CASE status' \in {"OK", "QUEUE_FAILED"}
      <3>1. Program!Arrived = {1}
        BY <1>3, <1>5
      <3>2. seen \subseteq {1}
        BY <1>1, <1>a DEF Program!TypeOK
      <3>3. seen' = {1}
        BY <2>2, <3>1, <3>2 DEF Program!Handle
      <3>4. Program!AllSeen
        BY <1>1, <3>3 DEF Program!AllSeen
      <3>5. QED
        BY <3>4 DEF Program!Handle
    <2>3. QED
      BY <2>1, <2>2
  <1>6. QED
    BY <1>4, <1>5

LEMMA CallbackSignalStep ==
    ASSUME Program!EventWaitAssumption, ProgramInv, Program!Step, tool = "callback"
    PROVE  SignalInv'
  <1>a. /\ Program!TypeOK /\ PlaceInv
        /\ 1 \in signals \cup woken => port[1] # <<>>
        /\ port[1] # <<>> => \/ 1 \in signals
                             \/ place = "decide" /\ 1 \in woken
                             \/ place \in {"finish", "handle", "leave"}
        /\ place \in Reporting /\ status = "OK" => port[1] # <<>>
    BY DEF ProgramInv, SignalInv
  <1>b. 1 \in 1..Count /\ Program!Timer # 1 /\ Program!CtrlC # 1 /\ 1 \in Program!WaitMask
    BY Signals
  <1>c. tool' = tool
    BY DEF Program!Step, Program!Queue, Program!Cancel, Program!Enter, Program!Drain,
           Program!Start, Program!Block, Program!Decide, Program!KeepWaiting,
           Program!Finish,
           Program!Handle, Program!Leave, Program!Close, Program!Again, Program!env
  <1> USE DEF Reporting
  <1>1. CASE Program!Queue
    <2>1. /\ place = "queue" /\ UNCHANGED <<port, signals, woken>>
          /\ place' \in {"cancel", "enter", "leave"}
      BY <1>1 DEF Program!Queue, Program!helper, Program!AllQueued, Program!QueuedInPart
    <2>2. QED
      BY <1>a, <1>c, <2>1 DEF SignalInv
  <1>2. CASE Program!Enter \/ Program!Start
    <2>1. /\ UNCHANGED <<port, signals>> /\ woken' = {} /\ place' \notin Reporting
          /\ place \notin {"finish", "handle", "leave"} /\ (place = "decide" => woken = {})
      BY <1>2, <1>a DEF Program!Enter, Program!Start, Program!SignalsKept, PlaceInv
    <2>2. QED
      BY <1>a, <1>c, <2>1 DEF SignalInv
  <1>3. CASE Program!Block
    <2>1. /\ place = "block" /\ place' = "decide" /\ port' = port
          /\ woken' = signals \cap Program!WaitMask /\ signals' = signals \ Program!WaitMask
      BY <1>3 DEF Program!Block
    <2>2. QED
      BY <1>a, <1>b, <1>c, <2>1 DEF SignalInv
  <1>4. CASE Program!Decide
    <2>1. /\ place = "decide" /\ place' \in Reporting /\ UNCHANGED <<port, signals, woken>>
          /\ status' = "OK" => 1 \in woken \/ status = "OK"
      BY <1>4 DEF Program!Decide, Program!Answered
    <2>2. status' = "OK" => 1 \in woken
      BY <1>4 DEF Program!Decide, Program!Answered
    <2>3. QED
      BY <1>a, <1>c, <2>1, <2>2 DEF SignalInv
  <1>5. CASE Program!KeepWaiting
    <2>1. /\ place' = "block" /\ UNCHANGED <<port, signals, woken>> /\ 1 \notin woken
          /\ place = "decide"
      BY <1>5 DEF Program!KeepWaiting, Program!Answered, Program!helper
    <2>2. QED
      BY <1>a, <1>c, <2>1 DEF SignalInv
  <1>6. CASE Program!Finish
    <2>1. /\ place = "finish" /\ place' = "handle" /\ UNCHANGED <<port, woken, status>>
          /\ signals \subseteq signals' /\ (1 \in signals' => 1 \in signals)
      BY <1>6, <1>b DEF Program!Finish
    <2>2. QED
      BY <1>a, <1>c, <2>1 DEF SignalInv
  <1>7. CASE Program!Handle
    <2>1. place' = "leave" /\ UNCHANGED <<port, signals>> /\ woken' = {}
      BY <1>7, CallbackEnds DEF Program!Handle
    <2>2. QED
      BY <1>a, <1>c, <2>1 DEF SignalInv
  <1>8. CASE Program!Leave
    <2>1. /\ port'[1] = <<>> /\ 1 \notin signals' /\ woken' = woken /\ place' = "close"
          /\ woken = {}
      BY <1>8, <1>a, <1>b DEF Program!Leave, Program!helper, PlaceInv
    <2>2. QED
      BY <1>c, <2>1 DEF SignalInv
  <1>9. CASE Program!Close \/ Program!Again
    <2>1. /\ UNCHANGED <<port, signals, woken>> /\ place \in {"close", "closed"}
          /\ place' \in {"queue", "closed"}
      BY <1>9 DEF Program!Close, Program!Again, Program!helper
    <2>2. QED
      BY <1>a, <1>c, <2>1 DEF SignalInv
  <1>10. CASE Program!Cancel \/ Program!Drain
    BY <1>10, <1>a DEF Program!Cancel, Program!Drain, PlaceInv
  <1>11. QED
    BY <1>1, <1>2, <1>3, <1>4, <1>5, <1>6, <1>7, <1>8, <1>9, <1>10 DEF Program!Step

LEMMA SignalStep ==
    ASSUME Program!EventWaitAssumption, ProgramInv, [Program!Next]_Program!vars
    PROVE  SignalInv'
  <1>a. Program!TypeOK /\ PlaceInv /\ SignalInv /\ SentInv
    BY DEF ProgramInv
  <1>1. CASE Program!Step
    BY <1>1, PortSignalStep, CallbackSignalStep
  <1>2. CASE Program!Expire \/ Program!Break
    <2>1. 1 # Program!Timer /\ 1 # Program!CtrlC
      BY Signals
    <2>2. /\ UNCHANGED <<tool, port, at, woken, status, place>>
          /\ signals \subseteq signals' /\ (1 \in signals' => 1 \in signals)
      BY <1>2, <2>1 DEF Program!Expire, Program!Break, Program!env, Program!helper
    <2>3. QED
      BY <1>a, <2>2, MoreSignals
  <1>3. ASSUME NEW r \in 1..Count, Program!Complete(r) PROVE SignalInv'
    <2>1. UNCHANGED <<tool, at, woken, status, place>>
      BY <1>3 DEF Program!Complete, Program!env, Program!helper
    <2>2. CASE Program!HasPorts
      <3> DEFINE q == Program!PortOf(r)
      <3>1. r \in Program!Used /\ q \in Program!Ports /\ q \in 1..Count
        BY <1>3, <1>a, PortOfFacts DEF Program!Complete, Program!TypeOK
      <3>2. /\ port' = [port EXCEPT ![q] = Append(@, r)]
            /\ signals' = signals \cup {q}
        BY <1>3, <2>2 DEF Program!Complete
      <3>3. port'[q] # <<>>
        <4>1. port[q] \in Seq(Program!Used)
          BY <1>a, <3>1 DEF Program!TypeOK
        <4>2. Append(port[q], r) # <<>>
          BY <3>1, <4>1, ToSetFacts
        <4>3. QED
          BY <1>a, <3>1, <3>2, <4>2 DEF Program!TypeOK
      <3> HIDE DEF q
      <3>4. \A p \in Program!Ports : p = q \/ port'[p] = port[p]
        BY <1>a, <3>1, <3>2, Signals DEF Program!TypeOK
      <3>5. CASE tool # "callback"
        BY <1>a, <2>1, <3>2, <3>4, <3>5 DEF SignalInv, Program!Ports
      <3>6. CASE tool = "callback"
        <4>1. q = 1
          BY <3>1, <3>6, Signals
        <4>2. QED
          BY <1>a, <2>1, <3>2, <3>3, <3>6, <4>1 DEF SignalInv
      <3>7. QED
        BY <3>5, <3>6
    <2>3. CASE ~Program!HasPorts
      BY <1>3, <1>a, <2>1, <2>3, MoreSignals DEF Program!Complete
    <2>4. QED
      BY <2>2, <2>3
  <1>4. CASE UNCHANGED Program!vars
    BY <1>4, <1>a, MoreSignals DEF Program!vars
  <1>5. QED
    BY <1>1, <1>2, <1>3, <1>4 DEF Program!Next

---------------------------------------------------------------------------
\* Requests.

\* A program that has left well has seen everything, so nothing is pending.
LEMMA NothingPending ==
    ASSUME Program!TypeOK, PlaceInv, SentInv, place \in Gone, status = "OK"
    PROVE  sent = {} /\ seen = Program!Used /\ stray = {}
  BY DEF Program!TypeOK, PlaceInv, SentInv, Gone

LEMMA SentStep ==
    ASSUME Program!EventWaitAssumption, ProgramInv, [Program!Next]_Program!vars
    PROVE  SentInv'
  <1>a. Program!TypeOK /\ PlaceInv /\ SentInv
    BY DEF ProgramInv
  <1>b. Program!Ports \subseteq 1..Count /\ 1 \in 1..Count /\ Program!Used \subseteq 1..Count
    BY Signals
  <1>u. tool' = tool => Program!Used' = Program!Used
    BY DEF Program!Used
  <1>0. \A p \in 1..Count : port[p] \in Seq(Program!Used)
    BY <1>a DEF Program!TypeOK
  <1> USE DEF Gone
  <1>1. CASE Program!Queue
    <2>1. /\ place = "queue" /\ place' \in {"cancel", "enter", "leave"}
          /\ place' = "leave" => status' = "QUEUE_FAILED"
          /\ UNCHANGED <<port, got, seen, stray>> /\ sent' = expected'
      BY <1>1 DEF Program!Queue, Program!helper, Program!AllQueued, Program!QueuedInPart
    <2>2. /\ got = {} /\ seen = {} /\ stray = {}
          /\ \A p \in 1..Count : Program!ToSet(port[p]) = {}
      BY <1>a, <2>1, ToSetFacts DEF PlaceInv, SentInv, Program!TypeOK, Program!ToSet
    <2>3. QED
      BY <2>1, <2>2 DEF SentInv
  <1>2. ASSUME NEW r \in Program!Used, NEW q \in 1..Count, r \in sent,
               port' = [port EXCEPT ![q] = Append(@, r)], sent' = sent \ {r}
        PROVE  \A p \in 1..Count : /\ Program!ToSet(port'[p]) \subseteq Program!ToSet(port[p]) \cup {r}
                                   /\ sent' \cap Program!ToSet(port'[p]) = {}
    <2>1. SUFFICES ASSUME NEW p \in 1..Count
                   PROVE  Program!ToSet(port'[p]) \subseteq Program!ToSet(port[p]) \cup {r}
      BY <1>2, <1>a DEF SentInv
    <2>2. CASE p = q
      <3>1. port'[p] = Append(port[p], r)
        BY <1>2, <1>a, <2>2 DEF Program!TypeOK
      <3>2. QED
        BY <1>0, <3>1, ToSetFacts
    <2>3. CASE p # q
      BY <1>2, <1>a, <2>3 DEF Program!TypeOK
    <2>4. QED
      BY <2>2, <2>3
  <1>3. CASE Program!Cancel
    <2>1. /\ place = "cancel" /\ place' = "enter" /\ sent' = sent \ {Program!Cancelled}
          /\ UNCHANGED <<got, seen, expected, stray>>
      BY <1>3 DEF Program!Cancel, Program!helper
    <2>2. CASE Program!Cancelled \in sent
      <3>1. Program!Cancelled \in Program!Used /\ Program!Cancelled \in expected
        BY <1>a, <2>2 DEF Program!TypeOK, SentInv
      <3>2. port' = [port EXCEPT ![1] = Append(@, Program!Cancelled)]
        BY <1>3, <2>2 DEF Program!Cancel
      <3>3. \A p \in 1..Count : /\ Program!ToSet(port'[p]) \subseteq Program!ToSet(port[p]) \cup {Program!Cancelled}
                                /\ sent' \cap Program!ToSet(port'[p]) = {}
        BY <1>2, <1>b, <2>1, <2>2, <3>1, <3>2
      <3>4. QED
        BY <1>a, <2>1, <3>1, <3>3 DEF SentInv
    <2>3. CASE Program!Cancelled \notin sent
      BY <1>3, <1>a, <2>1, <2>3 DEF Program!Cancel, SentInv
    <2>4. QED
      BY <2>2, <2>3
  <1>4. CASE Program!Handle
    <2>1. /\ place = "handle" /\ place' \in {"enter", "leave"} /\ got' = {}
          /\ UNCHANGED <<tool, sent, port, expected, stray>>
      BY <1>4 DEF Program!Handle, Program!env
    <2>2. Program!Arrived \subseteq expected /\ sent \cap Program!Arrived = {}
      BY <1>a, <1>b DEF Program!Arrived, SentInv
    <2>3. seen' \subseteq expected /\ sent \cap seen' = {}
      BY <1>4, <1>a, <2>2 DEF Program!Handle, Program!TypeOK, SentInv
    <2>4. ASSUME place' = "leave", status' = "OK" PROVE seen' = Program!Used
      <3>1. Program!AllSeen
        BY <1>4, <2>4 DEF Program!Handle
      <3>2. expected = Program!Used
        BY <1>4, <1>a, <2>1, <2>4 DEF Program!Handle, PlaceInv, Reporting
      <3>3. seen' = expected
        <4>1. IsFiniteSet(expected)
          BY <3>2, CountUsed
        <4>2. Program!Cardinality(seen') = Program!Cardinality(expected)
          BY <3>1 DEF Program!AllSeen
        <4>3. QED
          BY <2>3, <4>1, <4>2, FS_Subset, SameCardinality
      <3>4. QED
        BY <3>2, <3>3
    <2>5. stray = {}
      BY <1>a, <2>1 DEF SentInv
    <2>6. QED
      BY <1>a, <1>u, <2>1, <2>3, <2>4, <2>5 DEF SentInv
  <1>5. CASE Program!Leave
    <2>1. /\ place = "leave" /\ place' = "close" /\ port' = [p \in 1..Count |-> <<>>]
          /\ UNCHANGED <<tool, sent, got, seen, expected, status, stray>>
      BY <1>5 DEF Program!Leave, Program!env, Program!helper, Program!prog
    <2>2. \A p \in 1..Count : Program!ToSet(port'[p]) = {}
      BY <2>1 DEF Program!ToSet
    <2>3. QED
      BY <1>a, <1>u, <2>1, <2>2 DEF SentInv
  <1>6. CASE Program!Close
    BY <1>6, <1>a, <1>u
       DEF Program!Close, Program!env, Program!helper, Program!prog, SentInv
  <1>7. CASE Program!Again
    <2>1. /\ place \in {"close", "closed"} /\ status = "OK" /\ place' = "queue"
          /\ seen' = {} /\ expected' = {} /\ UNCHANGED <<sent, port, got, stray>>
      BY <1>7 DEF Program!Again
    <2>2. sent = {} /\ stray = {} /\ got = {}
      BY <1>a, <2>1, NothingPending DEF PlaceInv
    <2>3. \A p \in 1..Count : Program!ToSet(port[p]) = {}
      BY <1>a, <2>1 DEF PlaceInv, Program!ToSet
    <2>4. QED
      BY <2>1, <2>2, <2>3 DEF SentInv
  <1>8. CASE Program!Drain
    <2>1. /\ place = "drain" /\ place' \in {"drain", "decide"}
          /\ got' = got \cup Program!ToSet(port[at])
          /\ port' = [port EXCEPT ![at] = <<>>]
          /\ UNCHANGED <<sent, seen, expected, stray>> /\ at \in 1..Count
      BY <1>8, <1>a, <1>b DEF Program!Drain, Program!prog, Program!TypeOK
    <2>2. Program!ToSet(<<>>) = {}
      BY DEF Program!ToSet
    <2>3. \A p \in 1..Count : Program!ToSet(port'[p]) \subseteq Program!ToSet(port[p])
      BY <1>a, <2>1, <2>2 DEF Program!TypeOK
    <2>4. QED
      BY <1>a, <2>1, <2>3 DEF SentInv
  <1>9. CASE \/ Program!Enter \/ Program!Start \/ Program!Block
             \/ Program!Decide \/ Program!KeepWaiting \/ Program!Finish
    <2>1. /\ place \notin {"queue", "close", "closed"} /\ place' \notin {"queue"} \cup Gone
          /\ got' \in {got, {}} /\ UNCHANGED <<sent, port, seen, expected, stray>>
      BY <1>9
         DEF Program!Enter, Program!Start, Program!Block, Program!Decide,
             Program!KeepWaiting, Program!Finish, Program!prog, Program!helper
    <2>2. QED
      BY <1>a, <2>1 DEF SentInv
  <1>10. CASE Program!Expire \/ Program!Break
    BY <1>10, <1>a, <1>u
       DEF Program!Expire, Program!Break, Program!env, Program!prog, Program!helper,
           SentInv
  <1>11. ASSUME NEW r \in 1..Count, Program!Complete(r) PROVE SentInv'
    <2>1. /\ r \in sent /\ sent' = sent \ {r}
          /\ UNCHANGED <<tool, place, got, seen, expected, status>>
      BY <1>11 DEF Program!Complete, Program!env, Program!prog, Program!helper
    <2>2. r \in Program!Used /\ r \in expected /\ place # "queue"
      BY <1>a, <2>1 DEF Program!TypeOK, SentInv
    <2>3. CASE Program!HasPorts
      <3>1. port' = [port EXCEPT ![Program!PortOf(r)] = Append(@, r)] /\ stray' = stray
        BY <1>11, <2>3 DEF Program!Complete
      <3>2. \A p \in 1..Count : /\ Program!ToSet(port'[p]) \subseteq Program!ToSet(port[p]) \cup {r}
                                /\ sent' \cap Program!ToSet(port'[p]) = {}
        BY <1>2, <2>1, <2>2, <3>1, PortOfFacts
      <3>3. QED
        BY <1>a, <1>u, <2>1, <2>2, <3>1, <3>2 DEF SentInv
    <2>4. CASE ~Program!HasPorts
      <3>1. port' = port /\ stray' = stray \cup {r} /\ place \in {"close", "closed"}
        BY <1>11, <2>4 DEF Program!Complete, Program!HasPorts
      <3>2. status # "OK"
        BY <1>a, <2>1, <3>1, NothingPending
      <3>3. QED
        BY <1>a, <1>u, <2>1, <2>2, <3>1, <3>2 DEF SentInv
    <2>5. QED
      BY <2>3, <2>4
  <1>12. CASE UNCHANGED Program!vars
    BY <1>12, <1>a, <1>u DEF Program!vars, SentInv
  <1>13. QED
    BY <1>1, <1>3, <1>4, <1>5, <1>6, <1>7, <1>8, <1>9, <1>10, <1>11, <1>12
       DEF Program!Next, Program!Step

---------------------------------------------------------------------------
LEMMA ProgramInit == Program!EventWaitAssumption /\ Program!Init => ProgramInv
  <1> SUFFICES ASSUME Program!EventWaitAssumption, Program!Init PROVE ProgramInv
    OBVIOUS
  <1>1. /\ tool \in Tools /\ others \in BOOLEAN /\ place = "queue" /\ round = 1
        /\ sent = {} /\ port = [p \in 1..Count |-> <<>>] /\ signals = {}
        /\ woken = {} /\ timer = "idle" /\ at = 1 /\ got = {} /\ seen = {}
        /\ expected = {} /\ lostRace = FALSE /\ status = "NONE" /\ elapsed = FALSE
        /\ stray = {}
    BY Limits DEF Program!Init, Program!InitAt
  <1>2. \A p \in 1..Count : port[p] = <<>> /\ Program!ToSet(port[p]) = {}
    BY <1>1 DEF Program!ToSet
  <1>3. port \in [1..Count -> Seq(Program!Used)]
    BY <1>1
  <1>4. /\ 1 \in Program!Ports /\ 1 \in 1..Count /\ 1 \in 1..MaxRounds
        /\ Program!Ports \subseteq 1..Count
    BY Signals, Limits
  <1>5. Program!TypeOK
    BY <1>1, <1>3, <1>4 DEF Program!TypeOK
  <1>6. PlaceInv
    BY <1>1, <1>2 DEF PlaceInv, InWait, Reporting, Gone
  <1>7. SignalInv
    BY <1>1, <1>2, <1>4 DEF SignalInv, Reporting
  <1>8. SentInv
    BY <1>1, <1>2 DEF SentInv, Gone
  <1>9. QED
    BY <1>5, <1>6, <1>7, <1>8 DEF ProgramInv

LEMMA ProgramStep ==
    Program!EventWaitAssumption /\ ProgramInv /\ [Program!Next]_Program!vars => ProgramInv'
  BY WaitTypeStep, PlaceStep, SignalStep, SentStep DEF ProgramInv

LEMMA ProgramSafe ==
    Program!EventWaitAssumption /\ ProgramInv
        => Program!NoReplySleptOn /\ Program!SuccessLeavesNothing
  <1> SUFFICES ASSUME Program!EventWaitAssumption, ProgramInv
               PROVE  Program!NoReplySleptOn /\ Program!SuccessLeavesNothing
    OBVIOUS
  <1>a. Program!TypeOK /\ PlaceInv /\ SignalInv /\ SentInv
    BY DEF ProgramInv
  <1>1. Program!NoReplySleptOn
    BY <1>a, Signals DEF SignalInv, Program!NoReplySleptOn
  <1>2. (place \in {"close", "closed"} /\ status = "OK") => seen = Program!Used /\ sent = {}
    BY <1>a, NothingPending DEF Gone
  <1>3. stray # {} => status \in {"TIMEOUT", "CANCELLED", "QUEUE_FAILED"}
    BY <1>a DEF SentInv, PlaceInv, Program!TypeOK, Gone, Reporting
  <1>4. QED
    BY <1>1, <1>2, <1>3 DEF Program!SuccessLeavesNothing

\* An instance that starts no program: nothing happens in it.
AtRest ==
    /\ place = "closed" /\ status = "NONE"
    /\ sent = {} /\ timer = "idle" /\ stray = {}

LEMMA RestStays == AtRest /\ [Program!Next]_Program!vars => AtRest'
  <1> SUFFICES ASSUME AtRest, [Program!Next]_Program!vars PROVE AtRest'
    OBVIOUS
  <1>1. ~Program!Step
    BY DEF AtRest, Program!Step, Program!Queue, Program!Cancel, Program!Enter,
           Program!Drain, Program!Start, Program!Block, Program!Decide,
           Program!KeepWaiting,
           Program!Finish, Program!Handle, Program!Leave, Program!Close, Program!Again
  <1>2. ~Program!Expire /\ ~Program!Break /\ \A r \in 1..Count : ~Program!Complete(r)
    BY DEF AtRest, Program!Expire, Program!Break, Program!Complete, Program!HasPorts
  <1>3. UNCHANGED Program!vars
    BY <1>1, <1>2 DEF Program!Next
  <1>4. QED
    BY <1>3 DEF Program!vars, AtRest

LEMMA RestSafe == AtRest => Program!NoReplySleptOn /\ Program!SuccessLeavesNothing
  BY DEF AtRest, Program!NoReplySleptOn, Program!SuccessLeavesNothing

\* A program that runs keeps the invariant; an instance that starts none stays at rest.
WaitInv == ProgramInv \/ AtRest

LEMMA WaitInit == MCInit => WaitInv
  <1>1. Program!Init => ProgramInv
    BY ProgramAssumption, ProgramInit
  <1>2. Program!InitAt("closed") => AtRest
    BY DEF Program!InitAt, AtRest
  <1>3. QED
    BY <1>1, <1>2 DEF MCInit, WaitInv

LEMMA WaitStep == WaitInv /\ [MCNext]_<<vars, programVars>> => WaitInv'
  <1> SUFFICES ASSUME WaitInv, [MCNext]_<<vars, programVars>> PROVE WaitInv'
    OBVIOUS
  <1>1. [Program!Next]_Program!vars
    <2>1. UNCHANGED programVars => UNCHANGED Program!vars
      BY DEF programVars, Program!vars
    <2>2. QED
      BY <2>1 DEF MCNext
  <1>2. CASE ProgramInv
    BY <1>1, <1>2, ProgramAssumption, ProgramStep DEF WaitInv
  <1>3. CASE AtRest
    BY <1>1, <1>3, RestStays DEF WaitInv
  <1>4. QED
    BY <1>2, <1>3 DEF WaitInv

LEMMA WaitSafe == WaitInv => NoReplySleptOn /\ SuccessLeavesNothing
  BY ProgramAssumption, ProgramSafe, RestSafe
     DEF WaitInv, NoReplySleptOn, SuccessLeavesNothing

\* Every step of every program that waits keeps ports, signals and requests in
\* range (event_wait.h and the zz9k-libevent programs).
THEOREM ProgramTypeCorrect == Program!Spec => []Program!TypeOK
  <1>1. ProgramInv => Program!TypeOK
    BY DEF ProgramInv
  <1>2. Program!Init => ProgramInv
    BY ProgramAssumption, ProgramInit
  <1>3. ProgramInv /\ [Program!Next]_Program!vars => ProgramInv'
    BY ProgramAssumption, ProgramStep
  <1>4. QED
    BY <1>1, <1>2, <1>3, PTL DEF Program!Spec

\* A program never sleeps on a reply that is there, however many requests and
\* ports it has and whenever they are answered (zz9k_event_wait_async_ports,
\* zz9k_event_wait_signal).
THEOREM ProgramNeverSleepsOnReply == MCSpec => []NoReplySleptOn
  BY WaitInit, WaitStep, WaitSafe, PTL DEF MCSpec

\* A program that ends well has had the reply of each of its requests, and
\* nothing is posted to a port that is gone (zz9k-libevent and its variants).
THEOREM ProgramSuccessIsClean == MCSpec => []SuccessLeavesNothing
  BY WaitInit, WaitStep, WaitSafe, PTL DEF MCSpec
=============================================================================
