------------------------------ MODULE Mailbox ------------------------------
(***************************************************************************)
(* The host side of the ZZ9000 mailbox transport (host/src/zz9k_host.c):   *)
(* a request ring and a completion ring in card memory, shared by every    *)
(* attached context of every task and serialised by one named semaphore.   *)
(*                                                                         *)
(* A context attaches, submits requests without waiting (zz9k_submit),     *)
(* polls for a completion (zz9k_poll), or calls synchronously (zz9k_call), *)
(* which keeps the semaphore from its enqueue to its reply or timeout and  *)
(* throws away every completion that is not its own.  The firmware on the  *)
(* ARM side is external: it takes requests in order, may finish them in    *)
(* any order, as late as it likes, or die.                                 *)
(*                                                                         *)
(* Abstractions.  A payload is not modelled.  A request is identified by   *)
(* the ghost token tok = [ctx, n], the n-th id its context drew; code      *)
(* never reads it.  id ^ mask is the pair [mask, id]: cookies are compared *)
(* only between entries of equal id, where the two agree.                  *)
(***************************************************************************)
EXTENDS Naturals, Sequences, FiniteSets

CONSTANTS
    Contexts,      \* attachments: the life of a context from attach to close
    NoCtx,         \* no context: the semaphore is free
    Mask,          \* Mask[c]: sync_cookie_mask, made of c's address and task
    NoMask,        \* the mask no context has: cookies chosen by programs
    Opcodes,       \* opcodes of requests
    NoOp,          \* opcode of a slot that was never written
    ReqEntries,    \* request_ring_entries
    CmpEntries,    \* completion_ring_entries
    IdLimit,       \* the largest request id, 2^32 - 1
    MaxRequests,   \* bound: ids one attachment draws
    TimeoutTicks,  \* timeout_ticks of zz9k_call, or the polls before the
                   \* backstop when a wall clock bounds the call
    MayDie         \* whether the card may stop answering

ASSUME MailboxAssumption ==
    /\ ReqEntries \in Nat /\ ReqEntries >= 2
    /\ CmpEntries \in Nat /\ CmpEntries >= 2
    /\ IdLimit \in Nat /\ IdLimit >= 1
    /\ MaxRequests \in Nat /\ MaxRequests <= IdLimit
    /\ TimeoutTicks \in Nat /\ TimeoutTicks >= 1
    /\ MayDie \in BOOLEAN
    /\ NoCtx \notin Contexts
    /\ NoMask \notin {Mask[c] : c \in Contexts}

VARIABLES
    reqRing, reqHead, reqTail,  \* request ring: the host moves the tail
    cmpRing, cmpHead, cmpTail,  \* completion ring: the host moves the head
    board,     \* "up", or "dead": every index reads out of range
    working,   \* requests the firmware has taken and not answered
    lock,      \* holder of the semaphore "zz9000.sdk.mailbox"
    pc,        \* where each context is in the operation it runs
    kind,      \* that operation: "submit", "call" or "poll"
    request,   \* the request it passes
    reply,     \* the completion it has read from the ring
    ticks,     \* polls zz9k_call has made
    nextId,    \* next_request_id
    drawn,     \* ghost: number of ids drawn
    ret,       \* ghost: how the last operation ended
    accepted,  \* ghost: requests published in the request ring
    retired    \* ghost: requests whose completion a host operation consumed

rings  == <<reqRing, reqHead, reqTail, cmpRing, cmpHead, cmpTail>>
locals == <<kind, request, reply, ticks>>
ghosts == <<accepted, retired>>
vars == <<reqRing, reqHead, reqTail, cmpRing, cmpHead, cmpTail, board, working,
          lock, pc, kind, request, reply, ticks, nextId, drawn, ret, accepted,
          retired>>

---------------------------------------------------------------------------
\* Entries, ids and ring arithmetic.

NoTok == [ctx |-> NoCtx, n |-> 0]

UserCookie == [mask |-> NoMask, id |-> 0]
SyncCookie(c, id) == [mask |-> Mask[c], id |-> id]

NoResult == [status |-> "NONE", req |-> NoTok, rep |-> NoTok]

Blank == [id |-> 0, op |-> NoOp, cookie |-> UserCookie, tok |-> NoTok]

\* Faulty variant: wraps one slot too late.
NextRingIndexLate(i, entries) == IF i + 1 > entries THEN 0 ELSE i + 1

NextRingIndex(i, entries) == IF i + 1 >= entries THEN 0 ELSE i + 1

\* The id counter wraps past 2^32 - 1 to 1; 0 stands for "not assigned".
NextRequestId(id) == IF id = IdLimit THEN 1 ELSE id + 1

\* Faulty variants: no slot kept free; an empty ring not noticed; a consumed
\* slot not given back.
RequestRingNeverFull == FALSE
CompletionRingNeverEmpty == FALSE
HeadNotMoved == cmpHead

RequestRingFull == NextRingIndex(reqTail, ReqEntries) = reqHead
CompletionRingEmpty == cmpHead = cmpTail
HeadAfterConsume == NextRingIndex(cmpHead, CmpEntries)

\* Faulty variant: a completion is taken on id and opcode alone.
ReplyMatchesNoCookie(r, q) == r.id = q.id /\ r.op = q.op

\* The three fields zz9k_call compares before it takes a completion as its own.
ReplyMatches(r, q) == /\ r.id = q.id
                      /\ r.op = q.op
                      /\ r.cookie = q.cookie

Live(c) == pc[c] \notin {"new", "closed"}

---------------------------------------------------------------------------
\* The world before any operation, with every context in the given place.
InitAt(place) ==
    /\ reqRing = [i \in 0..(ReqEntries - 1) |-> Blank]
    /\ cmpRing = [i \in 0..(CmpEntries - 1) |-> Blank]
    /\ reqHead = 0 /\ reqTail = 0 /\ cmpHead = 0 /\ cmpTail = 0
    /\ board = "up"
    /\ working = {}
    /\ lock = NoCtx
    /\ pc = [c \in Contexts |-> place]
    /\ kind = [c \in Contexts |-> "poll"]
    /\ request = [c \in Contexts |-> Blank]
    /\ reply = [c \in Contexts |-> Blank]
    /\ ticks = [c \in Contexts |-> 0]
    /\ nextId = [c \in Contexts |-> 1]
    /\ drawn = [c \in Contexts |-> 0]
    /\ ret = [c \in Contexts |-> NoResult]
    /\ accepted = {}
    /\ retired = {}

Init == InitAt("new")

\* zz9k_attach_mailbox: two live contexts never share an address, a context
\* attached after another was closed may.
Attach(c) ==
    /\ pc[c] = "new"
    /\ \A d \in Contexts \ {c} : Live(d) => Mask[d] # Mask[c]
    /\ pc' = [pc EXCEPT ![c] = "idle"]
    /\ nextId' = [nextId EXCEPT ![c] = 1]
    /\ UNCHANGED <<rings, board, working, lock, locals, drawn, ret, ghosts>>

\* zz9k_close: requests in flight stay in the rings and in the firmware.
Close(c) ==
    /\ pc[c] = "idle"
    /\ pc' = [pc EXCEPT ![c] = "closed"]
    /\ UNCHANGED <<rings, board, working, lock, locals, nextId, drawn, ret,
                   ghosts>>

\* A program enters zz9k_submit, zz9k_call or zz9k_poll with a fresh request.
Begin(c, k, op) ==
    /\ pc[c] = "idle"
    /\ k # "poll" => drawn[c] < MaxRequests
    /\ pc' = [pc EXCEPT ![c] = "obtain"]
    /\ kind' = [kind EXCEPT ![c] = k]
    /\ request' = [request EXCEPT ![c] = [Blank EXCEPT !.op = op]]
    /\ ret' = [ret EXCEPT ![c] = NoResult]
    /\ UNCHANGED <<rings, board, working, lock, reply, ticks, nextId, drawn,
                   ghosts>>

\* zz9k_mailbox_lock.
Obtain(c) ==
    /\ pc[c] = "obtain"
    /\ lock = NoCtx
    /\ lock' = c
    /\ pc' = [pc EXCEPT ![c] = CASE kind[c] = "call"   -> "draw"
                                 [] kind[c] = "submit" -> "enqueue"
                                 [] OTHER              -> "wait"]
    /\ UNCHANGED <<rings, board, working, locals, nextId, drawn, ret, ghosts>>

\* Faulty variant: an operation that returns without unlocking.
UnlockForgotten == UNCHANGED lock

\* zz9k_mailbox_unlock.
Unlock == lock' = NoCtx

\* The common end of the three operations: unlock and return.  The local
\* variables of the operation are gone.
Return(c, status, rep) ==
    /\ Unlock
    /\ pc' = [pc EXCEPT ![c] = "idle"]
    /\ ret' = [ret EXCEPT ![c] = [status |-> status, req |-> request[c].tok,
                                  rep |-> rep]]
    /\ kind' = [kind EXCEPT ![c] = "poll"]
    /\ request' = [request EXCEPT ![c] = Blank]
    /\ reply' = [reply EXCEPT ![c] = Blank]
    /\ ticks' = [ticks EXCEPT ![c] = 0]

WithNewId(c, q) == [q EXCEPT !.id = nextId[c],
                             !.tok = [ctx |-> c, n |-> drawn[c] + 1]]

DrawId(c) == /\ nextId' = [nextId EXCEPT ![c] = NextRequestId(nextId[c])]
             /\ drawn' = [drawn EXCEPT ![c] = drawn[c] + 1]

\* zz9k_call draws its id and builds its cookie before it looks at the ring:
\* the id is spent even when the ring turns out to be full.
CallDraw(c) ==
    /\ pc[c] = "draw"
    /\ DrawId(c)
    /\ request' = [request EXCEPT ![c] =
           [WithNewId(c, request[c]) EXCEPT !.cookie = SyncCookie(c, nextId[c])]]
    /\ pc' = [pc EXCEPT ![c] = "enqueue"]
    /\ UNCHANGED <<rings, board, working, lock, kind, reply, ticks, ret, ghosts>>

\* zz9k_enqueue_request_locked, the early returns: out-of-range indices give
\* BAD_REQUEST, a full ring BUSY.
EnqueueRefused(c) ==
    /\ pc[c] = "enqueue"
    /\ \/ board = "dead" /\ Return(c, "BAD_REQUEST", NoTok)
       \/ board = "up" /\ RequestRingFull /\ Return(c, "BUSY", NoTok)
    /\ UNCHANGED <<rings, board, working, nextId, drawn, ghosts>>

\* The entry is copied to the slot at the tail, with an id if it has none ...
EnqueueWrite(c) ==
    /\ pc[c] = "enqueue"
    /\ board = "up"
    /\ ~RequestRingFull
    /\ LET q == IF request[c].id = 0 THEN WithNewId(c, request[c]) ELSE request[c]
       IN /\ request' = [request EXCEPT ![c] = q]
          /\ reqRing' = [reqRing EXCEPT ![reqTail] = q]
    /\ IF request[c].id = 0 THEN DrawId(c) ELSE UNCHANGED <<nextId, drawn>>
    /\ pc' = [pc EXCEPT ![c] = "written"]
    /\ UNCHANGED <<reqHead, reqTail, cmpRing, cmpHead, cmpTail, board, working,
                   lock, kind, reply, ticks, ret, ghosts>>

\* ... and only then published by moving the tail (the doorbell follows).
EnqueuePublish(c) ==
    /\ pc[c] = "written"
    /\ reqTail' = NextRingIndex(reqTail, ReqEntries)
    /\ accepted' = accepted \cup {request[c].tok}
    /\ \/ /\ kind[c] = "submit"
          /\ Return(c, "QUEUED", NoTok)
       \/ /\ kind[c] = "call"
          /\ pc' = [pc EXCEPT ![c] = "queued"]
          /\ UNCHANGED <<lock, locals, ret>>
    /\ UNCHANGED <<reqRing, reqHead, cmpRing, cmpHead, cmpTail, board, working,
                   nextId, drawn, retired>>

\* zz9k_call between its enqueue and its first poll; with a zero tick budget
\* and no wall clock it gives up without polling.
CallIdle(c) ==
    /\ pc[c] = "queued"
    /\ \/ pc' = [pc EXCEPT ![c] = "wait"] /\ UNCHANGED <<lock, locals, ret>>
       \/ Return(c, "TIMEOUT", NoTok)
    /\ UNCHANGED <<rings, board, working, nextId, drawn, ghosts>>

\* zz9k_consume_next_completion_locked, nothing to consume.
ConsumeNothing(c) ==
    /\ pc[c] = "wait"
    /\ \/ board = "dead" /\ Return(c, "BAD_REQUEST", NoTok)
       \/ /\ board = "up" /\ CompletionRingEmpty
          /\ \/ kind[c] = "poll" /\ Return(c, "BUSY", NoTok)
             \/ /\ kind[c] = "call"
                /\ pc' = [pc EXCEPT ![c] = "tick"]
                /\ UNCHANGED <<lock, locals, ret>>
    /\ UNCHANGED <<rings, board, working, nextId, drawn, ghosts>>

\* The entry at the head is copied out first ...
ConsumeRead(c) ==
    /\ pc[c] = "wait"
    /\ board = "up"
    /\ ~CompletionRingEmpty
    /\ reply' = [reply EXCEPT ![c] = cmpRing[cmpHead]]
    /\ pc' = [pc EXCEPT ![c] = "read"]
    /\ UNCHANGED <<rings, board, working, lock, kind, request, ticks, nextId,
                   drawn, ret, ghosts>>

\* ... then the head moves and the slot is the firmware's again.  zz9k_poll
\* returns what it read; zz9k_call returns its own reply and drops the rest.
ConsumeRetire(c) ==
    /\ pc[c] = "read"
    /\ cmpHead' = HeadAfterConsume
    /\ retired' = retired \cup {reply[c].tok}
    /\ \/ kind[c] = "poll" /\ Return(c, "POLLED", reply[c].tok)
       \/ /\ kind[c] = "call" /\ ReplyMatches(reply[c], request[c])
          /\ Return(c, "REPLY", reply[c].tok)
       \/ /\ kind[c] = "call" /\ ~ReplyMatches(reply[c], request[c])
          /\ pc' = [pc EXCEPT ![c] = "tick"]
          /\ UNCHANGED <<lock, locals, ret>>
    /\ UNCHANGED <<reqRing, reqHead, reqTail, cmpRing, cmpTail, board, working,
                   nextId, drawn, accepted>>

\* The end of an iteration of zz9k_call's loop: the wall clock may run out at
\* any iteration, the tick budget does at the TimeoutTicks-th.  The request
\* stays in flight.
Tick(c) ==
    /\ pc[c] = "tick"
    /\ \/ /\ ticks[c] + 1 < TimeoutTicks
          /\ ticks' = [ticks EXCEPT ![c] = ticks[c] + 1]
          /\ pc' = [pc EXCEPT ![c] = "wait"]
          /\ UNCHANGED <<lock, kind, request, reply, ret>>
       \/ Return(c, "TIMEOUT", NoTok)
    /\ UNCHANGED <<rings, board, working, nextId, drawn, ghosts>>

---------------------------------------------------------------------------
\* The firmware, modelled from how the host uses the rings.

FwTake ==
    /\ board = "up"
    /\ reqHead # reqTail
    /\ working' = working \cup {reqRing[reqHead]}
    /\ reqHead' = NextRingIndex(reqHead, ReqEntries)
    /\ UNCHANGED <<reqRing, reqTail, cmpRing, cmpHead, cmpTail, board, lock, pc,
                   locals, nextId, drawn, ret, ghosts>>

FwComplete(e) ==
    /\ board = "up"
    /\ NextRingIndex(cmpTail, CmpEntries) # cmpHead
    /\ working' = working \ {e}
    /\ cmpRing' = [cmpRing EXCEPT ![cmpTail] = e]
    /\ cmpTail' = NextRingIndex(cmpTail, CmpEntries)
    /\ UNCHANGED <<reqRing, reqHead, reqTail, cmpHead, board, lock, pc,
                   locals, nextId, drawn, ret, ghosts>>

BoardDies ==
    /\ MayDie
    /\ board = "up"
    /\ board' = "dead"
    /\ UNCHANGED <<rings, working, lock, pc, locals, nextId, drawn, ret, ghosts>>

---------------------------------------------------------------------------
\* What a context does once it has entered an operation.
Step(c) ==
    \/ CallDraw(c) \/ EnqueueRefused(c) \/ EnqueueWrite(c) \/ EnqueuePublish(c)
    \/ CallIdle(c) \/ ConsumeNothing(c) \/ ConsumeRead(c) \/ ConsumeRetire(c)
    \/ Tick(c)

Next ==
    \/ \E c \in Contexts :
          \/ Attach(c) \/ Close(c) \/ Obtain(c) \/ Step(c)
          \/ \E k \in {"submit", "call"}, op \in Opcodes : Begin(c, k, op)
          \/ Begin(c, "poll", NoOp)
    \/ FwTake
    \/ \E e \in working : FwComplete(e)
    \/ BoardDies

Spec == Init /\ [][Next]_vars

\* A task that holds the processor runs on; exec grants the semaphore in the
\* order in which tasks asked for it, so nobody waits for it forever unless
\* its holder does.  Nothing is assumed of the firmware.
Fairness == \A c \in Contexts : WF_vars(Step(c)) /\ SF_vars(Obtain(c))

FairSpec == Spec /\ Fairness

---------------------------------------------------------------------------
\* Properties.

Token  == [ctx : Contexts, n : Nat] \cup {NoTok}
Cookie == [mask : {Mask[c] : c \in Contexts} \cup {NoMask}, id : Nat]
Entry  == [id : Nat, op : Opcodes \cup {NoOp}, cookie : Cookie, tok : Token]
Phases == {"new", "idle", "closed", "obtain", "draw", "enqueue", "written",
           "queued", "wait", "read", "tick"}
Statuses == {"NONE", "QUEUED", "BUSY", "BAD_REQUEST", "TIMEOUT", "POLLED",
             "REPLY"}

\* Type invariant.  In particular both sides keep the four ring indices of the
\* descriptor in the range the host checks for.
TypeOK ==
    /\ reqRing \in [0..(ReqEntries - 1) -> Entry]
    /\ cmpRing \in [0..(CmpEntries - 1) -> Entry]
    /\ reqHead \in 0..(ReqEntries - 1) /\ reqTail \in 0..(ReqEntries - 1)
    /\ cmpHead \in 0..(CmpEntries - 1) /\ cmpTail \in 0..(CmpEntries - 1)
    /\ board \in {"up", "dead"}
    /\ working \subseteq Entry
    /\ lock \in Contexts \cup {NoCtx}
    /\ pc \in [Contexts -> Phases]
    /\ kind \in [Contexts -> {"submit", "call", "poll"}]
    /\ request \in [Contexts -> Entry]
    /\ reply \in [Contexts -> Entry]
    /\ ticks \in [Contexts -> Nat]
    /\ nextId \in [Contexts -> 1..IdLimit]
    /\ drawn \in [Contexts -> Nat]
    /\ ret \in [Contexts -> [status : Statuses, req : Token, rep : Token]]
    /\ accepted \subseteq Token
    /\ retired \subseteq Token

Messages(ring, head, tail, entries) ==
    [i \in 1..((tail + entries - head) % entries) |->
        ring[(head + i - 1) % entries]]

ReqQueue == Messages(reqRing, reqHead, reqTail, ReqEntries)
CmpQueue == Messages(cmpRing, cmpHead, cmpTail, CmpEntries)

\* A synchronous call that returns a reply returns the reply to its own
\* request: never the late completion of a call that timed out, nor that of
\* another context that numbers its requests from 1 as well (zz9k_call's
\* comparison of id, opcode and cookie).
CallGetsOwnReply ==
    \A c \in Contexts : ret[c].status = "REPLY" => ret[c].rep = ret[c].req

Toks(q) == {q[i].tok : i \in DOMAIN q}

\* Every request published in the ring is, exactly once, still queued, in the
\* hands of the firmware, answered and waiting in the completion ring, or
\* consumed by a host operation: timeouts, full rings and interleavings lose
\* and duplicate nothing on the host's side.
Conservation ==
    LET where == <<Toks(ReqQueue), {e.tok : e \in working}, Toks(CmpQueue),
                   retired>>
    IN /\ accepted = UNION {where[i] : i \in 1..4}
       /\ \A i, j \in 1..4 : i # j => where[i] \cap where[j] = {}
       /\ Cardinality(Toks(ReqQueue)) = Len(ReqQueue)
       /\ Cardinality(Toks(CmpQueue)) = Len(CmpQueue)

\* Both rings are bounded FIFO channels: what the firmware sees in a slot is
\* what the host wrote there, whole, once and in order, and the reverse for
\* completions (entry before tail when writing, entry before head when
\* reading, one slot kept free).
ReqChannel == INSTANCE RingChannel WITH chan <- ReqQueue, Capacity <- ReqEntries - 1
CmpChannel == INSTANCE RingChannel WITH chan <- CmpQueue, Capacity <- CmpEntries - 1
RingsAreChannels == ReqChannel!Spec /\ CmpChannel!Spec

\* A context that has entered an operation leaves it, whatever the firmware
\* does, even when other contexts hold the semaphore through long waits.
OperationsReturn ==
    \A c \in Contexts : pc[c] = "obtain" ~> pc[c] = "idle"
=============================================================================
