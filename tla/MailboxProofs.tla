--------------------------- MODULE MailboxProofs ---------------------------
(***************************************************************************)
(* For every number of contexts, ring size, opcode set, id range and tick  *)
(* budget: the type invariant of Mailbox, and that a synchronous call      *)
(* only ever returns the reply to its own request, provided no two         *)
(* attachments share a cookie mask; each ring is a bounded FIFO channel,   *)
(* and every published request is always in exactly one place.             *)
(*                                                                         *)
(* Messages(ring, head, tail, entries) is the content of a ring; three     *)
(* lemmas say what the three ways to touch a ring do to it, and all about  *)
(* the rings after them speaks of sequences only.                          *)
(***************************************************************************)
EXTENDS Mailbox, FiniteSetTheorems, TLAPS

DistinctMasksHyp == \A c, d \in Contexts : Mask[c] = Mask[d] => c = d

---------------------------------------------------------------------------
\* An index that is in range stays in range (zz9k_next_ring_index).
LEMMA NextRingIndexInRange ==
    ASSUME NEW n \in Nat, n >= 1, NEW i \in 0..(n - 1)
    PROVE  NextRingIndex(i, n) \in 0..(n - 1)
  BY DEF NextRingIndex

\* The id counter stays in 1..IdLimit (zz9k_context_next_request_id).
LEMMA NextRequestIdInRange ==
    ASSUME NEW id \in 1..IdLimit
    PROVE  NextRequestId(id) \in 1..IdLimit
  BY MailboxAssumption DEF NextRequestId

\* Updating a function at one point with a value of its range.
LEMMA UpdateType ==
    ASSUME NEW S, NEW T, NEW f \in [S -> T], NEW x \in S, NEW v \in T
    PROVE  [f EXCEPT ![x] = v] \in [S -> T]
  OBVIOUS

\* Drawing an id keeps both counters in range.
LEMMA DrawIdType ==
    ASSUME TypeOK, NEW c \in Contexts, DrawId(c)
    PROVE  nextId' \in [Contexts -> 1..IdLimit] /\ drawn' \in [Contexts -> Nat]
  <1>1. nextId \in [Contexts -> 1..IdLimit] /\ drawn \in [Contexts -> Nat]
    BY DEF TypeOK
  <1>2. NextRequestId(nextId[c]) \in 1..IdLimit /\ drawn[c] + 1 \in Nat
    BY <1>1, NextRequestIdInRange
  <1>3. QED
    BY <1>1, <1>2, UpdateType DEF DrawId

\* The constant entries and tokens have their types.
LEMMA BlankTypes ==
    /\ NoTok \in Token
    /\ Blank \in Entry
    /\ NoResult \in [status : Statuses, req : Token, rep : Token]
  BY DEF NoTok, Token, Blank, Entry, UserCookie, Cookie, NoResult, Statuses

\* Assigning an id and a token to an entry keeps its type.
LEMMA WithNewIdType ==
    ASSUME TypeOK, NEW c \in Contexts, NEW q \in Entry
    PROVE  WithNewId(c, q) \in Entry
  <1>1. nextId[c] \in Nat /\ drawn[c] + 1 \in Nat
    BY MailboxAssumption DEF TypeOK
  <1>2. [ctx |-> c, n |-> drawn[c] + 1] \in Token
    BY <1>1 DEF Token
  <1>3. QED
    BY <1>1, <1>2 DEF WithNewId, Entry

\* The end of an operation keeps the types of what it changes.
LEMMA ReturnType ==
    ASSUME TypeOK, NEW c \in Contexts, NEW status \in Statuses,
           NEW rep \in Token, Return(c, status, rep)
    PROVE  /\ lock' \in Contexts \cup {NoCtx}
           /\ pc' \in [Contexts -> Phases]
           /\ kind' \in [Contexts -> {"submit", "call", "poll"}]
           /\ request' \in [Contexts -> Entry]
           /\ reply' \in [Contexts -> Entry]
           /\ ticks' \in [Contexts -> Nat]
           /\ ret' \in [Contexts -> [status : Statuses, req : Token, rep : Token]]
  <1>1. request[c].tok \in Token
    BY DEF TypeOK, Entry
  <1>2. [status |-> status, req |-> request[c].tok, rep |-> rep]
          \in [status : Statuses, req : Token, rep : Token]
    BY <1>1
  <1>3. QED
    BY <1>2, BlankTypes DEF TypeOK, Return, Unlock, Phases

---------------------------------------------------------------------------
\* Type correctness: every handler of the transport keeps the indices, ids,
\* entries and phases in their ranges.
THEOREM TypeCorrect == Spec => []TypeOK
  <1>1. Init => TypeOK
    BY MailboxAssumption, BlankTypes DEF Init, InitAt, TypeOK, Phases
  <1>2. TypeOK /\ [Next]_vars => TypeOK'
    <2> SUFFICES ASSUME TypeOK, [Next]_vars
                 PROVE  TypeOK'
      OBVIOUS
    <2> USE MailboxAssumption
    <2>1. ASSUME NEW c \in Contexts, Attach(c)
          PROVE  TypeOK'
      BY <2>1 DEF Attach, TypeOK, Phases, rings, locals, ghosts
    <2>2. ASSUME NEW c \in Contexts, Close(c)
          PROVE  TypeOK'
      BY <2>2 DEF Close, TypeOK, Phases, rings, locals, ghosts
    <2>3. ASSUME NEW c \in Contexts, Obtain(c)
          PROVE  TypeOK'
      BY <2>3 DEF Obtain, TypeOK, Phases, rings, locals, ghosts
    <2>4. ASSUME NEW c \in Contexts, CallDraw(c)
          PROVE  TypeOK'
      <3>1. WithNewId(c, request[c]) \in Entry
        BY WithNewIdType DEF TypeOK
      <3>2. SyncCookie(c, nextId[c]) \in Cookie
        BY DEF SyncCookie, Cookie, TypeOK
      <3>3. [WithNewId(c, request[c]) EXCEPT !.cookie = SyncCookie(c, nextId[c])]
              \in Entry
        BY <3>1, <3>2 DEF Entry
      <3>5. nextId' \in [Contexts -> 1..IdLimit] /\ drawn' \in [Contexts -> Nat]
        BY <2>4, DrawIdType DEF CallDraw
      <3>6. request' \in [Contexts -> Entry] /\ pc' \in [Contexts -> Phases]
        BY <2>4, <3>3 DEF CallDraw, TypeOK, Phases
      <3>7. QED
        BY <2>4, <3>5, <3>6 DEF CallDraw, TypeOK, rings, ghosts
    <2>5. ASSUME NEW c \in Contexts, EnqueueRefused(c)
          PROVE  TypeOK'
      <3>1. PICK s \in Statuses : Return(c, s, NoTok)
        BY <2>5 DEF EnqueueRefused, Statuses
      <3>2. QED
        BY <2>5, <3>1, ReturnType, BlankTypes
        DEF EnqueueRefused, TypeOK, rings, ghosts
    <2>6. ASSUME NEW c \in Contexts, EnqueueWrite(c)
          PROVE  TypeOK'
      <3>1. WithNewId(c, request[c]) \in Entry
        BY WithNewIdType DEF TypeOK
      <3>2. request' \in [Contexts -> Entry]
        BY <2>6, <3>1 DEF EnqueueWrite, TypeOK
      <3>3. reqRing' \in [0..(ReqEntries - 1) -> Entry]
        BY <2>6, <3>1 DEF EnqueueWrite, TypeOK
      <3>5. nextId' \in [Contexts -> 1..IdLimit] /\ drawn' \in [Contexts -> Nat]
        BY <2>6, DrawIdType DEF EnqueueWrite, TypeOK
      <3>6. QED
        BY <2>6, <3>2, <3>3, <3>5 DEF EnqueueWrite, TypeOK, Phases, ghosts
    <2>7. ASSUME NEW c \in Contexts, EnqueuePublish(c)
          PROVE  TypeOK'
      <3>1. NextRingIndex(reqTail, ReqEntries) \in 0..(ReqEntries - 1)
        BY NextRingIndexInRange DEF TypeOK
      <3>2. accepted' \subseteq Token
        BY <2>7 DEF EnqueuePublish, TypeOK, Entry
      <3>3. CASE Return(c, "QUEUED", NoTok)
        BY <2>7, <3>1, <3>2, <3>3, ReturnType, BlankTypes
        DEF EnqueuePublish, TypeOK, Statuses
      <3>4. CASE ~Return(c, "QUEUED", NoTok)
        BY <2>7, <3>1, <3>2, <3>4 DEF EnqueuePublish, TypeOK, Phases, locals
      <3>5. QED
        BY <3>3, <3>4
    <2>8. ASSUME NEW c \in Contexts, CallIdle(c)
          PROVE  TypeOK'
      <3>1. CASE Return(c, "TIMEOUT", NoTok)
        BY <2>8, <3>1, ReturnType, BlankTypes
        DEF CallIdle, TypeOK, Statuses, rings, ghosts
      <3>2. CASE ~Return(c, "TIMEOUT", NoTok)
        BY <2>8, <3>2 DEF CallIdle, TypeOK, Phases, rings, ghosts, locals
      <3>3. QED
        BY <3>1, <3>2
    <2>9. ASSUME NEW c \in Contexts, ConsumeNothing(c)
          PROVE  TypeOK'
      <3>1. CASE \E s \in Statuses : Return(c, s, NoTok)
        BY <2>9, <3>1, ReturnType, BlankTypes
        DEF ConsumeNothing, TypeOK, rings, ghosts
      <3>2. CASE ~\E s \in Statuses : Return(c, s, NoTok)
        BY <2>9, <3>2
        DEF ConsumeNothing, TypeOK, Phases, Statuses, rings, ghosts, locals
      <3>3. QED
        BY <3>1, <3>2
    <2>10. ASSUME NEW c \in Contexts, ConsumeRead(c)
           PROVE  TypeOK'
      BY <2>10 DEF ConsumeRead, TypeOK, Phases, rings, ghosts
    <2>11. ASSUME NEW c \in Contexts, ConsumeRetire(c)
           PROVE  TypeOK'
      <3>1. HeadAfterConsume \in 0..(CmpEntries - 1)
        BY NextRingIndexInRange DEF TypeOK, HeadAfterConsume
      <3>2. reply[c].tok \in Token
        BY DEF TypeOK, Entry
      <3>3. retired' \subseteq Token
        BY <2>11, <3>2 DEF ConsumeRetire, TypeOK
      <3>4. CASE \E s \in Statuses : Return(c, s, reply[c].tok)
        BY <2>11, <3>1, <3>2, <3>3, <3>4, ReturnType DEF ConsumeRetire, TypeOK
      <3>5. CASE ~\E s \in Statuses : Return(c, s, reply[c].tok)
        BY <2>11, <3>1, <3>3, <3>5
        DEF ConsumeRetire, TypeOK, Phases, Statuses, locals
      <3>6. QED
        BY <3>4, <3>5
    <2>12. ASSUME NEW c \in Contexts, Tick(c)
           PROVE  TypeOK'
      <3>1. CASE Return(c, "TIMEOUT", NoTok)
        BY <2>12, <3>1, ReturnType, BlankTypes
        DEF Tick, TypeOK, Statuses, rings, ghosts
      <3>2. CASE ~Return(c, "TIMEOUT", NoTok)
        <4>0. ticks \in [Contexts -> Nat] /\ ticks[c] + 1 \in Nat
          BY DEF TypeOK
        <4>1. ticks' \in [Contexts -> Nat] /\ pc' \in [Contexts -> Phases]
          <5>1. ticks' = [ticks EXCEPT ![c] = ticks[c] + 1]
            BY <2>12, <3>2 DEF Tick
          <5>2. ticks' \in [Contexts -> Nat]
            BY <4>0, <5>1, UpdateType
          <5>3. QED
            BY <2>12, <3>2, <5>2 DEF Tick, TypeOK, Phases
        <4>2. QED
          BY <2>12, <3>2, <4>1 DEF Tick, TypeOK, rings, ghosts
      <3>3. QED
        BY <3>1, <3>2
    <2>13. ASSUME NEW c \in Contexts, NEW k \in {"submit", "call", "poll"},
                  NEW op \in Opcodes \cup {NoOp}, Begin(c, k, op)
           PROVE  TypeOK'
      <3>1. [Blank EXCEPT !.op = op] \in Entry
        BY BlankTypes DEF Entry
      <3>2. QED
        BY <2>13, <3>1, BlankTypes DEF Begin, TypeOK, Phases, rings, ghosts
    <2>14. CASE FwTake
      <3>1. NextRingIndex(reqHead, ReqEntries) \in 0..(ReqEntries - 1)
        BY NextRingIndexInRange DEF TypeOK
      <3>2. QED
        BY <2>14, <3>1 DEF FwTake, TypeOK, locals, ghosts
    <2>15. ASSUME NEW e \in working, FwComplete(e)
           PROVE  TypeOK'
      <3>1. NextRingIndex(cmpTail, CmpEntries) \in 0..(CmpEntries - 1)
        <4>1. cmpTail \in 0..(CmpEntries - 1)
          BY DEF TypeOK
        <4>2. QED
          BY <4>1, NextRingIndexInRange
      <3>2. QED
        BY <2>15, <3>1 DEF FwComplete, TypeOK, locals, ghosts
    <2>16. CASE BoardDies
      BY <2>16 DEF BoardDies, TypeOK, rings, locals, ghosts
    <2>17. CASE UNCHANGED vars
      BY <2>17 DEF vars, TypeOK
    <2>18. QED
      BY <2>1, <2>2, <2>3, <2>4, <2>5, <2>6, <2>7, <2>8, <2>9, <2>10, <2>11,
         <2>12, <2>13, <2>14, <2>15, <2>16, <2>17
      DEF Next, Step
  <1>3. QED
    BY <1>1, <1>2, PTL DEF Spec

---------------------------------------------------------------------------
\* The invariant behind CallGetsOwnReply.

\* An entry with a context's mask in its cookie was built by zz9k_call in that
\* context, and its id is the ordinal of the draw that made it.
Genuine(e) ==
    e.cookie.mask # NoMask =>
        \E c \in Contexts : /\ e.cookie = SyncCookie(c, e.id)
                            /\ e.tok = [ctx |-> c, n |-> e.id]

\* Wherever an entry is, it is genuine: slots long overtaken included.
EntriesGenuine ==
    /\ \A i \in 0..(ReqEntries - 1) : Genuine(reqRing[i])
    /\ \A i \in 0..(CmpEntries - 1) : Genuine(cmpRing[i])
    /\ \A e \in working : Genuine(e)
    /\ \A c \in Contexts : Genuine(request[c]) /\ Genuine(reply[c])

\* Before its IdLimit-th draw a context's counter is one ahead of its draws;
\* an operation that still has to draw has an id left.
IdsAreOrdinals ==
    \A c \in Contexts :
        /\ drawn[c] < MaxRequests => nextId[c] = drawn[c] + 1
        /\ pc[c] = "new" => drawn[c] = 0
        /\ kind[c] # "poll" /\ pc[c] = "obtain" => drawn[c] < MaxRequests
        /\ kind[c] = "submit" /\ pc[c] = "enqueue" => drawn[c] < MaxRequests
        /\ pc[c] = "draw" => kind[c] = "call" /\ drawn[c] < MaxRequests

\* From its draw to its return a call holds a request with its own cookie; a
\* submitted request carries the program's cookie.
CallsHoldTheirRequest ==
    \A c \in Contexts :
        /\ kind[c] = "call" /\ pc[c] \notin {"idle", "obtain", "draw"} =>
              /\ request[c].id # 0
              /\ request[c].cookie = SyncCookie(c, request[c].id)
              /\ request[c].tok = [ctx |-> c, n |-> request[c].id]
        /\ pc[c] = "draw" => request[c].cookie = UserCookie
        /\ kind[c] # "call" => request[c].cookie = UserCookie
        /\ pc[c] = "obtain" => request[c].cookie = UserCookie
        /\ pc[c] \in {"new", "idle", "closed"} => kind[c] = "poll"

OwnReplyInv ==
    /\ TypeOK
    /\ EntriesGenuine
    /\ IdsAreOrdinals
    /\ CallsHoldTheirRequest
    /\ CallGetsOwnReply

\* An entry with the program's cookie is genuine.
LEMMA UserGenuine ==
    ASSUME NEW e, e.cookie = UserCookie
    PROVE  Genuine(e)
  BY DEF Genuine, UserCookie

\* The fields of an entry that has just been given an id.
LEMMA WithNewIdFields ==
    ASSUME NEW c \in Contexts, NEW q \in Entry
    PROVE  /\ WithNewId(c, q).id = nextId[c]
           /\ WithNewId(c, q).tok = [ctx |-> c, n |-> drawn[c] + 1]
           /\ WithNewId(c, q).cookie = q.cookie
  BY DEF WithNewId, Entry

\* The end of an operation: the locals are blank again, and what is returned
\* was compared with the request.
LEMMA ReturnKeepsInv ==
    ASSUME OwnReplyInv, NEW c \in Contexts, NEW status \in Statuses,
           NEW rep \in Token, Return(c, status, rep),
           status = "REPLY" => rep = request[c].tok,
           UNCHANGED <<nextId, drawn>>
    PROVE  /\ \A d \in Contexts : Genuine(request'[d]) /\ Genuine(reply'[d])
           /\ IdsAreOrdinals'
           /\ CallsHoldTheirRequest'
           /\ CallGetsOwnReply'
  <1>1. Genuine(Blank) /\ Blank.cookie = UserCookie
    BY UserGenuine DEF Blank
  <1>2. \A d \in Contexts : Genuine(request'[d]) /\ Genuine(reply'[d])
    BY <1>1 DEF Return, OwnReplyInv, EntriesGenuine, TypeOK
  <1>3. IdsAreOrdinals'
    BY DEF Return, OwnReplyInv, IdsAreOrdinals, TypeOK
  <1>4. CallsHoldTheirRequest'
    BY <1>1 DEF Return, OwnReplyInv, CallsHoldTheirRequest, TypeOK
  <1>5. CallGetsOwnReply'
    BY DEF Return, OwnReplyInv, CallGetsOwnReply, TypeOK
  <1>6. QED
    BY <1>2, <1>3, <1>4, <1>5

\* Where the completion that was read passes the comparison of zz9k_call, it
\* answers this very request.
LEMMA MatchIsOwn ==
    ASSUME OwnReplyInv, DistinctMasksHyp, NEW c \in Contexts,
           kind[c] = "call", pc[c] = "read", ReplyMatches(reply[c], request[c])
    PROVE  reply[c].tok = request[c].tok
  <1>1. /\ request[c].cookie = SyncCookie(c, request[c].id)
        /\ request[c].tok = [ctx |-> c, n |-> request[c].id]
    BY DEF OwnReplyInv, CallsHoldTheirRequest
  <1>2. reply[c].id = request[c].id /\ reply[c].cookie = request[c].cookie
    BY DEF ReplyMatches
  <1>3. reply[c].cookie.mask = Mask[c] /\ Mask[c] # NoMask
    BY <1>1, <1>2, MailboxAssumption DEF SyncCookie
  <1>4. PICK d \in Contexts : /\ reply[c].cookie = SyncCookie(d, reply[c].id)
                              /\ reply[c].tok = [ctx |-> d, n |-> reply[c].id]
    BY <1>3 DEF OwnReplyInv, EntriesGenuine, Genuine
  <1>5. Mask[d] = Mask[c]
    BY <1>3, <1>4 DEF SyncCookie
  <1>6. d = c
    BY <1>5 DEF DistinctMasksHyp
  <1>7. QED
    BY <1>1, <1>2, <1>4, <1>6

\* One step of any actor keeps the invariant.
LEMMA OwnReplyStep ==
    ASSUME OwnReplyInv, TypeOK', DistinctMasksHyp, [Next]_vars
    PROVE  OwnReplyInv'
  <1> USE MailboxAssumption
  <1> USE DEF rings, locals, ghosts
  <1>0. TypeOK
    BY DEF OwnReplyInv
  <1>1. ASSUME NEW c \in Contexts, Attach(c) \/ Close(c)
        PROVE  OwnReplyInv'
    <2>0. /\ UNCHANGED <<reqRing, cmpRing, working, kind, request, reply, ret, drawn>>
          /\ pc[c] \in {"new", "idle"}
          /\ \E p \in {"idle", "closed"} : pc' = [pc EXCEPT ![c] = p]
          /\ \/ nextId' = nextId
             \/ pc[c] = "new" /\ nextId' = [nextId EXCEPT ![c] = 1]
      <3>1. CASE Attach(c)
        BY <3>1 DEF Attach
      <3>2. CASE Close(c)
        <4>1. pc[c] = "idle" /\ pc' = [pc EXCEPT ![c] = "closed"]
          BY <3>2 DEF Close
        <4>2. UNCHANGED <<reqRing, cmpRing, working, kind, request, reply, ret,
                          drawn, nextId>>
          BY <3>2 DEF Close
        <4>3. QED
          BY <4>1, <4>2
      <3>3. QED
        BY <1>1, <3>1, <3>2
    <2>1. EntriesGenuine' /\ CallGetsOwnReply'
      BY <2>0 DEF OwnReplyInv, EntriesGenuine, CallGetsOwnReply, Genuine
    <2> HIDE DEF rings, locals, ghosts
    <2>2. IdsAreOrdinals'
      <3>1. PICK p \in {"idle", "closed"} : pc' = [pc EXCEPT ![c] = p]
        BY <2>0
      <3>2. \A d \in Contexts : drawn[d] < MaxRequests => nextId'[d] = drawn[d] + 1
        BY SMTT(30), <1>0, <2>0 DEF OwnReplyInv, IdsAreOrdinals, TypeOK
      <3>3. QED
        BY <1>0, <2>0, <3>1, <3>2 DEF OwnReplyInv, IdsAreOrdinals, TypeOK
    <2>3. CallsHoldTheirRequest'
      BY <1>0, <2>0 DEF OwnReplyInv, CallsHoldTheirRequest, TypeOK
    <2>4. QED
      BY <2>1, <2>2, <2>3 DEF OwnReplyInv
  <1>2. ASSUME NEW c \in Contexts, Obtain(c)
        PROVE  OwnReplyInv'
    <2>1. EntriesGenuine' /\ CallGetsOwnReply'
      BY <1>2 DEF Obtain, OwnReplyInv, EntriesGenuine, CallGetsOwnReply, Genuine
    <2>2. IdsAreOrdinals'
      BY <1>2, <1>0 DEF Obtain, OwnReplyInv, IdsAreOrdinals, TypeOK
    <2>3. CallsHoldTheirRequest'
      BY <1>2, <1>0 DEF Obtain, OwnReplyInv, CallsHoldTheirRequest, TypeOK
    <2>4. QED
      BY <2>1, <2>2, <2>3 DEF OwnReplyInv
  <1>3. ASSUME NEW c \in Contexts, NEW k \in {"submit", "call", "poll"},
               NEW op \in Opcodes \cup {NoOp}, Begin(c, k, op)
        PROVE  OwnReplyInv'
    <2>1. [Blank EXCEPT !.op = op].cookie = UserCookie
      BY DEF Blank
    <2>2. Genuine([Blank EXCEPT !.op = op])
      BY <2>1, UserGenuine
    <2>3. EntriesGenuine'
      BY <1>3, <1>0, <2>2 DEF Begin, OwnReplyInv, EntriesGenuine, TypeOK
    <2>4. CallGetsOwnReply'
      BY <1>3, <1>0 DEF Begin, OwnReplyInv, CallGetsOwnReply, NoResult, TypeOK
    <2>5. IdsAreOrdinals'
      BY <1>3, <1>0 DEF Begin, OwnReplyInv, IdsAreOrdinals, TypeOK
    <2>6. CallsHoldTheirRequest'
      BY <1>3, <1>0, <2>1 DEF Begin, OwnReplyInv, CallsHoldTheirRequest, TypeOK
    <2>7. QED
      BY <2>3, <2>4, <2>5, <2>6 DEF OwnReplyInv
  <1>4. ASSUME NEW c \in Contexts, CallDraw(c)
        PROVE  OwnReplyInv'
    <2> DEFINE q == [WithNewId(c, request[c])
                        EXCEPT !.cookie = SyncCookie(c, nextId[c])]
    <2>1. /\ drawn[c] < MaxRequests /\ nextId[c] = drawn[c] + 1
          /\ kind[c] = "call"
      BY <1>4 DEF CallDraw, OwnReplyInv, IdsAreOrdinals
    <2>2. request[c] \in Entry /\ drawn[c] \in Nat /\ nextId[c] \in Nat
      BY <1>0 DEF TypeOK
    <2>3. WithNewId(c, request[c]) \in Entry
      BY <1>0, <2>2, WithNewIdType
    <2>4. /\ q.id = nextId[c]
          /\ q.tok = [ctx |-> c, n |-> nextId[c]]
          /\ q.cookie = SyncCookie(c, nextId[c])
      BY <2>1, <2>2, <2>3, WithNewIdFields DEF Entry
    <2>5. Genuine(q)
      BY <2>4 DEF Genuine
    <2>6. request' = [request EXCEPT ![c] = q]
      BY <1>4 DEF CallDraw
    <2> HIDE DEF q
    <2>7. EntriesGenuine'
      BY <1>4, <1>0, <2>5, <2>6 DEF CallDraw, OwnReplyInv, EntriesGenuine, TypeOK
    <2>8. CallGetsOwnReply'
      BY <1>4 DEF CallDraw, OwnReplyInv, CallGetsOwnReply
    <2>9. nextId'[c] = drawn[c] + 2 \/ drawn[c] + 1 = MaxRequests
      BY SMTT(30), <1>4, <1>0, <2>1, <2>2
      DEF CallDraw, DrawId, NextRequestId, TypeOK
    <2>10. IdsAreOrdinals'
      <3>1. drawn'[c] = drawn[c] + 1
        BY <1>4, <1>0 DEF CallDraw, DrawId, TypeOK
      <3>2. ASSUME NEW d \in Contexts, d # c
            PROVE  drawn'[d] = drawn[d] /\ nextId'[d] = nextId[d] /\ pc'[d] = pc[d]
        BY <1>4, <1>0, <3>2 DEF CallDraw, DrawId, TypeOK
      <3>3. pc'[c] = "enqueue" /\ kind' = kind
        BY <1>4, <1>0 DEF CallDraw, TypeOK
      <3>4. QED
        BY <2>1, <2>2, <2>9, <3>1, <3>2, <3>3 DEF OwnReplyInv, IdsAreOrdinals
    <2>11. CallsHoldTheirRequest'
      <3>1. ASSUME NEW d \in Contexts, d # c
            PROVE  request'[d] = request[d] /\ pc'[d] = pc[d]
        BY <1>4, <1>0, <3>1 DEF CallDraw, TypeOK
      <3>2. request'[c] = q /\ pc'[c] = "enqueue" /\ kind' = kind
        BY <1>4, <1>0, <2>6 DEF CallDraw, TypeOK
      <3>3. nextId[c] # 0
        BY <2>1, <2>2
      <3>4. QED
        BY <2>1, <2>4, <3>1, <3>2, <3>3
        DEF OwnReplyInv, CallsHoldTheirRequest
    <2>12. QED
      BY <2>7, <2>8, <2>10, <2>11 DEF OwnReplyInv
  <1>5. ASSUME NEW c \in Contexts, EnqueueRefused(c)
        PROVE  OwnReplyInv'
    <2>1. PICK s \in Statuses : s # "REPLY" /\ Return(c, s, NoTok)
      BY <1>5 DEF EnqueueRefused, Statuses
    <2>2. UNCHANGED <<reqRing, cmpRing, working, nextId, drawn>>
      BY <1>5 DEF EnqueueRefused
    <2>3. QED
      BY <2>1, <2>2, ReturnKeepsInv, BlankTypes DEF OwnReplyInv, EntriesGenuine
  <1>6. ASSUME NEW c \in Contexts, EnqueueWrite(c)
        PROVE  OwnReplyInv'
    <2> DEFINE q == IF request[c].id = 0 THEN WithNewId(c, request[c])
                                         ELSE request[c]
    <2>1. request[c] \in Entry /\ drawn[c] \in Nat /\ nextId[c] \in Nat
      BY <1>0 DEF TypeOK
    <2>2. pc[c] = "enqueue"
      BY <1>6 DEF EnqueueWrite
    <2>3. kind[c] = "call" => /\ q = request[c]
                              /\ UNCHANGED <<nextId, drawn>>
      BY <1>6, <2>2 DEF EnqueueWrite, OwnReplyInv, CallsHoldTheirRequest
    <2>4. kind[c] # "call" => q.cookie = UserCookie
      BY <2>1, WithNewIdFields DEF OwnReplyInv, CallsHoldTheirRequest
    <2>5. Genuine(q)
      BY <2>3, <2>4, UserGenuine DEF OwnReplyInv, EntriesGenuine
    <2>6. /\ request' = [request EXCEPT ![c] = q]
          /\ reqRing' = [reqRing EXCEPT ![reqTail] = q]
          /\ pc' = [pc EXCEPT ![c] = "written"]
          /\ UNCHANGED <<cmpRing, working, reply, kind, ret>>
      BY <1>6 DEF EnqueueWrite
    <2> HIDE DEF q
    <2>7. EntriesGenuine'
      BY <1>0, <2>5, <2>6 DEF OwnReplyInv, EntriesGenuine, TypeOK
    <2>8. CallGetsOwnReply'
      BY <2>6 DEF OwnReplyInv, CallGetsOwnReply
    <2>9. CallsHoldTheirRequest'
      BY <1>0, <2>2, <2>3, <2>4, <2>6 DEF OwnReplyInv, CallsHoldTheirRequest, TypeOK
    <2>10. IdsAreOrdinals'
      <3>1. CASE UNCHANGED <<nextId, drawn>>
        BY <1>0, <2>6, <3>1 DEF OwnReplyInv, IdsAreOrdinals, TypeOK
      <3>2. CASE kind[c] # "call" /\ DrawId(c)
        <4>1. kind[c] # "poll" => drawn[c] < MaxRequests /\ nextId[c] = drawn[c] + 1
          BY <1>0, <2>2, <3>2 DEF OwnReplyInv, IdsAreOrdinals, TypeOK
        <4>2. drawn'[c] = drawn[c] + 1
          BY <1>0, <3>2 DEF DrawId, TypeOK
        <4>3. drawn[c] < MaxRequests => nextId[c] = drawn[c] + 1
          BY DEF OwnReplyInv, IdsAreOrdinals
        <4>4. nextId'[c] = NextRequestId(nextId[c])
          BY <1>0, <3>2 DEF DrawId, TypeOK
        <4>5. drawn'[c] < MaxRequests => nextId'[c] = drawn'[c] + 1
          BY <2>1, <4>2, <4>3, <4>4 DEF NextRequestId
        <4>6. ASSUME NEW d \in Contexts, d # c
              PROVE  drawn'[d] = drawn[d] /\ nextId'[d] = nextId[d] /\ pc'[d] = pc[d]
          BY <1>0, <2>6, <3>2, <4>6 DEF DrawId, TypeOK
        <4>7. pc'[c] = "written" /\ kind' = kind
          BY <1>0, <2>6 DEF TypeOK
        <4>8. QED
          BY <4>5, <4>6, <4>7 DEF OwnReplyInv, IdsAreOrdinals
      <3>3. QED
        BY <1>6, <2>3, <3>1, <3>2 DEF EnqueueWrite
    <2>11. QED
      BY <2>7, <2>8, <2>9, <2>10 DEF OwnReplyInv
  <1>7. ASSUME NEW c \in Contexts,
               EnqueuePublish(c) \/ CallIdle(c) \/ ConsumeNothing(c) \/ Tick(c)
        PROVE  OwnReplyInv'
    <2>1. UNCHANGED <<reqRing, cmpRing, working, nextId, drawn>>
      BY <1>7 DEF EnqueuePublish, CallIdle, ConsumeNothing, Tick
    <2>2. CASE \E s \in Statuses : s # "REPLY" /\ Return(c, s, NoTok)
      BY <2>1, <2>2, ReturnKeepsInv, BlankTypes DEF OwnReplyInv, EntriesGenuine
    <2>3. CASE ~\E s \in Statuses : s # "REPLY" /\ Return(c, s, NoTok)
      <3>1. /\ UNCHANGED <<kind, request, reply, ret>>
            /\ pc[c] \in {"written", "queued", "wait", "tick"}
            /\ \E p \in {"queued", "tick", "wait"} : pc' = [pc EXCEPT ![c] = p]
        BY <1>7, <2>3
        DEF EnqueuePublish, CallIdle, ConsumeNothing, Tick, Statuses
      <3>2. PICK p \in {"queued", "tick", "wait"} : pc' = [pc EXCEPT ![c] = p]
        BY <3>1
      <3>3. EntriesGenuine' /\ CallGetsOwnReply'
        BY <2>1, <3>1 DEF OwnReplyInv, EntriesGenuine, CallGetsOwnReply, Genuine
      <3>4. IdsAreOrdinals'
        BY <1>0, <2>1, <3>1, <3>2 DEF OwnReplyInv, IdsAreOrdinals, TypeOK
      <3>5. CallsHoldTheirRequest'
        BY <1>0, <2>1, <3>1, <3>2 DEF OwnReplyInv, CallsHoldTheirRequest, TypeOK
      <3>6. QED
        BY <3>3, <3>4, <3>5 DEF OwnReplyInv
    <2>4. QED
      BY <2>2, <2>3
  <1>8. ASSUME NEW c \in Contexts, ConsumeRead(c)
        PROVE  OwnReplyInv'
    <2>1. Genuine(cmpRing[cmpHead])
      BY <1>0 DEF OwnReplyInv, EntriesGenuine, TypeOK
    <2>2. EntriesGenuine'
      BY <1>8, <1>0, <2>1 DEF ConsumeRead, OwnReplyInv, EntriesGenuine, TypeOK
    <2>3. CallGetsOwnReply'
      BY <1>8 DEF ConsumeRead, OwnReplyInv, CallGetsOwnReply
    <2>4. IdsAreOrdinals'
      BY <1>8, <1>0 DEF ConsumeRead, OwnReplyInv, IdsAreOrdinals, TypeOK
    <2>5. CallsHoldTheirRequest'
      BY <1>8, <1>0 DEF ConsumeRead, OwnReplyInv, CallsHoldTheirRequest, TypeOK
    <2>6. QED
      BY <2>2, <2>3, <2>4, <2>5 DEF OwnReplyInv
  <1>9. ASSUME NEW c \in Contexts, ConsumeRetire(c)
        PROVE  OwnReplyInv'
    <2>1. UNCHANGED <<reqRing, cmpRing, working, nextId, drawn>>
      BY <1>9 DEF ConsumeRetire
    <2>2. reply[c].tok \in Token
      BY <1>0 DEF TypeOK, Entry
    <2>3. CASE kind[c] = "poll" /\ Return(c, "POLLED", reply[c].tok)
      BY <2>1, <2>2, <2>3, ReturnKeepsInv
      DEF OwnReplyInv, EntriesGenuine, Statuses
    <2>4. CASE /\ kind[c] = "call" /\ ReplyMatches(reply[c], request[c])
               /\ Return(c, "REPLY", reply[c].tok)
      <3>1. reply[c].tok = request[c].tok
        BY <1>9, <2>4, MatchIsOwn DEF ConsumeRetire
      <3>2. QED
        BY <2>1, <2>2, <2>4, <3>1, ReturnKeepsInv
        DEF OwnReplyInv, EntriesGenuine, Statuses
    <2>5. CASE /\ kind[c] = "call" /\ ~ReplyMatches(reply[c], request[c])
               /\ pc' = [pc EXCEPT ![c] = "tick"]
               /\ UNCHANGED <<lock, locals, ret>>
      <3>1. EntriesGenuine' /\ CallGetsOwnReply'
        BY <2>1, <2>5 DEF OwnReplyInv, EntriesGenuine, CallGetsOwnReply, Genuine
      <3>2. IdsAreOrdinals'
        BY <1>9, <1>0, <2>1, <2>5
        DEF ConsumeRetire, OwnReplyInv, IdsAreOrdinals, TypeOK
      <3>3. CallsHoldTheirRequest'
        BY <1>9, <1>0, <2>1, <2>5
        DEF ConsumeRetire, OwnReplyInv, CallsHoldTheirRequest, TypeOK
      <3>4. QED
        BY <3>1, <3>2, <3>3 DEF OwnReplyInv
    <2>6. QED
      BY <1>9, <2>3, <2>4, <2>5 DEF ConsumeRetire
  <1>10. CASE FwTake
    <2>1. Genuine(reqRing[reqHead])
      BY <1>0 DEF OwnReplyInv, EntriesGenuine, TypeOK
    <2>2. EntriesGenuine'
      BY <1>10, <2>1 DEF FwTake, OwnReplyInv, EntriesGenuine
    <2>3. IdsAreOrdinals' /\ CallsHoldTheirRequest' /\ CallGetsOwnReply'
      BY <1>10 DEF FwTake, OwnReplyInv, IdsAreOrdinals, CallsHoldTheirRequest,
                   CallGetsOwnReply
    <2>4. QED
      BY <2>2, <2>3 DEF OwnReplyInv
  <1>11. ASSUME NEW e \in working, FwComplete(e)
         PROVE  OwnReplyInv'
    <2>1. Genuine(e)
      BY DEF OwnReplyInv, EntriesGenuine
    <2>2. EntriesGenuine'
      BY <1>11, <1>0, <2>1 DEF FwComplete, OwnReplyInv, EntriesGenuine, TypeOK
    <2>3. IdsAreOrdinals' /\ CallsHoldTheirRequest' /\ CallGetsOwnReply'
      BY <1>11 DEF FwComplete, OwnReplyInv, IdsAreOrdinals,
                   CallsHoldTheirRequest, CallGetsOwnReply
    <2>4. QED
      BY <2>2, <2>3 DEF OwnReplyInv
  <1>12. CASE BoardDies \/ UNCHANGED vars
    <2>1. UNCHANGED <<reqRing, cmpRing, working, request, reply, kind, pc, ret,
                      nextId, drawn>>
      BY <1>12 DEF BoardDies, vars
    <2>2. QED
      BY <2>1 DEF OwnReplyInv, EntriesGenuine, IdsAreOrdinals,
                  CallsHoldTheirRequest, CallGetsOwnReply, Genuine
  <1>13. QED
    BY <1>1, <1>2, <1>3, <1>4, <1>5, <1>6, <1>7, <1>8, <1>9, <1>10, <1>11, <1>12
    DEF Next, Step

\* When no two attachments share a cookie mask, zz9k_call returns only the
\* reply to its own request: for any number of contexts, any rings, any
\* schedule, any delay of the firmware, as long as no context draws more than
\* IdLimit ids.  mailbox_reattach shows that the hypothesis is needed.
THEOREM OwnReply ==
    ASSUME DistinctMasksHyp
    PROVE  Spec => []CallGetsOwnReply
  <1>1. Init => OwnReplyInv
    <2> SUFFICES ASSUME Init PROVE OwnReplyInv
      OBVIOUS
    <2>1. TypeOK
      BY MailboxAssumption, BlankTypes DEF Init, InitAt, TypeOK, Phases
    <2>2. Genuine(Blank) /\ Blank.cookie = UserCookie
      BY UserGenuine DEF Blank
    <2>3. EntriesGenuine
      BY <2>2 DEF Init, InitAt, EntriesGenuine
    <2>4. IdsAreOrdinals
      BY DEF Init, InitAt, IdsAreOrdinals
    <2>5. CallsHoldTheirRequest
      BY <2>2 DEF Init, InitAt, CallsHoldTheirRequest
    <2>6. CallGetsOwnReply
      BY DEF Init, InitAt, CallGetsOwnReply, NoResult
    <2>7. QED
      BY <2>1, <2>3, <2>4, <2>5, <2>6 DEF OwnReplyInv
  <1>2. OwnReplyInv /\ TypeOK' /\ [Next]_vars => OwnReplyInv'
    BY OwnReplyStep
  <1>3. OwnReplyInv => CallGetsOwnReply
    BY DEF OwnReplyInv
  <1>4. QED
    BY <1>1, <1>2, <1>3, TypeCorrect, PTL DEF Spec

---------------------------------------------------------------------------
\* Ring arithmetic without the remainder.

\* The number of messages between head and tail.
Held(head, tail, entries) ==
    IF tail >= head THEN tail - head ELSE tail + entries - head

\* The slot of the i-th message.
Slot(head, i, entries) ==
    IF head + i - 1 < entries THEN head + i - 1 ELSE head + i - 1 - entries

\* The remainders of Messages resolved (below twice its modulus a remainder is
\* one comparison); its slots never include the tail's.
LEMMA WindowForm ==
    ASSUME NEW n \in Nat, n >= 2, NEW h \in 0..(n - 1), NEW t \in 0..(n - 1)
    PROVE  /\ Held(h, t, n) \in 0..(n - 1)
           /\ (t + n - h) % n = Held(h, t, n)
           /\ \A i \in 1..Held(h, t, n) :
                 /\ Slot(h, i, n) \in (0..(n - 1)) \ {t}
                 /\ (h + i - 1) % n = Slot(h, i, n)
  <1>1. Held(h, t, n) \in 0..(n - 1)
    BY DEF Held
  <1>2. (t + n - h) % n = Held(h, t, n)
    <2> DEFINE a == t + n - h
    <2>1. a \in 0..(2 * n - 1)
      OBVIOUS
    <2>2. Held(h, t, n) = IF a < n THEN a ELSE a - n
      BY DEF Held
    <2> HIDE DEF a
    <2>3. a % n = Held(h, t, n)
      BY <2>1, <2>2
    <2>4. QED
      BY <2>3 DEF a
  <1>3. ASSUME NEW i \in 1..Held(h, t, n)
        PROVE  /\ Slot(h, i, n) \in (0..(n - 1)) \ {t}
               /\ (h + i - 1) % n = Slot(h, i, n)
    <2> DEFINE a == h + i - 1
    <2>1. a \in 0..(2 * n - 1)
      BY <1>1
    <2>2. Slot(h, i, n) = IF a < n THEN a ELSE a - n
      BY DEF Slot
    <2>3. Slot(h, i, n) \in (0..(n - 1)) \ {t}
      BY DEF Slot, Held
    <2> HIDE DEF a
    <2>4. a % n = Slot(h, i, n)
      BY <2>1, <2>2
    <2>5. QED
      BY <2>3, <2>4 DEF a
  <1>4. QED
    BY <1>1, <1>2, <1>3

\* A ring of n entries from S, one of its slots, and two rings that differ in
\* one slot at most.
IsRing(ring, n, S) == n \in Nat /\ n >= 2 /\ ring \in [0..(n - 1) -> S]
IsSlot(i, n) == i \in 0..(n - 1)
DifferAt(ring, ring2, t, n) == \A i \in (0..(n - 1)) \ {t} : ring2[i] = ring[i]

\* Hence the messages of a ring are a sequence, as long as the window.
LEMMA MessagesSeq ==
    ASSUME NEW n, NEW S, NEW ring, IsRing(ring, n, S),
           NEW h, NEW t, IsSlot(h, n), IsSlot(t, n)
    PROVE  /\ Messages(ring, h, t, n) \in Seq(S)
           /\ Len(Messages(ring, h, t, n)) = Held(h, t, n)
           /\ \A i \in 1..Held(h, t, n) :
                 Messages(ring, h, t, n)[i] = ring[Slot(h, i, n)]
  <1> USE DEF IsRing, IsSlot, DifferAt
  <1> DEFINE m == Messages(ring, h, t, n)
             k == Held(h, t, n)
  <1>1. /\ k \in 0..(n - 1)
        /\ \A i \in 1..k : /\ Slot(h, i, n) \in 0..(n - 1)
                           /\ (h + i - 1) % n = Slot(h, i, n)
        /\ (t + n - h) % n = k
    BY WindowForm
  <1> HIDE DEF k
  <1>2. m = [i \in 1..k |-> ring[(h + i - 1) % n]]
    BY <1>1 DEF Messages
  <1> HIDE DEF m
  <1>3. m \in [1..k -> S] /\ \A i \in 1..k : m[i] = ring[Slot(h, i, n)]
    BY <1>1, <1>2
  <1>4. m \in Seq(S) /\ Len(m) = k
    BY <1>1, <1>3
  <1>5. QED
    BY <1>3, <1>4 DEF m, k

---------------------------------------------------------------------------
\* The three ways to touch a ring.

\* Writing the slot at the tail leaves the messages alone
\* (zz9k_enqueue_request_locked before it moves the tail).
LEMMA WriteAtTail ==
    ASSUME NEW n, NEW S, NEW ring, NEW ring2, NEW h, NEW t,
           IsRing(ring, n, S), IsRing(ring2, n, S), IsSlot(h, n), IsSlot(t, n),
           DifferAt(ring, ring2, t, n)
    PROVE  Messages(ring2, h, t, n) = Messages(ring, h, t, n)
  <1> DEFINE m == Messages(ring, h, t, n)
             m2 == Messages(ring2, h, t, n)
             k == Held(h, t, n)
  <1>1. /\ m \in Seq(S) /\ Len(m) = k
        /\ \A i \in 1..k : m[i] = ring[Slot(h, i, n)]
    BY MessagesSeq
  <1>2. /\ m2 \in Seq(S) /\ Len(m2) = k
        /\ \A i \in 1..k : m2[i] = ring2[Slot(h, i, n)]
    BY MessagesSeq
  <1>3. k \in 0..(n - 1) /\ \A i \in 1..k : Slot(h, i, n) \in (0..(n - 1)) \ {t}
    BY WindowForm DEF IsRing, IsSlot
  <1>4. \A i \in 1..k : ring2[Slot(h, i, n)] = ring[Slot(h, i, n)]
    BY <1>3 DEF DifferAt
  <1> HIDE DEF m, m2, k
  <1>5. m2 = m
    BY <1>1, <1>2, <1>3, <1>4
  <1>6. QED
    BY <1>5 DEF m, m2

\* Moving the tail of a ring that is not full appends what the slot holds.
LEMMA TailMoves ==
    ASSUME NEW n, NEW S, NEW ring, NEW ring2, NEW h, NEW t,
           IsRing(ring, n, S), IsRing(ring2, n, S), IsSlot(h, n), IsSlot(t, n),
           DifferAt(ring, ring2, t, n),
           NextRingIndex(t, n) # h
    PROVE  /\ Messages(ring2, h, NextRingIndex(t, n), n) =
                 Append(Messages(ring, h, t, n), ring2[t])
           /\ Len(Messages(ring, h, t, n)) < n - 1
  <1> DEFINE t2 == NextRingIndex(t, n)
             m == Messages(ring, h, t, n)
             m2 == Messages(ring2, h, t2, n)
             k == Held(h, t, n)
  <1>1. /\ m \in Seq(S) /\ Len(m) = k
        /\ \A i \in 1..k : m[i] = ring[Slot(h, i, n)]
    BY MessagesSeq
  <1>2. /\ m2 \in Seq(S) /\ Len(m2) = Held(h, t2, n)
        /\ \A i \in 1..Held(h, t2, n) : m2[i] = ring2[Slot(h, i, n)]
    <2>1. IsSlot(t2, n)
      BY NextRingIndexInRange DEF IsRing, IsSlot
    <2> HIDE DEF t2
    <2>2. QED
      BY <2>1, MessagesSeq
  <1> USE DEF IsRing, IsSlot, DifferAt
  <1>3. /\ k \in 0..(n - 2)
        /\ Held(h, t2, n) = k + 1
        /\ Slot(h, k + 1, n) = t
    BY DEF Held, Slot, NextRingIndex
  <1>4. \A i \in 1..k : ring2[Slot(h, i, n)] = ring[Slot(h, i, n)]
    BY WindowForm
  <1>5. ring2[t] \in S
    OBVIOUS
  <1> HIDE DEF m, m2, k, t2
  <1>6. Append(m, ring2[t]) \in Seq(S) /\ Len(Append(m, ring2[t])) = k + 1
    BY SMTT(30), <1>1, <1>5
  <1>7. \A i \in 1..(k + 1) : m2[i] = Append(m, ring2[t])[i]
    BY SMTT(30), <1>1, <1>2, <1>3, <1>4, <1>5
  <1>8. m2 = Append(m, ring2[t])
    BY <1>2, <1>3, <1>6, <1>7
  <1>9. QED
    BY <1>1, <1>3, <1>8 DEF m, m2, t2

\* Moving the head of a ring that is not empty takes its oldest message.
LEMMA HeadMoves ==
    ASSUME NEW n, NEW S, NEW ring, IsRing(ring, n, S),
           NEW h, NEW t, IsSlot(h, n), IsSlot(t, n), h # t
    PROVE  LET m == Messages(ring, h, t, n)
           IN /\ m # <<>> /\ m[1] = ring[h]
              /\ Messages(ring, NextRingIndex(h, n), t, n) = Tail(m)
  <1> DEFINE h2 == NextRingIndex(h, n)
             m == Messages(ring, h, t, n)
             m2 == Messages(ring, h2, t, n)
             k == Held(h, t, n)
  <1>1. /\ m \in Seq(S) /\ Len(m) = k
        /\ \A i \in 1..k : m[i] = ring[Slot(h, i, n)]
    BY MessagesSeq
  <1>2. /\ m2 \in Seq(S) /\ Len(m2) = Held(h2, t, n)
        /\ \A i \in 1..Held(h2, t, n) : m2[i] = ring[Slot(h2, i, n)]
    <2>1. IsSlot(h2, n)
      BY NextRingIndexInRange DEF IsRing, IsSlot
    <2> HIDE DEF h2
    <2>2. QED
      BY <2>1, MessagesSeq
  <1> USE DEF IsRing, IsSlot
  <1>3. /\ k \in 1..(n - 1)
        /\ Held(h2, t, n) = k - 1
        /\ Slot(h, 1, n) = h
        /\ \A i \in 1..(k - 1) : Slot(h2, i, n) = Slot(h, i + 1, n)
    BY DEF Held, Slot, NextRingIndex
  <1> HIDE DEF m, m2, k, h2
  <1>4. m # <<>> /\ m[1] = ring[h]
    BY <1>1, <1>3
  <1>5. Tail(m) \in Seq(S) /\ Len(Tail(m)) = k - 1
    BY <1>1, <1>3, <1>4
  <1>6. \A i \in 1..(k - 1) : m2[i] = Tail(m)[i]
    <2>1. SUFFICES ASSUME NEW i \in 1..(k - 1) PROVE m2[i] = Tail(m)[i]
      OBVIOUS
    <2>2. i \in 1..(Len(m) - 1) /\ i + 1 \in 1..k
      BY <1>1, <1>3
    <2>3. Tail(m)[i] = m[i + 1]
      BY <1>1, <1>4, <2>2
    <2>4. QED
      BY <1>1, <1>2, <1>3, <2>2, <2>3
  <1>7. m2 = Tail(m)
    BY <1>2, <1>3, <1>5, <1>6
  <1>8. QED
    BY <1>4, <1>7 DEF m, m2, h2

---------------------------------------------------------------------------
\* Who may touch the rings.

\* The phases in which an operation holds the semaphore.
Inside == {"draw", "enqueue", "written", "queued", "wait", "read", "tick"}

\* One context at a time is inside.  Between the write of its entry and the
\* move of the tail the slot at the tail is its own and there is room for it;
\* between the read of a completion and the move of the head the head still
\* points at what it read.  The firmware may move the other end of either ring
\* at any of these points.
HandsOnRings ==
    \A c \in Contexts :
        /\ pc[c] \in Inside => lock = c
        /\ pc[c] = "written" => ~RequestRingFull /\ reqRing[reqTail] = request[c]
        /\ pc[c] = "read" => ~CompletionRingEmpty /\ reply[c] = cmpRing[cmpHead]

\* The steps that touch neither ring.
Quiet(c) ==
    \/ Attach(c) \/ Close(c) \/ Obtain(c) \/ CallDraw(c) \/ EnqueueRefused(c)
    \/ CallIdle(c) \/ ConsumeNothing(c) \/ ConsumeRead(c) \/ Tick(c)
    \/ \E k \in {"submit", "call"}, op \in Opcodes : Begin(c, k, op)
    \/ Begin(c, "poll", NoOp)

\* Where they leave the context, and what they know of it.
LEMMA QuietStep ==
    ASSUME TypeOK, HandsOnRings, NEW c \in Contexts, Quiet(c)
    PROVE  /\ UNCHANGED <<rings, working, ghosts>>
           /\ \A d \in Contexts \ {c} : /\ pc'[d] = pc[d]
                                        /\ request'[d] = request[d]
                                        /\ reply'[d] = reply[d]
                                        /\ drawn'[d] = drawn[d]
           /\ pc'[c] # "written"
           /\ pc'[c] = "read" => ~CompletionRingEmpty /\ reply'[c] = cmpRing[cmpHead]
           /\ \/ pc'[c] \notin Inside /\ lock' = lock /\ pc[c] \notin Inside
              \/ pc'[c] \notin Inside /\ lock' = NoCtx /\ pc[c] \in Inside
              \/ /\ pc'[c] \in Inside /\ lock' = c
                 /\ \/ pc[c] \in Inside /\ lock' = lock
                    \/ lock = NoCtx
  <1> USE DEF rings, ghosts, locals, HandsOnRings
  <1>1. CASE Attach(c) \/ Close(c)
    BY <1>1 DEF Attach, Close, TypeOK, Inside
  <1>2. CASE Obtain(c)
    BY <1>2 DEF Obtain, TypeOK, Inside
  <1>3. CASE CallDraw(c)
    BY <1>3 DEF CallDraw, DrawId, TypeOK, Inside
  <1>4. CASE EnqueueRefused(c)
    BY <1>4 DEF EnqueueRefused, Return, Unlock, TypeOK, Inside
  <1>5. CASE CallIdle(c)
    BY <1>5 DEF CallIdle, Return, Unlock, TypeOK, Inside
  <1>6. CASE ConsumeNothing(c)
    BY <1>6 DEF ConsumeNothing, Return, Unlock, TypeOK, Inside
  <1>7. CASE ConsumeRead(c)
    BY <1>7 DEF ConsumeRead, TypeOK, Inside
  <1>8. CASE Tick(c)
    BY <1>8 DEF Tick, Return, Unlock, TypeOK, Inside
  <1>9. ASSUME NEW k \in {"submit", "call", "poll"},
               NEW op \in Opcodes \cup {NoOp}, Begin(c, k, op)
        PROVE  /\ UNCHANGED <<rings, working, ghosts, lock>>
               /\ \A d \in Contexts \ {c} : /\ pc'[d] = pc[d]
                                            /\ request'[d] = request[d]
                                            /\ reply'[d] = reply[d]
                                            /\ drawn'[d] = drawn[d]
               /\ pc'[c] = "obtain" /\ pc[c] = "idle"
    BY <1>9 DEF Begin, TypeOK
  <1>10. QED
    BY <1>1, <1>2, <1>3, <1>4, <1>5, <1>6, <1>7, <1>8, <1>9 DEF Quiet, Inside

\* Every step is one of six kinds.
LEMMA StepKinds ==
    ASSUME [Next]_vars
    PROVE  \/ \E c \in Contexts : \/ Quiet(c) \/ EnqueueWrite(c)
                                  \/ EnqueuePublish(c) \/ ConsumeRetire(c)
           \/ FwTake
           \/ \E e \in working : FwComplete(e)
           \/ BoardDies
           \/ UNCHANGED vars
  BY DEF Next, Step, Quiet

---------------------------------------------------------------------------
\* Exclusion, and the entries in hand.

LEMMA HandsInit == Init => HandsOnRings
  BY DEF Init, InitAt, HandsOnRings, Inside

LEMMA HandsStep ==
    ASSUME TypeOK, HandsOnRings, [Next]_vars
    PROVE  HandsOnRings'
  <1> USE MailboxAssumption
  <1>1. ASSUME NEW c \in Contexts, Quiet(c)
        PROVE  HandsOnRings'
    <2>1. /\ UNCHANGED <<reqRing, reqHead, reqTail, cmpRing, cmpHead, cmpTail>>
          /\ UNCHANGED <<RequestRingFull, CompletionRingEmpty>>
      BY <1>1, QuietStep DEF rings, RequestRingFull, CompletionRingEmpty
    <2>2. ASSUME NEW d \in Contexts, d # c
          PROVE  /\ pc'[d] = pc[d] /\ request'[d] = request[d] /\ reply'[d] = reply[d]
                 /\ pc[d] \in Inside => lock' = d
      BY <1>1, <2>2, QuietStep DEF HandsOnRings
    <2>3. /\ pc'[c] \in Inside => lock' = c
          /\ pc'[c] # "written"
          /\ pc'[c] = "read" => ~CompletionRingEmpty /\ reply'[c] = cmpRing[cmpHead]
      BY <1>1, QuietStep
    <2>4. QED
      BY <2>1, <2>2, <2>3 DEF HandsOnRings
  <1>2. ASSUME NEW c \in Contexts, EnqueueWrite(c)
        PROVE  HandsOnRings'
    <2>1. /\ pc[c] = "enqueue" /\ ~RequestRingFull
          /\ pc' = [pc EXCEPT ![c] = "written"]
          /\ reqRing' = [reqRing EXCEPT ![reqTail] = request'[c]]
          /\ UNCHANGED <<reqHead, reqTail, cmpRing, cmpHead, cmpTail, lock, reply>>
      BY <1>2 DEF EnqueueWrite, TypeOK
    <2>2. lock = c /\ \A d \in Contexts \ {c} : pc[d] \notin Inside
      BY <2>1 DEF HandsOnRings, Inside
    <2>3. reqRing'[reqTail] = request'[c]
      BY <2>1 DEF TypeOK
    <2>4. QED
      BY <2>1, <2>2, <2>3
      DEF HandsOnRings, Inside, TypeOK, RequestRingFull, CompletionRingEmpty
  <1>3. ASSUME NEW c \in Contexts, EnqueuePublish(c) \/ ConsumeRetire(c)
        PROVE  HandsOnRings'
    <2>1. /\ pc[c] \in {"written", "read"}
          /\ \E p \in {"idle", "queued", "tick"} : pc' = [pc EXCEPT ![c] = p]
          /\ pc'[c] \in Inside => lock' = lock
      BY <1>3 DEF EnqueuePublish, ConsumeRetire, Return, TypeOK, Inside
    <2>2. lock = c /\ \A d \in Contexts \ {c} : pc[d] \notin Inside
      BY <2>1 DEF HandsOnRings, Inside
    <2>3. \A d \in Contexts \ {c} : pc'[d] \notin Inside
      BY <2>1, <2>2 DEF TypeOK
    <2>4. pc'[c] \notin {"written", "read"}
      BY <2>1 DEF TypeOK
    <2>5. QED
      BY <2>1, <2>2, <2>3, <2>4 DEF HandsOnRings, Inside
  <1>4. CASE FwTake
    <2>1. /\ reqHead # reqTail /\ reqHead' = NextRingIndex(reqHead, ReqEntries)
          /\ UNCHANGED <<reqRing, reqTail, cmpRing, cmpHead, cmpTail, lock, pc,
                         request, reply>>
      BY <1>4 DEF FwTake, locals
    <2>2. ~RequestRingFull'
      BY <2>1 DEF TypeOK, RequestRingFull, NextRingIndex
    <2>3. QED
      BY <2>1, <2>2 DEF HandsOnRings, CompletionRingEmpty
  <1>5. ASSUME NEW e \in working, FwComplete(e)
        PROVE  HandsOnRings'
    <2>1. /\ NextRingIndex(cmpTail, CmpEntries) # cmpHead
          /\ cmpRing' = [cmpRing EXCEPT ![cmpTail] = e]
          /\ cmpTail' = NextRingIndex(cmpTail, CmpEntries)
          /\ UNCHANGED <<reqRing, reqHead, reqTail, cmpHead, lock, pc, request, reply>>
      BY <1>5 DEF FwComplete, locals
    <2>2. ~CompletionRingEmpty'
      BY <2>1 DEF CompletionRingEmpty
    <2>3. ~CompletionRingEmpty => cmpRing'[cmpHead] = cmpRing[cmpHead]
      BY <2>1 DEF CompletionRingEmpty, TypeOK
    <2>4. UNCHANGED RequestRingFull
      BY <2>1 DEF RequestRingFull
    <2>5. QED
      BY <2>1, <2>2, <2>3, <2>4 DEF HandsOnRings
  <1>6. CASE BoardDies \/ UNCHANGED vars
    <2>1. UNCHANGED <<rings, lock, pc, request, reply>>
      BY <1>6 DEF BoardDies, vars, locals, rings
    <2>2. QED
      BY <2>1 DEF HandsOnRings, rings, RequestRingFull, CompletionRingEmpty
  <1>7. QED
    BY <1>1, <1>2, <1>3, <1>4, <1>5, <1>6, StepKinds

LEMMA HandsInvariant == Spec => []HandsOnRings
  BY HandsInit, HandsStep, TypeCorrect, PTL DEF Spec

---------------------------------------------------------------------------
\* What each step does to the contents of the two rings.

LEMMA RingTypes ==
    ASSUME TypeOK
    PROVE  /\ IsRing(reqRing, ReqEntries, Entry) /\ IsRing(cmpRing, CmpEntries, Entry)
           /\ IsSlot(reqHead, ReqEntries) /\ IsSlot(reqTail, ReqEntries)
           /\ IsSlot(cmpHead, CmpEntries) /\ IsSlot(cmpTail, CmpEntries)
  BY MailboxAssumption DEF TypeOK, IsRing, IsSlot

LEMMA QueueTypes ==
    ASSUME TypeOK
    PROVE  ReqQueue \in Seq(Entry) /\ CmpQueue \in Seq(Entry)
  BY RingTypes, MessagesSeq DEF ReqQueue, CmpQueue

\* zz9k_enqueue_request_locked, first half: nobody can see the entry yet.
LEMMA WriteUnseen ==
    ASSUME TypeOK, TypeOK', NEW c \in Contexts, EnqueueWrite(c)
    PROVE  UNCHANGED <<ReqQueue, CmpQueue>>
  <1>1. /\ \E q : reqRing' = [reqRing EXCEPT ![reqTail] = q]
        /\ UNCHANGED <<reqHead, reqTail, cmpRing, cmpHead, cmpTail>>
    BY DEF EnqueueWrite
  <1>2. DifferAt(reqRing, reqRing', reqTail, ReqEntries)
    BY <1>1 DEF TypeOK, DifferAt
  <1>3. IsRing(reqRing', ReqEntries, Entry)
    BY MailboxAssumption DEF TypeOK, IsRing
  <1>4. Messages(reqRing', reqHead, reqTail, ReqEntries)
          = Messages(reqRing, reqHead, reqTail, ReqEntries)
    BY <1>2, <1>3, RingTypes, WriteAtTail
  <1>5. QED
    BY <1>1, <1>4 DEF ReqQueue, CmpQueue

\* Second half: the entry, whole, becomes the newest request.
LEMMA PublishAppends ==
    ASSUME TypeOK, HandsOnRings, NEW c \in Contexts, EnqueuePublish(c)
    PROVE  /\ ReqQueue' = Append(ReqQueue, request[c])
           /\ Len(ReqQueue) < ReqEntries - 1
           /\ CmpQueue' = CmpQueue
  <1>1. /\ reqTail' = NextRingIndex(reqTail, ReqEntries)
        /\ UNCHANGED <<reqRing, reqHead, cmpRing, cmpHead, cmpTail>>
        /\ NextRingIndex(reqTail, ReqEntries) # reqHead
        /\ reqRing[reqTail] = request[c]
    BY DEF EnqueuePublish, HandsOnRings, RequestRingFull
  <1>2. DifferAt(reqRing, reqRing, reqTail, ReqEntries)
    BY DEF DifferAt
  <1>3. /\ Messages(reqRing, reqHead, NextRingIndex(reqTail, ReqEntries), ReqEntries)
             = Append(Messages(reqRing, reqHead, reqTail, ReqEntries),
                      reqRing[reqTail])
        /\ Len(Messages(reqRing, reqHead, reqTail, ReqEntries)) < ReqEntries - 1
    BY <1>1, <1>2, RingTypes, TailMoves
  <1>4. QED
    BY <1>1, <1>3 DEF ReqQueue, CmpQueue

\* zz9k_consume_next_completion_locked: what was read is what is retired.
LEMMA RetireTakesOldest ==
    ASSUME TypeOK, HandsOnRings, NEW c \in Contexts, ConsumeRetire(c)
    PROVE  /\ CmpQueue # <<>> /\ CmpQueue[1] = reply[c]
           /\ CmpQueue' = Tail(CmpQueue)
           /\ ReqQueue' = ReqQueue
  <1>1. /\ cmpHead' = NextRingIndex(cmpHead, CmpEntries)
        /\ UNCHANGED <<reqRing, reqHead, reqTail, cmpRing, cmpTail>>
        /\ cmpHead # cmpTail /\ cmpRing[cmpHead] = reply[c]
    BY DEF ConsumeRetire, HandsOnRings, HeadAfterConsume, CompletionRingEmpty
  <1> DEFINE m == Messages(cmpRing, cmpHead, cmpTail, CmpEntries)
  <1>2. /\ m # <<>> /\ m[1] = cmpRing[cmpHead]
        /\ Messages(cmpRing, NextRingIndex(cmpHead, CmpEntries), cmpTail, CmpEntries)
             = Tail(m)
    BY <1>1, RingTypes, HeadMoves
  <1>3. QED
    BY <1>1, <1>2 DEF ReqQueue, CmpQueue

\* The firmware takes the oldest request ...
LEMMA TakeTakesOldest ==
    ASSUME TypeOK, FwTake
    PROVE  /\ ReqQueue # <<>> /\ ReqQueue[1] = reqRing[reqHead]
           /\ ReqQueue' = Tail(ReqQueue)
           /\ CmpQueue' = CmpQueue
  <1>1. /\ reqHead' = NextRingIndex(reqHead, ReqEntries)
        /\ UNCHANGED <<reqRing, reqTail, cmpRing, cmpHead, cmpTail>>
        /\ reqHead # reqTail
    BY DEF FwTake
  <1> DEFINE m == Messages(reqRing, reqHead, reqTail, ReqEntries)
  <1>2. /\ m # <<>> /\ m[1] = reqRing[reqHead]
        /\ Messages(reqRing, NextRingIndex(reqHead, ReqEntries), reqTail, ReqEntries)
             = Tail(m)
    BY <1>1, RingTypes, HeadMoves
  <1>3. QED
    BY <1>1, <1>2 DEF ReqQueue, CmpQueue

\* ... and appends its answers.
LEMMA CompleteAppends ==
    ASSUME TypeOK, TypeOK', NEW e \in working, FwComplete(e)
    PROVE  /\ CmpQueue' = Append(CmpQueue, e)
           /\ Len(CmpQueue) < CmpEntries - 1
           /\ ReqQueue' = ReqQueue
  <1>1. /\ cmpRing' = [cmpRing EXCEPT ![cmpTail] = e]
        /\ cmpTail' = NextRingIndex(cmpTail, CmpEntries)
        /\ UNCHANGED <<reqRing, reqHead, reqTail, cmpHead>>
        /\ NextRingIndex(cmpTail, CmpEntries) # cmpHead
    BY DEF FwComplete
  <1>2. DifferAt(cmpRing, cmpRing', cmpTail, CmpEntries) /\ cmpRing'[cmpTail] = e
    BY <1>1 DEF TypeOK, DifferAt
  <1>3. IsRing(cmpRing', CmpEntries, Entry)
    BY MailboxAssumption DEF TypeOK, IsRing
  <1>4. /\ Messages(cmpRing', cmpHead, NextRingIndex(cmpTail, CmpEntries), CmpEntries)
             = Append(Messages(cmpRing, cmpHead, cmpTail, CmpEntries),
                      cmpRing'[cmpTail])
        /\ Len(Messages(cmpRing, cmpHead, cmpTail, CmpEntries)) < CmpEntries - 1
    <2> DEFINE written == cmpRing'
    <2>1. /\ IsRing(written, CmpEntries, Entry)
          /\ DifferAt(cmpRing, written, cmpTail, CmpEntries)
      BY <1>2, <1>3
    <2> HIDE DEF written
    <2>2. /\ Messages(written, cmpHead, NextRingIndex(cmpTail, CmpEntries), CmpEntries)
               = Append(Messages(cmpRing, cmpHead, cmpTail, CmpEntries),
                        written[cmpTail])
          /\ Len(Messages(cmpRing, cmpHead, cmpTail, CmpEntries)) < CmpEntries - 1
      BY <1>1, <2>1, RingTypes, TailMoves
    <2>3. QED
      BY <2>2 DEF written
  <1>5. QED
    BY <1>1, <1>2, <1>4 DEF ReqQueue, CmpQueue

\* Every other step leaves both rings as they are.
LEMMA OthersLeaveRings ==
    ASSUME TypeOK, HandsOnRings,
           (\E c \in Contexts : Quiet(c)) \/ BoardDies \/ UNCHANGED vars
    PROVE  UNCHANGED <<ReqQueue, CmpQueue, working, ghosts>>
  <1>1. UNCHANGED <<rings, working, ghosts>>
    BY QuietStep DEF BoardDies, vars, rings, ghosts
  <1>2. QED
    BY <1>1 DEF rings, ReqQueue, CmpQueue

---------------------------------------------------------------------------
\* Refinement: each ring is a bounded FIFO channel.

\* Appending to a sequence that is not full is a send.
LEMMA AppendIsSend ==
    ASSUME NEW S, NEW q \in Seq(S), NEW e \in S
    PROVE  /\ Len(Append(q, e)) = Len(q) + 1
           /\ SubSeq(Append(q, e), 1, Len(q)) = q
  OBVIOUS

LEMMA ChannelsInit == Init => ReqChannel!Init /\ CmpChannel!Init
  <1> SUFFICES ASSUME Init PROVE ReqQueue = <<>> /\ CmpQueue = <<>>
    BY DEF ReqChannel!Init, CmpChannel!Init
  <1>1. /\ reqHead = 0 /\ reqTail = 0 /\ cmpHead = 0 /\ cmpTail = 0
        /\ reqRing \in [0..(ReqEntries - 1) -> {Blank}]
        /\ cmpRing \in [0..(CmpEntries - 1) -> {Blank}]
    BY DEF Init, InitAt
  <1>2. /\ ReqQueue \in Seq({Blank}) /\ Len(ReqQueue) = Held(0, 0, ReqEntries)
        /\ CmpQueue \in Seq({Blank}) /\ Len(CmpQueue) = Held(0, 0, CmpEntries)
    BY <1>1, MailboxAssumption, MessagesSeq DEF ReqQueue, CmpQueue
  <1>3. Len(ReqQueue) = 0 /\ Len(CmpQueue) = 0
    BY <1>2, MailboxAssumption DEF Held
  <1>4. QED
    BY <1>2, <1>3

LEMMA ChannelsStep ==
    ASSUME TypeOK, TypeOK', HandsOnRings, [Next]_vars
    PROVE  [ReqChannel!Next]_ReqQueue /\ [CmpChannel!Next]_CmpQueue
  <1> USE DEF ReqChannel!Next, ReqChannel!Send, ReqChannel!Receive,
              CmpChannel!Next, CmpChannel!Send, CmpChannel!Receive
  <1>0. ReqQueue \in Seq(Entry) /\ CmpQueue \in Seq(Entry)
    BY QueueTypes
  <1>1. ASSUME NEW c \in Contexts, EnqueueWrite(c)
        PROVE  UNCHANGED <<ReqQueue, CmpQueue>>
    BY <1>1, WriteUnseen
  <1>2. ASSUME NEW c \in Contexts, EnqueuePublish(c)
        PROVE  ReqChannel!Send /\ UNCHANGED CmpQueue
    <2>1. request[c] \in Entry
      BY DEF TypeOK
    <2>2. QED
      BY <1>0, <1>2, <2>1, PublishAppends, AppendIsSend
  <1>3. ASSUME NEW c \in Contexts, ConsumeRetire(c)
        PROVE  CmpChannel!Receive /\ UNCHANGED ReqQueue
    BY <1>3, RetireTakesOldest
  <1>4. CASE FwTake
    BY <1>4, TakeTakesOldest
  <1>5. ASSUME NEW e \in working, FwComplete(e)
        PROVE  CmpChannel!Send /\ UNCHANGED ReqQueue
    <2>1. e \in Entry
      BY DEF TypeOK
    <2>2. QED
      BY <1>0, <1>5, <2>1, CompleteAppends, AppendIsSend
  <1>6. QED
    BY <1>1, <1>2, <1>3, <1>4, <1>5, OthersLeaveRings, StepKinds

\* For every ring size and every number of contexts, the request ring and the
\* completion ring of the mailbox implement a bounded FIFO channel each: the
\* order in which the host and the firmware touch entries and indices never
\* shows a half-written entry, loses one, repeats one or reorders two.
THEOREM RingsRefineChannels == Spec => RingsAreChannels
  <1>1. Spec => ReqChannel!Spec
    BY ChannelsInit, ChannelsStep, TypeCorrect, HandsInvariant, PTL
    DEF Spec, ReqChannel!Spec
  <1>2. Spec => CmpChannel!Spec
    BY ChannelsInit, ChannelsStep, TypeCorrect, HandsInvariant, PTL
    DEF Spec, CmpChannel!Spec
  <1>3. QED
    BY <1>1, <1>2 DEF RingsAreChannels

---------------------------------------------------------------------------
\* Conservation.

\* A request that has its id but is not published yet carries the token of its
\* context's last draw, and no published request has a later one: ids may wrap
\* and restart, tokens never.
TokensAreFresh ==
    /\ \A c \in Contexts :
          /\ pc[c] = "obtain" => request[c].id = 0
          /\ pc[c] = "written" => request[c].id # 0
          /\ pc[c] \in {"enqueue", "written"} /\ request[c].id # 0 =>
                /\ request[c].tok = [ctx |-> c, n |-> drawn[c]]
                /\ request[c].tok \notin accepted
    /\ \A c \in Contexts, n \in Nat :
          [ctx |-> c, n |-> n] \in accepted => n <= drawn[c]

\* No token twice in a sequence, or in a set, of entries.
Once(q) == \A i, j \in DOMAIN q : q[i].tok = q[j].tok => i = j
OnceIn(S) == \A e, f \in S : e.tok = f.tok => e = f

\* Four sets share out a fifth.
SharedOut(queued, held, waiting, gone, all) ==
    /\ all = queued \cup held \cup waiting \cup gone
    /\ queued \cap held = {} /\ queued \cap waiting = {} /\ queued \cap gone = {}
    /\ held \cap waiting = {} /\ held \cap gone = {} /\ waiting \cap gone = {}

HeldToks == {e.tok : e \in working}

\* Conservation with its cardinalities replaced by what they mean, and no two
\* requests with one token in the hands of the firmware.
OneHome ==
    /\ SharedOut(Toks(ReqQueue), HeldToks, Toks(CmpQueue), retired, accepted)
    /\ Once(ReqQueue) /\ Once(CmpQueue) /\ OnceIn(working)

ConservationInv == HandsOnRings /\ TokensAreFresh /\ OneHome

\* Tokens of a sequence that grows or shrinks.
LEMMA ToksOfAppend ==
    ASSUME NEW S, NEW q \in Seq(S), NEW e \in S
    PROVE  /\ Toks(Append(q, e)) = Toks(q) \cup {e.tok}
           /\ Once(q) /\ e.tok \notin Toks(q) => Once(Append(q, e))
  <1> DEFINE p == Append(q, e)
  <1>1. /\ DOMAIN q = 1..Len(q) /\ DOMAIN p = 1..(Len(q) + 1) /\ Len(q) \in Nat
        /\ \A i \in 1..Len(q) : p[i] = q[i]
        /\ p[Len(q) + 1] = e
    OBVIOUS
  <1> HIDE DEF p
  <1>2. Toks(p) = Toks(q) \cup {e.tok}
    <2>1. ASSUME NEW x \in Toks(p) PROVE x \in Toks(q) \cup {e.tok}
      <3>1. PICK i \in 1..(Len(q) + 1) : x = p[i].tok
        BY <1>1, <2>1 DEF Toks
      <3>2. i \in 1..Len(q) \/ i = Len(q) + 1
        BY <1>1
      <3>3. QED
        BY <1>1, <3>1, <3>2 DEF Toks
    <2>2. ASSUME NEW x \in Toks(q) PROVE x \in Toks(p)
      <3>1. PICK i \in 1..Len(q) : x = q[i].tok
        BY <1>1, <2>2 DEF Toks
      <3>2. i \in DOMAIN p /\ x = p[i].tok
        BY <1>1, <3>1
      <3>3. QED
        BY <3>2 DEF Toks
    <2>3. e.tok \in Toks(p)
      <3>1. Len(q) + 1 \in DOMAIN p
        BY <1>1
      <3>2. QED
        BY <1>1, <3>1 DEF Toks
    <2>4. QED
      BY <2>1, <2>2, <2>3
  <1>3. ASSUME Once(q), e.tok \notin Toks(q) PROVE Once(p)
    <2>1. \A i \in 1..Len(q) : q[i].tok # e.tok
      BY <1>1, <1>3 DEF Toks
    <2>2. QED
      BY <1>1, <1>3, <2>1 DEF Once
  <1>4. QED
    BY <1>2, <1>3 DEF p

LEMMA ToksOfTail ==
    ASSUME NEW S, NEW q \in Seq(S), q # <<>>, Once(q)
    PROVE  /\ q[1].tok \in Toks(q)
           /\ Toks(Tail(q)) = Toks(q) \ {q[1].tok}
           /\ Once(Tail(q))
  <1> DEFINE p == Tail(q)
  <1>1. /\ DOMAIN q = 1..Len(q) /\ DOMAIN p = 1..(Len(q) - 1)
        /\ Len(q) \in Nat /\ Len(q) >= 1
        /\ \A i \in 1..(Len(q) - 1) : p[i] = q[i + 1]
    OBVIOUS
  <1> HIDE DEF p
  <1>2. 1 \in DOMAIN q
    BY <1>1
  <1>3. q[1].tok \in Toks(q)
    BY <1>2 DEF Toks
  <1>4. Toks(p) = Toks(q) \ {q[1].tok}
    <2>1. ASSUME NEW x \in Toks(p) PROVE x \in Toks(q) \ {q[1].tok}
      <3>1. PICK i \in 1..(Len(q) - 1) : x = p[i].tok
        BY <1>1, <2>1 DEF Toks
      <3>2. i + 1 \in DOMAIN q /\ x = q[i + 1].tok /\ i + 1 # 1
        BY <1>1, <3>1
      <3>3. q[i + 1].tok # q[1].tok
        BY <1>2, <3>2 DEF Once
      <3>4. QED
        BY <3>2, <3>3 DEF Toks
    <2>2. ASSUME NEW x \in Toks(q), x # q[1].tok PROVE x \in Toks(p)
      <3>1. PICK i \in DOMAIN q : x = q[i].tok
        BY <2>2 DEF Toks
      <3>2. i # 1
        BY <2>2, <3>1
      <3>3. i - 1 \in DOMAIN p /\ p[i - 1] = q[i]
        BY <1>1, <3>1, <3>2
      <3>4. QED
        BY <3>1, <3>3 DEF Toks
    <2>3. QED
      BY <2>1, <2>2
  <1>5. ASSUME NEW i \in DOMAIN p, NEW j \in DOMAIN p, p[i].tok = p[j].tok
        PROVE  i = j
    <2>1. i + 1 \in DOMAIN q /\ j + 1 \in DOMAIN q
      BY <1>1
    <2>2. q[i + 1].tok = q[j + 1].tok
      BY <1>1, <1>5
    <2>3. i + 1 = j + 1
      BY <2>1, <2>2 DEF Once
    <2>4. QED
      BY <1>1, <2>3
  <1>6. QED
    BY <1>3, <1>4, <1>5 DEF p, Once

\* Distinct tokens are as many as the messages they are of.
LEMMA OnceCounts ==
    ASSUME NEW S, NEW q \in Seq(S), Once(q)
    PROVE  Cardinality(Toks(q)) = Len(q)
  <1> DEFINE f == [i \in 1..Len(q) |-> q[i].tok]
  <1>1. DOMAIN q = 1..Len(q) /\ Len(q) \in Nat
    OBVIOUS
  <1>2. Toks(q) = {q[i].tok : i \in 1..Len(q)}
    BY <1>1 DEF Toks
  <1>3. f \in [1..Len(q) -> Toks(q)]
    BY <1>2
  <1>4. \A i, j \in 1..Len(q) : f[i] = f[j] => i = j
    BY <1>1 DEF Once
  <1>5. \A x \in Toks(q) : \E i \in 1..Len(q) : f[i] = x
    BY <1>2
  <1> HIDE DEF f
  <1>6. f \in Bijection(1..Len(q), Toks(q))
    BY <1>3, <1>4, <1>5 DEF Bijection, Injection, Surjection, IsInjective
  <1>7. IsFiniteSet(1..Len(q)) /\ Cardinality(1..Len(q)) = Len(q)
    BY <1>1, FS_Interval
  <1>8. QED
    BY <1>6, <1>7, FS_Bijection DEF ExistsBijection

LEMMA FreshInit == Init => TokensAreFresh /\ OneHome
  <1> SUFFICES ASSUME Init PROVE TokensAreFresh /\ OneHome
    OBVIOUS
  <1>1. /\ pc \in [Contexts -> {"new"}]
        /\ accepted = {} /\ retired = {} /\ working = {}
    BY DEF Init, InitAt
  <1>2. TokensAreFresh
    BY <1>1 DEF TokensAreFresh
  <1>3. ReqQueue = <<>> /\ CmpQueue = <<>>
    BY ChannelsInit DEF ReqChannel!Init, CmpChannel!Init
  <1>4. OneHome
    BY <1>1, <1>3 DEF OneHome, Once, OnceIn, SharedOut, HeldToks, Toks
  <1>5. QED
    BY <1>2, <1>4

\* Tokens stay fresh: only a draw makes one, only a publication spends one.
LEMMA FreshStep ==
    ASSUME TypeOK, TypeOK', HandsOnRings, TokensAreFresh, [Next]_vars
    PROVE  TokensAreFresh'
  <1> USE MailboxAssumption
  <1>1. ASSUME NEW c \in Contexts, CallDraw(c)
        PROVE  TokensAreFresh'
    <2>1. /\ request[c] \in Entry /\ nextId[c] \in 1..IdLimit /\ drawn[c] \in Nat
      BY DEF TypeOK
    <2>2. /\ request'[c].id = nextId[c]
          /\ request'[c].tok = [ctx |-> c, n |-> drawn[c] + 1]
      BY <1>1, <2>1 DEF CallDraw, WithNewId, Entry, TypeOK
    <2>3. /\ drawn'[c] = drawn[c] + 1 /\ pc'[c] = "enqueue" /\ accepted' = accepted
          /\ \A d \in Contexts \ {c} : /\ drawn'[d] = drawn[d] /\ pc'[d] = pc[d]
                                       /\ request'[d] = request[d]
      BY <1>1 DEF CallDraw, DrawId, TypeOK, ghosts
    <2>4. [ctx |-> c, n |-> drawn[c] + 1] \notin accepted
      BY <2>1 DEF TokensAreFresh
    <2>5. \A d \in Contexts : drawn[d] \in Nat /\ drawn'[d] \in Nat
      BY DEF TypeOK
    <2>6. \A d \in Contexts, n \in Nat :
             [ctx |-> d, n |-> n] \in accepted' => n <= drawn'[d]
      BY <2>3, <2>5 DEF TokensAreFresh
    <2>7. QED
      BY <2>2, <2>3, <2>4, <2>6 DEF TokensAreFresh
  <1>2. ASSUME NEW c \in Contexts, EnqueueWrite(c)
        PROVE  TokensAreFresh'
    <2>1. /\ request[c] \in Entry /\ nextId[c] \in 1..IdLimit /\ drawn[c] \in Nat
      BY DEF TypeOK
    <2>2. /\ pc[c] = "enqueue" /\ pc'[c] = "written" /\ accepted' = accepted
          /\ \A d \in Contexts \ {c} : /\ drawn'[d] = drawn[d] /\ pc'[d] = pc[d]
                                       /\ request'[d] = request[d]
      <3>1. /\ pc[c] = "enqueue" /\ pc' = [pc EXCEPT ![c] = "written"]
            /\ accepted' = accepted
            /\ \E q : request' = [request EXCEPT ![c] = q]
            /\ \E n : drawn' = [drawn EXCEPT ![c] = n]
        <4>1. DrawId(c) \/ drawn' = drawn
          BY <1>2 DEF EnqueueWrite
        <4>2. drawn' = drawn => drawn' = [drawn EXCEPT ![c] = drawn[c]]
          BY DEF TypeOK
        <4>3. \E n : drawn' = [drawn EXCEPT ![c] = n]
          BY <4>1, <4>2 DEF DrawId
        <4>4. \E q : request' = [request EXCEPT ![c] = q]
          BY <1>2 DEF EnqueueWrite
        <4>5. /\ pc[c] = "enqueue" /\ pc' = [pc EXCEPT ![c] = "written"]
              /\ accepted' = accepted
          BY <1>2 DEF EnqueueWrite, ghosts
        <4>6. QED
          BY <4>3, <4>4, <4>5
      <3>2. QED
        BY <3>1 DEF TypeOK
    <2>3. \A d \in Contexts : drawn[d] \in Nat /\ drawn'[d] \in Nat
      BY DEF TypeOK
    <2>4. CASE request[c].id = 0
      <3>1. /\ request'[c].id = nextId[c]
            /\ request'[c].tok = [ctx |-> c, n |-> drawn[c] + 1]
            /\ drawn'[c] = drawn[c] + 1
        BY <1>2, <2>1, <2>4 DEF EnqueueWrite, WithNewId, DrawId, Entry, TypeOK
      <3>2. [ctx |-> c, n |-> drawn[c] + 1] \notin accepted
        BY <2>1 DEF TokensAreFresh
      <3>3. \A d \in Contexts, n \in Nat :
               [ctx |-> d, n |-> n] \in accepted' => n <= drawn'[d]
        BY <2>2, <2>3, <3>1 DEF TokensAreFresh
      <3>4. QED
        BY <2>1, <2>2, <3>1, <3>2, <3>3 DEF TokensAreFresh
    <2>5. CASE request[c].id # 0
      <3>1. request' = request /\ drawn' = drawn
        BY <1>2, <2>5 DEF EnqueueWrite, TypeOK
      <3>2. QED
        BY <2>2, <2>5, <3>1 DEF TokensAreFresh
    <2>6. QED
      BY <2>4, <2>5
  <1>3. ASSUME NEW c \in Contexts, EnqueuePublish(c)
        PROVE  TokensAreFresh'
    <2>1. /\ pc[c] = "written" /\ pc'[c] \in {"idle", "queued"} /\ drawn' = drawn
          /\ accepted' = accepted \cup {request[c].tok}
          /\ \A d \in Contexts \ {c} : pc'[d] = pc[d] /\ request'[d] = request[d]
      BY <1>3 DEF EnqueuePublish, Return, TypeOK, locals
    <2>2. request[c].tok = [ctx |-> c, n |-> drawn[c]] /\ drawn[c] \in Nat
      BY <2>1 DEF TokensAreFresh, TypeOK
    <2>3. \A d \in Contexts, n \in Nat :
             [ctx |-> d, n |-> n] \in accepted' => n <= drawn'[d]
      <3>1. \A d \in Contexts, n \in Nat :
               [ctx |-> d, n |-> n] = [ctx |-> c, n |-> drawn[c]] =>
                  d = c /\ n = drawn[c]
        OBVIOUS
      <3>2. QED
        BY <2>1, <2>2, <3>1 DEF TokensAreFresh
    <2>4. ASSUME NEW d \in Contexts \ {c}, pc[d] \in {"enqueue", "written"},
                 request[d].id # 0
          PROVE  request[d].tok \notin accepted'
      <3>1. /\ request[d].tok = [ctx |-> d, n |-> drawn[d]]
            /\ request[d].tok \notin accepted
        BY <2>4 DEF TokensAreFresh
      <3>2. [ctx |-> d, n |-> drawn[d]] # [ctx |-> c, n |-> drawn[c]]
        BY <2>4
      <3>3. QED
        BY <2>1, <2>2, <3>1, <3>2
    <2>5. QED
      BY <2>1, <2>3, <2>4 DEF TokensAreFresh
  <1>4. ASSUME NEW c \in Contexts,
               Attach(c) \/ Close(c) \/ EnqueueRefused(c) \/ CallIdle(c)
                  \/ ConsumeNothing(c) \/ ConsumeRead(c) \/ ConsumeRetire(c)
                  \/ Tick(c)
        PROVE  TokensAreFresh'
    <2>1. /\ pc'[c] \notin {"obtain", "enqueue", "written"}
          /\ UNCHANGED <<drawn, accepted>>
          /\ \A d \in Contexts \ {c} : pc'[d] = pc[d] /\ request'[d] = request[d]
      <3>1. CASE Attach(c) \/ Close(c)
        BY <3>1 DEF Attach, Close, TypeOK, ghosts, locals
      <3>2. CASE EnqueueRefused(c) \/ CallIdle(c) \/ ConsumeNothing(c)
        BY <3>2 DEF EnqueueRefused, CallIdle, ConsumeNothing, Return, TypeOK,
                    ghosts, locals
      <3>3. CASE ConsumeRead(c) \/ ConsumeRetire(c) \/ Tick(c)
        BY <3>3 DEF ConsumeRead, ConsumeRetire, Tick, Return, TypeOK, ghosts, locals
      <3>4. QED
        BY <1>4, <3>1, <3>2, <3>3
    <2>2. QED
      BY <2>1 DEF TokensAreFresh
  <1>5. ASSUME NEW c \in Contexts, Obtain(c)
        PROVE  TokensAreFresh'
    <2>1. /\ pc[c] = "obtain" /\ pc'[c] \in {"draw", "enqueue", "wait"}
          /\ UNCHANGED <<drawn, accepted, request>>
          /\ \A d \in Contexts \ {c} : pc'[d] = pc[d]
      BY <1>5 DEF Obtain, TypeOK, ghosts, locals
    <2>2. QED
      BY <2>1 DEF TokensAreFresh
  <1>6. ASSUME NEW c \in Contexts, NEW k \in {"submit", "call", "poll"},
               NEW op \in Opcodes \cup {NoOp}, Begin(c, k, op)
        PROVE  TokensAreFresh'
    <2>1. /\ pc'[c] = "obtain" /\ request'[c].id = 0
          /\ UNCHANGED <<drawn, accepted>>
          /\ \A d \in Contexts \ {c} : pc'[d] = pc[d] /\ request'[d] = request[d]
      BY <1>6 DEF Begin, TypeOK, ghosts, Blank
    <2>2. QED
      BY <2>1 DEF TokensAreFresh
  <1>7. CASE FwTake \/ (\E e \in working : FwComplete(e)) \/ BoardDies \/ UNCHANGED vars
    <2>1. UNCHANGED <<pc, request, drawn, accepted>>
      BY <1>7 DEF FwTake, FwComplete, BoardDies, vars, ghosts, locals
    <2>2. QED
      BY <2>1 DEF TokensAreFresh
  <1>8. QED
    BY <1>1, <1>2, <1>3, <1>4, <1>5, <1>6, <1>7 DEF Next, Step

\* A request changes hands, and is in exactly one pair of them, at every step.
LEMMA OneHomeStep ==
    ASSUME TypeOK, TypeOK', HandsOnRings, TokensAreFresh, OneHome, [Next]_vars
    PROVE  OneHome'
  <1>0. ReqQueue \in Seq(Entry) /\ CmpQueue \in Seq(Entry)
    BY QueueTypes
  <1>1. ASSUME NEW c \in Contexts, EnqueueWrite(c)
        PROVE  OneHome'
    <2>1. UNCHANGED <<ReqQueue, CmpQueue, working, accepted, retired>>
      BY <1>1, WriteUnseen DEF EnqueueWrite, ghosts
    <2>2. QED
      BY <2>1 DEF OneHome, HeldToks, Toks, Once, OnceIn
  <1>2. ASSUME NEW c \in Contexts, EnqueuePublish(c)
        PROVE  OneHome'
    <2> DEFINE x == request[c].tok
    <2>1. request[c] \in Entry /\ x \notin accepted
      BY <1>2 DEF EnqueuePublish, TokensAreFresh, TypeOK
    <2>2. /\ ReqQueue' = Append(ReqQueue, request[c]) /\ CmpQueue' = CmpQueue
          /\ accepted' = accepted \cup {x} /\ UNCHANGED <<working, retired>>
      BY <1>2, PublishAppends DEF EnqueuePublish
    <2>3. x \notin Toks(ReqQueue)
      BY <2>1 DEF OneHome, SharedOut
    <2>4. /\ Toks(ReqQueue)' = Toks(ReqQueue) \cup {x} /\ Once(ReqQueue)'
          /\ Toks(CmpQueue)' = Toks(CmpQueue) /\ Once(CmpQueue)'
      <3>1. /\ Toks(Append(ReqQueue, request[c])) = Toks(ReqQueue) \cup {x}
            /\ Once(Append(ReqQueue, request[c]))
        BY <1>0, <2>1, <2>3, ToksOfAppend DEF OneHome
      <3>2. QED
        BY <2>2, <3>1 DEF OneHome, Toks, Once
    <2>5. HeldToks' = HeldToks /\ OnceIn(working)'
      BY <2>2 DEF HeldToks, OneHome, OnceIn
    <2> HIDE DEF x
    <2>6. SharedOut(Toks(ReqQueue), HeldToks, Toks(CmpQueue), retired, accepted)'
      BY <2>1, <2>2, <2>4, <2>5 DEF OneHome, SharedOut
    <2>7. QED
      BY <2>4, <2>5, <2>6 DEF OneHome
  <1>3. CASE FwTake
    <2> DEFINE e == ReqQueue[1]
               x == e.tok
    <2>1. /\ ReqQueue # <<>> /\ ReqQueue' = Tail(ReqQueue) /\ CmpQueue' = CmpQueue
          /\ working' = working \cup {e} /\ UNCHANGED <<accepted, retired>>
      BY <1>3, TakeTakesOldest DEF FwTake, ghosts
    <2>2. /\ x \in Toks(ReqQueue)
          /\ Toks(ReqQueue)' = Toks(ReqQueue) \ {x} /\ Once(ReqQueue)'
          /\ Toks(CmpQueue)' = Toks(CmpQueue) /\ Once(CmpQueue)'
      <3>1. /\ x \in Toks(ReqQueue)
            /\ Toks(Tail(ReqQueue)) = Toks(ReqQueue) \ {x}
            /\ Once(Tail(ReqQueue))
        BY <1>0, <2>1, ToksOfTail DEF OneHome
      <3> HIDE DEF e, x
      <3>2. Toks(ReqQueue)' = Toks(ReqQueue) \ {x} /\ Once(ReqQueue)'
        BY <2>1, <3>1 DEF Toks, Once
      <3>3. Toks(CmpQueue)' = Toks(CmpQueue) /\ Once(CmpQueue)'
        BY <2>1 DEF OneHome, Toks, Once
      <3>4. QED
        BY <3>1, <3>2, <3>3
    <2>3. x \notin HeldToks
      BY <2>2 DEF OneHome, SharedOut
    <2> HIDE DEF e
    <2>4. HeldToks' = HeldToks \cup {x} /\ OnceIn(working)'
      BY <2>1, <2>3 DEF HeldToks, OneHome, OnceIn
    <2> HIDE DEF x
    <2>5. SharedOut(Toks(ReqQueue), HeldToks, Toks(CmpQueue), retired, accepted)'
      BY <2>1, <2>2, <2>4 DEF OneHome, SharedOut
    <2>6. QED
      BY <2>2, <2>4, <2>5 DEF OneHome
  <1>4. ASSUME NEW e \in working, FwComplete(e)
        PROVE  OneHome'
    <2> DEFINE x == e.tok
    <2>1. /\ CmpQueue' = Append(CmpQueue, e) /\ ReqQueue' = ReqQueue
          /\ working' = working \ {e} /\ UNCHANGED <<accepted, retired>>
          /\ e \in Entry
      BY <1>4, CompleteAppends DEF FwComplete, ghosts, TypeOK
    <2>2. x \in HeldToks
      BY DEF HeldToks
    <2>3. x \notin Toks(CmpQueue)
      BY <2>2 DEF OneHome, SharedOut
    <2>4. /\ Toks(CmpQueue)' = Toks(CmpQueue) \cup {x} /\ Once(CmpQueue)'
          /\ Toks(ReqQueue)' = Toks(ReqQueue) /\ Once(ReqQueue)'
      <3>1. /\ Toks(Append(CmpQueue, e)) = Toks(CmpQueue) \cup {x}
            /\ Once(Append(CmpQueue, e))
        BY <1>0, <2>1, <2>3, ToksOfAppend DEF OneHome
      <3>2. QED
        BY <2>1, <3>1 DEF OneHome, Toks, Once
    <2>5. HeldToks' = HeldToks \ {x} /\ OnceIn(working)'
      BY <2>1 DEF HeldToks, OneHome, OnceIn
    <2> HIDE DEF x
    <2>6. SharedOut(Toks(ReqQueue), HeldToks, Toks(CmpQueue), retired, accepted)'
      BY <2>1, <2>2, <2>4, <2>5 DEF OneHome, SharedOut
    <2>7. QED
      BY <2>4, <2>5, <2>6 DEF OneHome
  <1>5. ASSUME NEW c \in Contexts, ConsumeRetire(c)
        PROVE  OneHome'
    <2> DEFINE x == reply[c].tok
    <2>1. /\ CmpQueue # <<>> /\ CmpQueue[1] = reply[c] /\ CmpQueue' = Tail(CmpQueue)
          /\ ReqQueue' = ReqQueue /\ UNCHANGED <<working, accepted>>
          /\ retired' = retired \cup {x}
      BY <1>5, RetireTakesOldest DEF ConsumeRetire
    <2>2. /\ x \in Toks(CmpQueue)
          /\ Toks(CmpQueue)' = Toks(CmpQueue) \ {x} /\ Once(CmpQueue)'
          /\ Toks(ReqQueue)' = Toks(ReqQueue) /\ Once(ReqQueue)'
      <3>1. /\ CmpQueue[1].tok \in Toks(CmpQueue)
            /\ Toks(Tail(CmpQueue)) = Toks(CmpQueue) \ {CmpQueue[1].tok}
            /\ Once(Tail(CmpQueue))
        BY <1>0, <2>1, ToksOfTail DEF OneHome
      <3>2. CmpQueue[1].tok = x
        BY <2>1
      <3>3. Toks(CmpQueue)' = Toks(CmpQueue) \ {x} /\ Once(CmpQueue)'
        BY SMTT(30), <2>1, <3>1, <3>2 DEF Toks, Once
      <3>4. Toks(ReqQueue)' = Toks(ReqQueue) /\ Once(ReqQueue)'
        BY <2>1 DEF OneHome, Toks, Once
      <3>5. QED
        BY <3>1, <3>2, <3>3, <3>4
    <2>3. HeldToks' = HeldToks /\ OnceIn(working)'
      BY <2>1 DEF HeldToks, OneHome, OnceIn
    <2> HIDE DEF x
    <2>4. SharedOut(Toks(ReqQueue), HeldToks, Toks(CmpQueue), retired, accepted)'
      BY <2>1, <2>2, <2>3 DEF OneHome, SharedOut
    <2>5. QED
      BY <2>2, <2>3, <2>4 DEF OneHome
  <1>6. CASE (\E c \in Contexts : Quiet(c)) \/ BoardDies \/ UNCHANGED vars
    <2>1. UNCHANGED <<ReqQueue, CmpQueue, working, accepted, retired>>
      BY <1>6, OthersLeaveRings DEF ghosts
    <2>2. QED
      BY <2>1 DEF OneHome, HeldToks, Toks, Once, OnceIn
  <1>7. QED
    BY <1>1, <1>2, <1>3, <1>4, <1>5, <1>6, StepKinds

\* For every ring size, number of contexts, schedule and behaviour of the
\* firmware: a request that zz9k_submit or zz9k_call published is always in
\* exactly one of the request ring, the firmware, the completion ring and the
\* consumed completions, once.  Timeouts, refusals, closed contexts, wrapped
\* and restarted ids and a dying card lose and duplicate nothing.
THEOREM NothingLostOrDoubled == Spec => []Conservation
  <1>1. Init => ConservationInv
    BY HandsInit, FreshInit DEF ConservationInv
  <1>2. TypeOK /\ TypeOK' /\ ConservationInv /\ [Next]_vars => ConservationInv'
    BY HandsStep, FreshStep, OneHomeStep DEF ConservationInv
  <1>3. TypeOK /\ ConservationInv => Conservation
    <2> SUFFICES ASSUME TypeOK, ConservationInv PROVE Conservation
      OBVIOUS
    <2> DEFINE where == <<Toks(ReqQueue), {e.tok : e \in working},
                          Toks(CmpQueue), retired>>
    <2>1. SharedOut(where[1], where[2], where[3], where[4], accepted)
      BY DEF ConservationInv, OneHome, HeldToks
    <2>2. /\ Cardinality(Toks(ReqQueue)) = Len(ReqQueue)
          /\ Cardinality(Toks(CmpQueue)) = Len(CmpQueue)
      BY QueueTypes, OnceCounts DEF ConservationInv, OneHome
    <2> HIDE DEF where
    <2>3. accepted = UNION {where[i] : i \in 1..4}
      <3>1. 1..4 = {1, 2, 3, 4}
        OBVIOUS
      <3>2. UNION {where[i] : i \in {1, 2, 3, 4}}
              = where[1] \cup where[2] \cup where[3] \cup where[4]
        OBVIOUS
      <3>3. QED
        BY <2>1, <3>1, <3>2 DEF SharedOut
    <2>4. \A i, j \in 1..4 : i # j => where[i] \cap where[j] = {}
      <3>1. ASSUME NEW i \in 1..4, NEW j \in 1..4, i < j
            PROVE  where[i] \cap where[j] = {}
        <4>1. \/ i = 1 /\ j \in {2, 3, 4}
              \/ i = 2 /\ j \in {3, 4}
              \/ i = 3 /\ j = 4
          BY <3>1
        <4>2. QED
          BY <2>1, <4>1 DEF SharedOut
      <3>2. ASSUME NEW i \in 1..4, NEW j \in 1..4, i # j
            PROVE  where[i] \cap where[j] = {}
        <4>1. i < j \/ j < i
          BY <3>2
        <4>2. where[i] \cap where[j] = where[j] \cap where[i]
          OBVIOUS
        <4>3. QED
          BY <3>1, <4>1, <4>2
      <3>3. QED
        BY <3>2
    <2>5. QED
      BY <2>2, <2>3, <2>4 DEF Conservation, where
  <1>4. QED
    BY <1>1, <1>2, <1>3, TypeCorrect, PTL DEF Spec
=============================================================================
