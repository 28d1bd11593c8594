--------------------------- MODULE OffloadProofs ---------------------------
(***************************************************************************)
(* For every set of operations, record size, ring size and number of       *)
(* handles: no block of card memory is lost unless a call timed out or was *)
(* refused, and what an operation returns is computed from its own inputs, *)
(* in whatever order the card executes, unless an operation given up wrote *)
(* over one of its buffers since.                                          *)
(***************************************************************************)
EXTENDS Offload, FiniteSetTheorems, NaturalsInduction, TLAPS

Requests == [kind : {"alloc", "free", "op"}, handles : Seq(0..MaxHandles),
             out : 0..MaxHandles, waited : BOOLEAN]

\* Where the task is, or will be when its call returns.
Place == IF pc = "wait" THEN after ELSE pc

Places == {"open", "ensure", "alloced", "failed", "idle", "fill", "run", "ran",
           "closing", "closed"}

\* TypeOK, with the types of the requests and of what the blocks hold.
TypeInv ==
    /\ TypeOK
    /\ inbox \in Seq(Requests)
    /\ block \in [DOMAIN block -> 0..MaxOps]
    /\ op \in Ops \cup {NoOp, [name |-> "probe", size |-> 0]}

---------------------------------------------------------------------------
\* Calls.

\* At most one request has a caller; it waits at the end of that call and has
\* no answer yet.  What it is waiting for tells what it asked.
CallInv ==
    /\ pc \in {"alloced", "ran"} => after = pc
    /\ \A i \in DOMAIN inbox :
          inbox[i].waited => /\ pc = "wait" /\ answer = NoAnswer
                             /\ inbox[i].kind = "alloc" <=> after = "alloced"
                             /\ inbox[i].kind = "op" <=> after = "ran"
    /\ \A i, j \in DOMAIN inbox : inbox[i].waited /\ inbox[j].waited => i = j

\* How far the operation is: which buffers are there, how many attempts are
\* left, and how far close is.
ProgressInv ==
    /\ Place \in {"ensure", "alloced"} =>
          \/ op.name = "probe"
          \/ /\ op \in Ops /\ at \in 1..Len(Needs(op)) /\ attempts = 3 /\ n >= 1
             /\ \A i \in 1..(at - 1) : slot[Needs(op)[i][1]].handle # 0
    /\ Place = "alloced" => slot[Wanted[1]].handle = 0
    /\ Place \in {"fill", "run", "ran"} =>
          /\ op \in Ops /\ n >= 1
          /\ \A i \in 1..Len(Needs(op)) : slot[Needs(op)[i][1]].handle # 0
    /\ Place = "fill" => attempts = 3
    /\ Place = "run" => attempts >= 1
    /\ Place = "closing" =>
          at >= 1 /\ \A i \in DOMAIN Roles : i < at => slot[Roles[i]].handle = 0
    /\ Place = "closed" => \A r \in RoleSet : slot[r].handle = 0

---------------------------------------------------------------------------
\* Blocks.

\* What a request will free, what those of a queue will, and that none of them
\* frees what another does.
FreedBy(r) == IF r.kind = "free" THEN ToSet(r.handles) ELSE {}
Frees(q) == UNION {FreedBy(q[i]) : i \in DOMAIN q}
FreedOnce(q) ==
    \A i, j \in DOMAIN q : i # j => FreedBy(q[i]) \cap FreedBy(q[j]) = {}

\* BlocksAccounted, and: a block is freed by one request only, and is there
\* until then; a block in a reply is neither named nor being freed.
BlockInv ==
    /\ BlocksAccounted
    /\ Frees(inbox) \subseteq DOMAIN block
    /\ FreedOnce(inbox)
    /\ InReply \subseteq (DOMAIN block \ Frees(inbox)) \ Named

MemoryInv == TypeInv /\ CallInv /\ ProgressInv /\ BlockInv

---------------------------------------------------------------------------
\* Results.

Output == IF "dst" \in Used(op) THEN slot["dst"].handle ELSE 0

\* The inputs of this operation stay as they were filled, but for those that an
\* operation given up has written over since.
InputsKept ==
    Place \in {"run", "ran"} =>
       \A r \in Inputs(op) : block[slot[r].handle] = n \/ slot[r].handle \in stray

\* An operation with a caller is this one, and a good answer is of this one.
CallerIsThisOp ==
    \A i \in DOMAIN inbox :
       inbox[i].kind = "op" /\ inbox[i].waited =>
          /\ inbox[i].handles = [k \in DOMAIN Needs(op) |-> slot[Needs(op)[k][1]].handle]
          /\ inbox[i].out = Output

ResultIsRight == Place = "ran" /\ answer.status = "OK" => Value = n \/ Overwritten

ResultInv == InputsKept /\ CallerIsThisOp /\ ResultIsRight /\ OffloadResultIsOwn

---------------------------------------------------------------------------
\* What the operations need.

Probe == [name |-> "probe", size |-> 0]

LEMMA RoleSetIs == RoleSet = {"key", "small", "nonce", "aad", "src", "dst"}
  <1>1. DOMAIN Roles = 1..6
    BY DEF Roles
  <1>2. RoleSet = {Roles[1], Roles[2], Roles[3], Roles[4], Roles[5], Roles[6]}
    BY <1>1 DEF RoleSet
  <1>3. QED
    BY <1>2 DEF Roles

\* Every buffer an operation ensures is one of the six, and no two the same.
LEMMA NeedsFacts ==
    ASSUME OffloadAssumption, NEW o \in Ops
    PROVE  /\ DOMAIN Needs(o) = 1..Len(Needs(o)) /\ Len(Needs(o)) \in 2..5
           /\ \A i \in 1..Len(Needs(o)) :
                 Needs(o)[i][1] \in RoleSet /\ Needs(o)[i][2] \in Nat
           /\ \A i, j \in 1..Len(Needs(o)) :
                 Needs(o)[i][1] = Needs(o)[j][1] => i = j
  <1>1. o.size \in Nat /\ o.size + 1 \in Nat
    <2>1. o.size \in {0} \cup RecordSizes
      BY DEF Ops
    <2>2. RecordSizes \subseteq Nat
      BY DEF OffloadAssumption
    <2> DEFINE k == o.size
    <2>3. k \in {0} \cup RecordSizes
      BY <2>1
    <2> HIDE DEF k
    <2>4. k \in Nat
      BY <2>2, <2>3
    <2>5. k + 1 \in Nat
      BY <2>4
    <2>6. QED
      BY <2>4, <2>5 DEF k
  <1>2. o.name \in {"x25519", "derive", "keygen", "aead", "verify"}
    BY DEF Ops, OffloadAssumption
  <1>3. CASE o.name = "x25519"
    <2>1. Needs(o) = <<<<"key", 2>>, <<"small", 2>>, <<"dst", 2>>>>
      BY <1>3 DEF Needs
    <2>2. QED
      BY RoleSetIs, <2>1
  <1>4. CASE o.name = "derive"
    <2>1. Needs(o) = <<<<"key", 2>>, <<"src", 5>>, <<"dst", 2>>>>
      BY <1>4 DEF Needs
    <2>2. QED
      BY RoleSetIs, <2>1
  <1>5. CASE o.name = "keygen"
    <2>1. Needs(o) = <<<<"key", 2>>, <<"dst", 5>>>>
      BY <1>5 DEF Needs
    <2>2. QED
      BY RoleSetIs, <2>1
  <1>6. CASE o.name = "aead"
    <2>1. Needs(o) = <<<<"src", o.size>>, <<"dst", o.size + 1>>, <<"key", 2>>,
                       <<"nonce", 1>>, <<"aad", 1>>>>
      BY <1>6 DEF Needs
    <2>2. QED
      BY RoleSetIs, <1>1, <2>1
  <1>7. CASE o.name = "verify"
    <2>1. Needs(o) = <<<<"small", 2>>, <<"src", 4>>, <<"key", 5>>>>
      BY <1>7 DEF Needs
    <2>2. QED
      BY RoleSetIs, <2>1
  <1>8. QED
    BY <1>2, <1>3, <1>4, <1>5, <1>6, <1>7

\* A name is not that of the probe unless the operation is.
LEMMA ProbeIsNoOp ==
    ASSUME OffloadAssumption
    PROVE  /\ Probe.name = "probe" /\ Probe \notin Ops /\ NoOp \notin Ops
           /\ \A o \in Ops : o.name # "probe"
           /\ NoOp.name # "probe"
  BY DEF OffloadAssumption, Probe, Ops, NoOp

\* The least element of a non-empty set of handles is one of them.
LEMMA MinOfHandles ==
    ASSUME NEW T \in SUBSET Nat, T # {}
    PROVE  Min(T) \in T
  <1> DEFINE R == {ss \in Nat \X Nat : ss[1] < ss[2]}
  <1>1. IsWellFoundedOn(R, Nat)
    BY NatLessThanWellFounded DEF OpToRel
  <1> HIDE DEF R
  <1>2. PICK x \in T : \A y \in T : ~(<<y, x>> \in R)
    BY <1>1, WFMin
  <1>3. ASSUME NEW y \in T PROVE x <= y
    <2>1. x \in Nat /\ y \in Nat /\ <<y, x>> \in Nat \X Nat
      OBVIOUS
    <2>2. ~(<<y, x>>[1] < <<y, x>>[2])
      BY <1>2, <2>1 DEF R
    <2>3. QED
      BY <2>1, <2>2
  <1>4. QED
    BY <1>3 DEF Min

\* The buffer being ensured is one of the six.
LEMMA WantedFacts ==
    ASSUME OffloadAssumption, TypeInv, ProgressInv, Place \in {"ensure", "alloced"}
    PROVE  Wanted[1] \in RoleSet /\ Wanted[2] \in Nat
  <1>0. "small" \in RoleSet
    BY RoleSetIs
  <1>1. CASE op.name = "probe"
    BY <1>0, <1>1 DEF Wanted
  <1>2. CASE op.name # "probe"
    <2>1. op \in Ops /\ at \in 1..Len(Needs(op))
      BY <1>2 DEF ProgressInv
    <2>2. QED
      BY <1>2, <2>1, NeedsFacts DEF Wanted, Role, Need
  <1>3. QED
    BY <1>1, <1>2

Answers == [status : {"none", "OK", "BUSY", "ERROR", "TIMEOUT"},
            value : 0..(MaxHandles + MaxOps)]

\* Entering a blocking call.
LEMMA CallFacts ==
    ASSUME OffloadAssumption, TypeInv, NEW request \in Requests, NEW then,
           Call(request, then)
    PROVE  /\ pc' = "wait" /\ after' = then /\ answer' \in Answers
           /\ inbox' \in Seq(Requests) /\ Len(inbox') <= RingSize
           /\ \/ /\ Len(inbox) < RingSize /\ answer' = NoAnswer
                 /\ inbox' = Append(inbox, [request EXCEPT !.waited = TRUE])
              \/ /\ ~(Len(inbox) < RingSize) /\ answer' = Answer("BUSY", 0)
                 /\ inbox' = inbox
  <1>1. [request EXCEPT !.waited = TRUE] \in Requests
    BY DEF Requests
  <1>2. {MaxOps, RingSize, MaxHandles} \subseteq Nat
    BY DEF OffloadAssumption
  <1>3. inbox \in Seq(Requests) /\ Len(inbox) <= RingSize
    BY DEF TypeInv, TypeOK
  <1>4. NoAnswer \in Answers /\ Answer("BUSY", 0) \in Answers
    BY <1>2 DEF NoAnswer, Answer, Answers
  <1>5. CASE Len(inbox) < RingSize
    <2>1. /\ inbox' = Append(inbox, [request EXCEPT !.waited = TRUE])
          /\ answer' = NoAnswer
      BY <1>5 DEF Call
    <2>2. inbox' \in Seq(Requests) /\ Len(inbox') = Len(inbox) + 1
      BY <1>1, <1>3, <2>1
    <2>3. QED
      BY <1>2, <1>3, <1>4, <1>5, <2>1, <2>2 DEF Call
  <1>6. CASE ~(Len(inbox) < RingSize)
    BY <1>3, <1>4, <1>6 DEF Call
  <1>7. QED
    BY <1>5, <1>6

\* The requests the calls send are requests.
LEMMA RequestType ==
    ASSUME OffloadAssumption, NEW kind \in {"alloc", "free", "op"},
           NEW handles \in Seq(0..MaxHandles), NEW out \in 0..MaxHandles
    PROVE  Request(kind, handles, out) \in Requests
  BY DEF Request, Requests

LEMMA FreeRequestType ==
    ASSUME OffloadAssumption, NEW h \in 0..MaxHandles
    PROVE  Request("free", <<h>>, 0) \in Requests
  <1>1. <<h>> \in Seq(0..MaxHandles) /\ 0 \in 0..MaxHandles
    BY DEF OffloadAssumption
  <1>2. QED
    BY <1>1, RequestType

\* The queue without one of its requests.
Up(i, j) == IF j < i THEN j ELSE j + 1

LEMMA OthersFacts ==
    ASSUME TypeInv, NEW i \in DOMAIN inbox
    PROVE  /\ Others(i) \in Seq(Requests) /\ Len(Others(i)) = Len(inbox) - 1
           /\ DOMAIN Others(i) = 1..(Len(inbox) - 1) /\ DOMAIN inbox = 1..Len(inbox)
           /\ \A j \in 1..(Len(inbox) - 1) :
                 Others(i)[j] = inbox[Up(i, j)] /\ Up(i, j) \in DOMAIN inbox \ {i}
           /\ \A k \in DOMAIN inbox \ {i} : \E j \in 1..(Len(inbox) - 1) : k = Up(i, j)
           /\ \A j, k \in 1..(Len(inbox) - 1) : Up(i, j) = Up(i, k) => j = k
  <1>1. inbox \in Seq(Requests) /\ Len(inbox) \in Nat /\ DOMAIN inbox = 1..Len(inbox)
    BY DEF TypeInv
  <1> DEFINE m == Len(inbox) - 1
  <1>2. m \in Nat /\ i \in 1..(m + 1) /\ Len(inbox) = m + 1
    BY <1>1
  <1> HIDE DEF m
  <1>3. \A j \in 1..m : Up(i, j) \in (1..(m + 1)) \ {i}
    BY <1>2 DEF Up
  <1>4. \A k \in (1..(m + 1)) \ {i} : \E j \in 1..m : k = Up(i, j)
    <2>1. ASSUME NEW k \in (1..(m + 1)) \ {i}
          PROVE  \E j \in 1..m : k = Up(i, j)
      <3>1. CASE k < i
        <4>1. k \in 1..m /\ Up(i, k) = k
          BY <1>2, <3>1 DEF Up
        <4>2. QED
          BY <4>1
      <3>2. CASE ~(k < i)
        <4>1. k - 1 \in 1..m /\ Up(i, k - 1) = k
          BY <1>2, <2>1, <3>2 DEF Up
        <4>2. QED
          BY <4>1
      <3>3. QED
        BY <3>1, <3>2
    <2>2. QED
      BY <2>1
  <1>5. \A j, k \in 1..m : Up(i, j) = Up(i, k) => j = k
    BY <1>2 DEF Up
  <1>6. Others(i) = [j \in 1..m |-> inbox[Up(i, j)]]
    BY DEF Others, Up, m
  <1>7. \A j \in 1..m : inbox[Up(i, j)] \in Requests
    BY <1>1, <1>2, <1>3
  <1>8. /\ Others(i) \in Seq(Requests) /\ Len(Others(i)) = m
        /\ DOMAIN Others(i) = 1..m
        /\ \A j \in 1..m : Others(i)[j] = inbox[Up(i, j)]
    BY <1>2, <1>6, <1>7
  <1>9. QED
    BY <1>1, <1>2, <1>3, <1>4, <1>5, <1>8 DEF m

---------------------------------------------------------------------------
\* Types.

\* A context starts before zz9k_offload_open, or is closed from the start.
Starts == {"open", "closed"}

LEMMA TypeInit ==
    ASSUME OffloadAssumption, NEW place \in Starts, InitAt(place)
    PROVE  TypeInv
  <1>1. DOMAIN block = {} /\ block \in [{} -> 0..MaxOps]
    BY DEF InitAt
  <1>2. inbox \in Seq(Requests) /\ Len(inbox) = 0
    BY DEF InitAt
  <1>3. slot \in [RoleSet -> [handle : 0..MaxHandles, length : Nat]]
    BY DEF InitAt, NoBuffer, OffloadAssumption
  <1>4. answer \in Answers
    BY DEF InitAt, NoAnswer, Answer, Answers, OffloadAssumption
  <1>5. MaxOps \in Nat /\ RingSize \in Nat
    BY DEF OffloadAssumption
  <1>6. TypeOK
    <2>1. /\ window \in {"known", "unknown", "none"}
          /\ pc = place /\ after = "open" /\ n = 0 /\ at = 1
          /\ attempts = 0 /\ outcome = "none" /\ lost = {} /\ stray = {}
      BY DEF InitAt
    <2>2. n \in 0..MaxOps /\ at \in Nat /\ attempts \in 0..3 /\ Len(inbox) <= RingSize
      BY <1>2, <1>5, <2>1
    <2>3. QED
      BY <1>1, <1>3, <1>4, <2>1, <2>2 DEF TypeOK, Answers, Starts
  <1>7. QED
    BY <1>1, <1>2, <1>6 DEF InitAt, TypeInv

Bounds == MaxOps \in Nat /\ RingSize \in Nat /\ MaxHandles \in Nat

LEMMA BoundsHold == OffloadAssumption => Bounds
  BY DEF OffloadAssumption, Bounds

\* A card's reply has the type of an answer.
LEMMA DeliverType ==
    ASSUME OffloadAssumption, TypeInv, NEW i \in DOMAIN inbox,
           NEW status \in {"OK", "BUSY", "ERROR"},
           NEW value \in 0..(MaxHandles + MaxOps), Deliver(i, status, value)
    PROVE  /\ inbox' \in Seq(Requests) /\ Len(inbox') <= RingSize
           /\ answer' \in Answers
  <1>1. Answer(status, value) \in Answers /\ answer \in Answers
    BY DEF Answer, Answers, TypeInv, TypeOK
  <1>2. Len(inbox) \in Nat /\ Len(inbox) <= RingSize
    BY DEF TypeInv, TypeOK
  <1>3. QED
    BY <1>1, <1>2, OthersFacts, BoundsHold DEF Deliver, Bounds

\* What the card computes is the number of an operation, or 0.
LEMMA ComputedType ==
    ASSUME TypeInv, NEW S, S \subseteq DOMAIN block, MaxOps \in Nat
    PROVE  Computed(S) \in 0..MaxOps
  <1> DEFINE held == {block[h] : h \in S}
  <1>1. held \subseteq 0..MaxOps
    BY DEF TypeInv
  <1>2. CASE Cardinality(held) = 1
    <2>1. held # {}
      BY <1>2, FS_EmptySet
    <2>2. (CHOOSE x \in held : TRUE) \in held
      BY <2>1
    <2>3. Computed(S) = CHOOSE x \in held : TRUE
      BY <1>2 DEF Computed
    <2>4. QED
      BY <1>1, <2>2, <2>3
  <1>3. CASE Cardinality(held) # 1
    BY <1>3 DEF Computed
  <1>4. QED
    BY <1>2, <1>3

---------------------------------------------------------------------------
\* The steps of the task, by what they do to the queue.

\* Steps of the task that neither enter nor leave a call.
Local == \/ Open \/ EnsureHas \/ EnsureRefresh \/ EnsureUnsupported \/ AllocFails
         \/ AllocTakes \/ Begin \/ Fill \/ RunAgain \/ CopyOut \/ Fallback
         \/ Close \/ CloseSkips \/ Closed

LEMMA LocalSteps ==
    ASSUME Local
    PROVE  /\ pc # "wait" /\ pc' \notin {"wait", "alloced", "ran", "open"}
           /\ UNCHANGED <<after, answer, inbox, lost>>
  <1>1. CASE Open \/ EnsureHas \/ EnsureUnsupported \/ AllocFails
    BY <1>1 DEF Open, EnsureHas, EnsureUnsupported, AllocFails, card
  <1>2. CASE EnsureRefresh \/ AllocTakes \/ Begin \/ Fill
    BY <1>2 DEF EnsureRefresh, AllocTakes, Begin, Fill, card
  <1>3. CASE RunAgain \/ CopyOut \/ Fallback
    BY <1>3 DEF RunAgain, CopyOut, Fallback, card
  <1>4. CASE Close \/ CloseSkips \/ Closed
    BY <1>4 DEF Close, CloseSkips, Closed, card
  <1>5. QED
    BY <1>1, <1>2, <1>3, <1>4 DEF Local

\* The block a call gives back, if it is one that frees.
GivenBack == CASE pc = "ensure"  -> slot[Wanted[1]].handle
               [] pc = "alloced" -> answer.value
               [] OTHER          -> slot[Roles[at]].handle

\* The steps that give a block back, and where they go on.
Freer(then) ==
    \/ EnsureGrow /\ then = "ensure"
    \/ AllocUnusable /\ then = "failed"
    \/ CloseFrees /\ then = "closing"

LEMMA FreerSteps ==
    ASSUME OffloadAssumption, MemoryInv, NEW then, Freer(then)
    PROVE  /\ pc # "wait" /\ GivenBack \in 1..MaxHandles
           /\ Call(Request("free", <<GivenBack>>, 0), then)
           /\ Request("free", <<GivenBack>>, 0) \in Requests
           /\ lost' = Refused(GivenBack) /\ block' = block
           /\ UNCHANGED <<op, n, at, attempts, outcome, stray>>
           /\ \/ /\ then = "failed" /\ slot' = slot /\ pc = "alloced"
                 /\ InReply = {GivenBack}
              \/ /\ then # "failed" /\ pc = then
                 /\ \E r \in RoleSet : /\ slot[r].handle = GivenBack
                                       /\ slot' = [slot EXCEPT ![r] = NoBuffer]
  <1> USE BoundsHold DEF Bounds
  <1>a. TypeInv /\ TypeOK /\ ProgressInv
    BY DEF MemoryInv, TypeInv
  <1>1. ASSUME GivenBack \in 1..MaxHandles
        PROVE  Request("free", <<GivenBack>>, 0) \in Requests
    BY <1>1, FreeRequestType
  <1>2. CASE EnsureGrow /\ then = "ensure"
    <2>1. Wanted[1] \in RoleSet
      BY <1>2, <1>a, WantedFacts DEF EnsureGrow, Place
    <2>2. GivenBack = slot[Wanted[1]].handle
      BY <1>2 DEF EnsureGrow, GivenBack
    <2>3. GivenBack \in 1..MaxHandles
      BY <1>2, <1>a, <2>1, <2>2 DEF EnsureGrow, TypeOK
    <2>4. QED
      BY <1>1, <1>2, <2>1, <2>2, <2>3 DEF EnsureGrow
  <1>3. CASE AllocUnusable /\ then = "failed"
    <2>1. GivenBack = answer.value /\ InReply = {answer.value}
      BY <1>3 DEF AllocUnusable, GivenBack, InReply, MemoryInv, CallInv
    <2>2. GivenBack \in 1..MaxHandles
      BY <1>a, <2>1 DEF MemoryInv, BlockInv, TypeOK
    <2>3. QED
      BY <1>1, <1>3, <2>1, <2>2 DEF AllocUnusable, UnusableIsFreed, scratch
  <1>4. CASE CloseFrees /\ then = "closing"
    <2>1. Roles[at] \in RoleSet
      BY SMTT(30), <1>4, <1>a
         DEF CloseFrees, AllRoles, Roles, RoleSet, ProgressInv, Place, TypeOK
    <2>2. GivenBack = slot[Roles[at]].handle
      BY <1>4 DEF CloseFrees, GivenBack
    <2>3. GivenBack \in 1..MaxHandles
      BY <1>4, <1>a, <2>1, <2>2 DEF CloseFrees, TypeOK
    <2>4. QED
      BY <1>1, <1>4, <2>1, <2>2, <2>3 DEF CloseFrees
  <1>5. QED
    BY <1>2, <1>3, <1>4 DEF Freer

\* The steps that ask for a block or for an operation.
LEMMA AllocStep ==
    ASSUME OffloadAssumption, EnsureAlloc
    PROVE  /\ pc = "ensure" /\ Call(Request("alloc", <<>>, 0), "alloced")
           /\ Request("alloc", <<>>, 0) \in Requests
           /\ UNCHANGED <<slot, op, n, at, attempts, outcome, block, lost, stray>>
  BY BoundsHold DEF EnsureAlloc, scratch, Request, Requests, Bounds

OpRequest == Request("op", [i \in DOMAIN Needs(op) |-> slot[Needs(op)[i][1]].handle],
                     Output)

LEMMA RunStep ==
    ASSUME OffloadAssumption, MemoryInv, Run
    PROVE  /\ pc = "run" /\ Call(OpRequest, "ran") /\ OpRequest \in Requests
           /\ UNCHANGED <<slot, op, n, at, outcome, block, lost, stray>>
  <1>a. TypeInv /\ TypeOK /\ ProgressInv
    BY DEF MemoryInv, TypeInv
  <1>1. op \in Ops
    BY <1>a DEF Run, ProgressInv, Place
  <1>2. [i \in DOMAIN Needs(op) |-> slot[Needs(op)[i][1]].handle] \in Seq(0..MaxHandles)
    <2>1. /\ DOMAIN Needs(op) = 1..Len(Needs(op)) /\ Len(Needs(op)) \in Nat
          /\ \A i \in 1..Len(Needs(op)) : Needs(op)[i][1] \in RoleSet
      BY <1>1, NeedsFacts
    <2>2. \A i \in 1..Len(Needs(op)) : slot[Needs(op)[i][1]].handle \in 0..MaxHandles
      BY <1>a, <2>1 DEF TypeOK
    <2>3. QED
      BY <2>1, <2>2
  <1>3. Output \in 0..MaxHandles
    <2>1. "dst" \in RoleSet
      BY RoleSetIs
    <2>2. QED
      BY <1>a, <2>1, BoundsHold DEF Output, TypeOK, Bounds
  <1>4. OpRequest \in Requests
    BY <1>2, <1>3, RequestType DEF OpRequest
  <1>5. QED
    BY <1>4 DEF Run, OpRequest, Output, scratch

LEMMA NoCaller ==
    ASSUME CallInv, pc # "wait" \/ answer # NoAnswer
    PROVE  \A i \in DOMAIN inbox : ~inbox[i].waited
  BY DEF CallInv

---------------------------------------------------------------------------
\* Types, continued: every step.

LEMMA TypeStep ==
    ASSUME OffloadAssumption, MemoryInv, [Next]_vars
    PROVE  TypeInv'
  <1> USE BoundsHold DEF Bounds
  <1>a. TypeInv /\ TypeOK /\ ProgressInv
    BY DEF MemoryInv, TypeInv
  <1>0. Place \in {"ensure", "alloced"} => Wanted[1] \in RoleSet /\ Wanted[2] \in Nat
    BY <1>a, WantedFacts
  <1>1. CASE Open \/ EnsureHas \/ EnsureUnsupported \/ AllocFails
    BY <1>1, <1>a DEF Open, EnsureHas, EnsureUnsupported, AllocFails, TypeInv, TypeOK,
                scratch, card
  <1>2. CASE EnsureRefresh
    <2>1. window' \in {"known", "unknown", "none"}
      BY <1>2, <1>a DEF EnsureRefresh, TypeOK
    <2>2. pc' \in {"ensure", "failed"}
      BY <1>2 DEF EnsureRefresh
    <2>3. QED
      BY <1>2, <1>a, <2>1, <2>2 DEF EnsureRefresh, TypeInv, TypeOK, card
  <1>3. CASE RunAgain \/ CopyOut \/ Fallback \/ Close \/ CloseSkips
    BY <1>3, <1>a DEF RunAgain, CopyOut, Fallback, Close, CloseSkips, TypeInv, TypeOK,
                scratch, card
  <1>4. CASE TakeReply
    BY <1>4, <1>a DEF TakeReply, TypeInv, TypeOK, scratch, card
  <1>5. CASE Begin
    <2>1. n' \in 0..MaxOps
      BY <1>5, <1>a DEF Begin, TypeOK
    <2>2. QED
      BY <1>5, <1>a, <2>1 DEF Begin, TypeInv, TypeOK, scratch, card
  <1>6. CASE Closed
    <2>1. slot' \in [RoleSet -> [handle : 0..MaxHandles, length : Nat]]
      BY <1>6 DEF Closed, NoBuffer
    <2>2. QED
      BY <1>6, <1>a, <2>1 DEF Closed, TypeInv, TypeOK, card
  <1>7. CASE AllocTakes
    <2>1. Wanted[1] \in RoleSet /\ Wanted[2] \in Nat
      BY <1>0, <1>7 DEF AllocTakes, Place
    <2>2. InReply = {answer.value}
      BY <1>7 DEF AllocTakes, InReply, MemoryInv, CallInv
    <2>3. answer.value \in 1..MaxHandles
      BY <1>a, <2>2 DEF MemoryInv, BlockInv, TypeOK
    <2>4. [handle |-> answer.value, length |-> Wanted[2]]
             \in [handle : 0..MaxHandles, length : Nat]
      BY <2>1, <2>3
    <2>5. slot' \in [RoleSet -> [handle : 0..MaxHandles, length : Nat]]
      BY <1>7, <1>a, <2>1, <2>4 DEF AllocTakes, TypeOK
    <2>6. QED
      BY <1>7, <1>a, <2>5 DEF AllocTakes, TypeInv, TypeOK, card
  <1>8. CASE Fill
    <2>1. block' \in [DOMAIN block' -> 0..MaxOps] /\ DOMAIN block' = DOMAIN block
      BY <1>8, <1>a DEF Fill, TypeInv, TypeOK
    <2>2. QED
      BY <1>8, <1>a, <2>1 DEF Fill, TypeInv, TypeOK, scratch
  <1>9. CASE GiveUp
    <2>1. \A r \in Requests : [r EXCEPT !.waited = FALSE] \in Requests
      BY DEF Requests
    <2>2. inbox \in Seq(Requests)
      BY <1>a DEF TypeInv
    <2>3. inbox' \in Seq(Requests) /\ Len(inbox') = Len(inbox)
      <3>1. DOMAIN inbox = 1..Len(inbox) /\ Len(inbox) \in Nat
        BY <2>2
      <3>2. \A i \in 1..Len(inbox) : [inbox[i] EXCEPT !.waited = FALSE] \in Requests
        BY <2>1, <2>2
      <3>3. inbox' = [i \in 1..Len(inbox) |-> [inbox[i] EXCEPT !.waited = FALSE]]
        BY <1>9, <3>1 DEF GiveUp
      <3>4. QED
        BY <3>1, <3>2, <3>3
    <2>4. answer' \in Answers
      BY <1>9 DEF GiveUp, Answer, Answers
    <2>5. QED
      BY <1>9, <1>a, <2>3, <2>4 DEF GiveUp, TypeInv, TypeOK, Answers, scratch
  <1>10. ASSUME NEW request \in Requests,
                NEW then \in {"ensure", "alloced", "failed", "ran", "closing"},
                Call(request, then),
                slot' \in [RoleSet -> [handle : 0..MaxHandles, length : Nat]],
                lost' \subseteq 1..MaxHandles, attempts' \in 0..3,
                UNCHANGED <<window, op, n, at, outcome, block, stray>>
         PROVE  TypeInv'
    BY <1>10, <1>a, CallFacts DEF TypeInv, TypeOK, Answers
  <1>11. NoBuffer \in [handle : 0..MaxHandles, length : Nat]
    BY DEF NoBuffer
  <1>12. ASSUME NEW then \in {"ensure", "failed", "closing"}, Freer(then)
         PROVE  TypeInv'
    <2>1. /\ Call(Request("free", <<GivenBack>>, 0), then)
          /\ Request("free", <<GivenBack>>, 0) \in Requests
          /\ UNCHANGED <<op, n, at, attempts, outcome, block, stray>>
      BY <1>12, FreerSteps
    <2>2. slot' \in [RoleSet -> [handle : 0..MaxHandles, length : Nat]]
      BY <1>11, <1>12, <1>a, FreerSteps DEF TypeOK
    <2>3. lost' \subseteq 1..MaxHandles
      BY <1>12, <1>a, FreerSteps DEF Refused, TypeOK
    <2>4. UNCHANGED window
      BY <1>12 DEF Freer, EnsureGrow, AllocUnusable, CloseFrees, scratch
    <2>5. attempts' \in 0..3
      BY <1>a, <2>1 DEF TypeOK
    <2>6. QED
      BY <1>10, <2>1, <2>2, <2>3, <2>4, <2>5
  <1>13. CASE EnsureGrow \/ AllocUnusable \/ CloseFrees
    BY <1>12, <1>13 DEF Freer
  <1>14. CASE EnsureAlloc
    BY <1>10, <1>14, <1>a, AllocStep DEF EnsureAlloc, TypeOK, scratch
  <1>15. CASE Run
    <2>1. Call(OpRequest, "ran") /\ OpRequest \in Requests
      BY <1>15, RunStep
    <2>2. attempts' \in 0..3
      BY <1>15, <1>a DEF Run, ProgressInv, Place, TypeOK
    <2>3. QED
      BY <1>10, <1>15, <1>a, <2>1, <2>2 DEF Run, TypeOK, scratch
  <1>16. ASSUME NEW i \in DOMAIN inbox, CardAllocates(i) \/ CardFrees(i) \/ CardComputes(i)
         PROVE  /\ inbox' \in Seq(Requests) /\ Len(inbox') <= RingSize
                /\ answer' \in Answers
                /\ DOMAIN block' \subseteq 1..MaxHandles
                /\ block' \in [DOMAIN block' -> 0..MaxOps]
                /\ lost' \subseteq 1..MaxHandles
    <2>1. CASE CardAllocates(i)
      <3>1. CASE FreeHandles = {}
        <4>1. Deliver(i, "ERROR", 0) /\ UNCHANGED <<block, lost>>
          BY <2>1, <3>1 DEF CardAllocates
        <4>2. QED
          <5>1. inbox' \in Seq(Requests) /\ Len(inbox') <= RingSize /\ answer' \in Answers
            BY <1>a, <4>1, DeliverType
          <5>2. QED
            BY <1>a, <4>1, <5>1 DEF TypeInv, TypeOK
      <3>2. CASE FreeHandles # {}
        <4> DEFINE h == Min(FreeHandles)
        <4>1. h \in FreeHandles
          <5>1. FreeHandles \in SUBSET Nat
            BY DEF FreeHandles
          <5>2. QED
            BY <3>2, <5>1, MinOfHandles
        <4> HIDE DEF h
        <4>2. h \in 1..MaxHandles /\ h \in 0..(MaxHandles + MaxOps)
          BY <4>1 DEF FreeHandles
        <4>3. /\ block' = [x \in DOMAIN block \cup {h} |-> IF x = h THEN 0 ELSE block[x]]
              /\ lost' \in {lost, lost \cup {h}}
              /\ Deliver(i, "OK", h)
          BY <2>1, <3>2 DEF CardAllocates, h
        <4>4. DOMAIN block' = DOMAIN block \cup {h}
          BY <4>3
        <4>5. QED
          BY SMTT(30), <1>a, <4>2, <4>3, <4>4, DeliverType DEF TypeInv, TypeOK
      <3>3. QED
        BY <3>1, <3>2
    <2>2. CASE CardFrees(i)
      <3>1. /\ block' = [x \in DOMAIN block \ ToSet(inbox[i].handles) |-> block[x]]
            /\ Deliver(i, "OK", 0) /\ lost' = lost
        BY <2>2 DEF CardFrees
      <3>2. QED
        BY SMTT(30), <1>a, <3>1, DeliverType DEF TypeInv, TypeOK
    <2>3. CASE CardComputes(i)
      <3> DEFINE handles == ToSet(inbox[i].handles)
                 out     == inbox[i].out
                 value   == Computed(handles \ {out})
      <3>1. CASE /\ handles \subseteq DOMAIN block
                 /\ block' = [h \in DOMAIN block |-> IF h = out THEN value ELSE block[h]]
                 /\ Deliver(i, "OK", IF out = 0 THEN value ELSE 0)
        <4>1. value \in 0..MaxOps
          BY <1>a, <3>1, ComputedType
        <4> HIDE DEF value, out, handles
        <4>2. (IF out = 0 THEN value ELSE 0) \in 0..(MaxHandles + MaxOps)
          BY <4>1
        <4>3. lost' = lost
          BY <2>3 DEF CardComputes
        <4>4. block' \in [DOMAIN block' -> 0..MaxOps] /\ DOMAIN block' = DOMAIN block
          BY <1>a, <3>1, <4>1 DEF TypeInv
        <4>5. inbox' \in Seq(Requests) /\ Len(inbox') <= RingSize /\ answer' \in Answers
          BY <1>a, <3>1, <4>2, DeliverType
        <4>6. QED
          BY <1>a, <4>3, <4>4, <4>5 DEF TypeOK
      <3>2. CASE /\ \E status \in {"BUSY", "ERROR"} : Deliver(i, status, 0)
                 /\ UNCHANGED block
        <4>1. lost' = lost
          BY <2>3 DEF CardComputes
        <4>2. QED
          <5>1. inbox' \in Seq(Requests) /\ Len(inbox') <= RingSize /\ answer' \in Answers
            BY <1>a, <3>2, DeliverType
          <5>2. QED
            BY <1>a, <3>2, <4>1, <5>1 DEF TypeInv, TypeOK
      <3>3. QED
        BY <2>3, <3>1, <3>2 DEF CardComputes
    <2>4. QED
      BY <1>16, <2>1, <2>2, <2>3
  <1>17. CASE CardExecutes
    <2>1. UNCHANGED <<window, slot, pc, after, op, n, at, attempts, outcome>>
      BY <1>17 DEF CardExecutes, scratch
    <2>2. PICK i \in DOMAIN inbox : CardAllocates(i) \/ CardFrees(i) \/ CardComputes(i)
      BY <1>17 DEF CardExecutes
    <2>3. /\ inbox' \in Seq(Requests) /\ Len(inbox') <= RingSize /\ answer' \in Answers
          /\ DOMAIN block' \subseteq 1..MaxHandles
          /\ block' \in [DOMAIN block' -> 0..MaxOps] /\ lost' \subseteq 1..MaxHandles
      BY <1>16, <2>2
    <2>4. stray' \subseteq stray \cup ({inbox[i].out} \ {0})
      BY <2>2 DEF CardAllocates, CardFrees, CardComputes
    <2>5. inbox[i].out \in 0..MaxHandles
      <3>1. inbox[i] \in Requests
        BY <1>a DEF TypeInv
      <3>2. QED
        BY <3>1 DEF Requests
    <2>6. stray' \subseteq 1..MaxHandles
      BY <1>a, <2>4, <2>5 DEF TypeOK
    <2>7. QED
      BY <1>a, <2>1, <2>3, <2>6 DEF TypeInv, TypeOK, Answers
  <1>18. CASE UNCHANGED vars
    BY <1>18, <1>a DEF vars, TypeInv, TypeOK
  <1>19. QED
    BY <1>1, <1>2, <1>3, <1>4, <1>5, <1>6, <1>7, <1>8, <1>9, <1>13, <1>14, <1>15,
       <1>17, <1>18 DEF Next, Host

---------------------------------------------------------------------------
\* Calls and progress.

\* What CallInv says of one request: what its caller, if any, waits for.
LEMMA EnterKeepsCalls ==
    ASSUME OffloadAssumption, TypeInv, CallInv, pc # "wait",
           NEW request \in Requests, NEW then, Call(request, then), ~request.waited,
           request.kind = "alloc" <=> then = "alloced",
           request.kind = "op" <=> then = "ran"
    PROVE  CallInv'
  <1>1. \A i \in DOMAIN inbox : ~inbox[i].waited
    BY NoCaller
  <1>2. pc' = "wait" /\ after' = then
    BY CallFacts
  <1> DEFINE r == [request EXCEPT !.waited = TRUE]
  <1>3. CASE inbox' = Append(inbox, r) /\ answer' = NoAnswer
    <2>1. r.kind = request.kind
      BY DEF Requests
    <2>2. inbox \in Seq(Requests)
      BY DEF TypeInv
    <2> HIDE DEF r
    <2>3. /\ DOMAIN inbox' = 1..(Len(inbox) + 1) /\ Len(inbox) \in Nat
          /\ inbox'[Len(inbox) + 1] = r /\ DOMAIN inbox = 1..Len(inbox)
          /\ \A i \in 1..Len(inbox) : inbox'[i] = inbox[i]
      BY <1>3, <2>2
    <2>4. \A i \in DOMAIN inbox' : inbox'[i].waited => i = Len(inbox) + 1
      BY <1>1, <2>3
    <2>5. QED
      BY <1>2, <1>3, <2>1, <2>3, <2>4 DEF CallInv
  <1>4. CASE inbox' = inbox
    BY <1>1, <1>2, <1>4 DEF CallInv
  <1>5. QED
    BY <1>3, <1>4, CallFacts

LEMMA FieldsOfRequest ==
    ASSUME NEW kind, NEW handles, NEW out
    PROVE  /\ Request(kind, handles, out).kind = kind
           /\ Request(kind, handles, out).handles = handles
           /\ Request(kind, handles, out).out = out
           /\ ~Request(kind, handles, out).waited
  BY DEF Request

\* The card answers the request with a caller, or another.
LEMMA DeliverKeepsCalls ==
    ASSUME TypeInv, CallInv, NEW i \in DOMAIN inbox,
           NEW status \in {"OK", "BUSY", "ERROR"}, NEW value,
           Deliver(i, status, value), UNCHANGED <<pc, after>>
    PROVE  CallInv'
  <1>1. /\ inbox' = Others(i)
        /\ inbox[i].waited => \A j \in DOMAIN inbox : inbox[j].waited => j = i
        /\ ~inbox[i].waited => answer' = answer
    BY DEF Deliver, CallInv
  <1>2. \A j \in DOMAIN inbox' :
           inbox'[j] = inbox[Up(i, j)] /\ Up(i, j) \in DOMAIN inbox \ {i}
    BY <1>1, OthersFacts
  <1>3. CASE inbox[i].waited
    <2>1. \A j \in DOMAIN inbox' : ~inbox'[j].waited
      BY <1>1, <1>2, <1>3
    <2>2. QED
      BY <2>1 DEF CallInv
  <1>4. CASE ~inbox[i].waited
    <2>1. \A j \in DOMAIN inbox' : inbox'[j].waited =>
             /\ pc = "wait" /\ answer = NoAnswer
             /\ inbox'[j].kind = "alloc" <=> after = "alloced"
             /\ inbox'[j].kind = "op" <=> after = "ran"
      BY <1>2 DEF CallInv
    <2>2. ASSUME NEW j \in DOMAIN inbox', NEW k \in DOMAIN inbox',
                 inbox'[j].waited, inbox'[k].waited
          PROVE  j = k
      <3>1. /\ inbox'[j] = inbox[Up(i, j)] /\ Up(i, j) \in DOMAIN inbox
            /\ inbox'[k] = inbox[Up(i, k)] /\ Up(i, k) \in DOMAIN inbox
            /\ Up(i, j) = Up(i, k) => j = k
        BY <1>1, OthersFacts
      <3>2. Up(i, j) = Up(i, k)
        BY <2>2, <3>1 DEF CallInv
      <3>3. QED
        BY <3>1, <3>2
    <2>3. pc' \in {"alloced", "ran"} => after' = pc'
      BY DEF CallInv
    <2>4. QED
      BY <1>1, <1>4, <2>1, <2>2, <2>3 DEF CallInv
  <1>5. QED
    BY <1>3, <1>4

\* Every step of the card delivers one answer.
LEMMA CardDelivers ==
    ASSUME OffloadAssumption, TypeInv, CardExecutes
    PROVE  /\ \E i \in DOMAIN inbox, status \in {"OK", "BUSY", "ERROR"} : \E value :
                 Deliver(i, status, value)
           /\ UNCHANGED <<slot, pc, after, op, n, at, attempts, outcome>>
  <1>1. PICK i \in DOMAIN inbox : CardAllocates(i) \/ CardFrees(i) \/ CardComputes(i)
    BY DEF CardExecutes
  <1>2. CASE CardAllocates(i)
    BY <1>2 DEF CardAllocates, CardExecutes, scratch
  <1>3. CASE CardFrees(i)
    BY <1>3 DEF CardFrees, CardExecutes, scratch
  <1>4. CASE CardComputes(i)
    BY <1>4 DEF CardComputes, CardExecutes, scratch
  <1>5. QED
    BY <1>1, <1>2, <1>3, <1>4

LEMMA CallInvStep ==
    ASSUME OffloadAssumption, MemoryInv, [Next]_vars
    PROVE  CallInv'
  <1>a. TypeInv /\ TypeOK /\ CallInv /\ ProgressInv
    BY DEF MemoryInv, TypeInv
  <1>1. CASE Local
    BY <1>1, <1>a, LocalSteps, NoCaller DEF CallInv
  <1>2. CASE TakeReply
    <2>1. pc' = after /\ UNCHANGED <<after, inbox>> /\ answer # NoAnswer
      BY <1>2 DEF TakeReply, card
    <2>2. QED
      BY <1>a, <2>1, NoCaller DEF CallInv
  <1>3. CASE GiveUp
    <2>1. pc' = after /\ UNCHANGED after
      BY <1>3 DEF GiveUp
    <2>2. \A i \in DOMAIN inbox' : ~inbox'[i].waited
      <3>1. /\ inbox' = [i \in DOMAIN inbox |-> [inbox[i] EXCEPT !.waited = FALSE]]
            /\ \A i \in DOMAIN inbox : inbox[i] \in Requests
        BY <1>3, <1>a DEF GiveUp, TypeInv
      <3>2. \A i \in DOMAIN inbox : ~[inbox[i] EXCEPT !.waited = FALSE].waited
        BY <3>1 DEF Requests
      <3>3. QED
        BY <3>1, <3>2
    <2>3. QED
      BY <2>1, <2>2 DEF CallInv
  <1>4. ASSUME NEW then \in {"ensure", "failed", "closing"}, Freer(then)
        PROVE  CallInv'
    BY <1>4, <1>a, FreerSteps, FieldsOfRequest, EnterKeepsCalls
  <1>5. CASE EnsureAlloc
    BY <1>5, <1>a, AllocStep, FieldsOfRequest, EnterKeepsCalls
  <1>6. CASE Run
    BY <1>6, <1>a, RunStep, FieldsOfRequest, EnterKeepsCalls DEF OpRequest
  <1>7. CASE CardExecutes
    <2>1. UNCHANGED <<pc, after>>
      BY <1>7, <1>a, CardDelivers
    <2>2. PICK i \in DOMAIN inbox, status \in {"OK", "BUSY", "ERROR"} :
             \E value : Deliver(i, status, value)
      BY <1>7, <1>a, CardDelivers
    <2>3. PICK value : Deliver(i, status, value)
      BY <2>2
    <2>4. QED
      BY <1>a, <2>1, <2>3, DeliverKeepsCalls
  <1>8. CASE UNCHANGED vars
    BY <1>8, <1>a DEF vars, CallInv
  <1>9. QED
    BY <1>1, <1>2, <1>3, <1>4, <1>5, <1>6, <1>7, <1>8 DEF Next, Host, Local, Freer

---------------------------------------------------------------------------
\* Progress: every step.

\* A step that changes neither the place nor the scratch buffers, nor how far
\* the operation is.
LEMMA SameProgress ==
    ASSUME ProgressInv, Place' = Place, UNCHANGED <<slot, op, n, at, attempts>>
    PROVE  ProgressInv'
  BY DEF ProgressInv, Wanted, Role, Need

\* A buffer that is not one of the first at - 1 changes.
LEMMA OtherBufferChanges ==
    ASSUME OffloadAssumption, TypeInv, ProgressInv, Place \in {"ensure", "alloced"},
           NEW b, slot' = [slot EXCEPT ![Wanted[1]] = b], op.name # "probe"
    PROVE  /\ op \in Ops /\ at \in 1..Len(Needs(op)) /\ attempts = 3 /\ n >= 1
           /\ \A i \in 1..(at - 1) : slot'[Needs(op)[i][1]].handle # 0
  <1>1. /\ op \in Ops /\ at \in 1..Len(Needs(op)) /\ attempts = 3 /\ n >= 1
        /\ \A i \in 1..(at - 1) : slot[Needs(op)[i][1]].handle # 0
    BY DEF ProgressInv
  <1>2. Wanted[1] = Needs(op)[at][1]
    BY DEF Wanted, Role
  <1>3. ASSUME NEW i \in 1..(at - 1)
        PROVE  slot'[Needs(op)[i][1]].handle # 0
    <2>1. i \in 1..Len(Needs(op)) /\ i # at
      BY <1>1, NeedsFacts
    <2>2. Needs(op)[i][1] # Needs(op)[at][1] /\ Needs(op)[i][1] \in RoleSet
      BY <1>1, <2>1, NeedsFacts
    <2>3. slot'[Needs(op)[i][1]] = slot[Needs(op)[i][1]]
      BY <1>2, <2>2 DEF TypeInv, TypeOK
    <2>4. QED
      BY <1>1, <2>3
  <1>4. QED
    BY <1>1, <1>3

LEMMA ProgressLocal ==
    ASSUME OffloadAssumption, TypeInv, ProgressInv, Local
    PROVE  ProgressInv'
  <1>0. Place = pc /\ Place' = pc' /\ TypeOK
    BY LocalSteps DEF Place, TypeInv
  <1>1. CASE Open
    BY <1>0, <1>1 DEF Open, ProgressInv
  <1>2. CASE EnsureHas
    <2>1. CASE op.name = "probe"
      BY <1>0, <1>2, <2>1 DEF EnsureHas, ProgressInv, LastBuffer
    <2>2. CASE op.name # "probe"
      <3>1. /\ op \in Ops /\ at \in 1..Len(Needs(op)) /\ attempts = 3 /\ n >= 1
            /\ \A i \in 1..(at - 1) : slot[Needs(op)[i][1]].handle # 0
            /\ Len(Needs(op)) \in Nat
        BY <1>0, <1>2, <2>2, NeedsFacts DEF EnsureHas, ProgressInv
      <3>2. slot[Needs(op)[at][1]].handle # 0
        BY <1>2, <2>2 DEF EnsureHas, Wanted, Role
      <3>3. \A i \in 1..at : slot[Needs(op)[i][1]].handle # 0
        BY <3>1, <3>2
      <3>4. UNCHANGED <<slot, op, n, attempts>>
        BY <1>2 DEF EnsureHas, scratch
      <3>5. CASE at = Len(Needs(op))
        BY <1>0, <1>2, <2>2, <3>1, <3>3, <3>4, <3>5
           DEF EnsureHas, LastBuffer, ProgressInv
      <3>6. CASE at # Len(Needs(op))
        <4>1. at' = at + 1 /\ pc' = "ensure"
          BY <1>2, <2>2, <3>6 DEF EnsureHas, LastBuffer
        <4>2. at' \in 1..Len(Needs(op)) /\ 1..(at' - 1) = 1..at
          BY <3>1, <3>6, <4>1
        <4>3. QED
          BY <1>0, <3>1, <3>3, <3>4, <4>1, <4>2 DEF ProgressInv
      <3>7. QED
        BY <3>5, <3>6
    <2>3. QED
      BY <2>1, <2>2
  <1>3. CASE EnsureRefresh
    <2>1. UNCHANGED <<slot, op, n, at, attempts>> /\ pc' \in {pc, "failed"}
      BY <1>3 DEF EnsureRefresh
    <2>2. CASE pc' = pc
      BY <1>0, <2>1, <2>2, SameProgress
    <2>3. CASE pc' = "failed"
      BY <1>0, <2>3 DEF ProgressInv
    <2>4. QED
      BY <2>1, <2>2, <2>3
  <1>4. CASE EnsureUnsupported \/ AllocFails
    BY <1>0, <1>4 DEF EnsureUnsupported, AllocFails, ProgressInv
  <1>5. CASE AllocTakes
    <2>1. /\ pc = "alloced" /\ pc' = "ensure" /\ UNCHANGED <<op, n, at, attempts>>
          /\ slot' = [slot EXCEPT ![Wanted[1]] =
                         [handle |-> answer.value, length |-> Wanted[2]]]
      BY <1>5 DEF AllocTakes
    <2>2. CASE op.name = "probe"
      BY <1>0, <2>1, <2>2 DEF ProgressInv
    <2>3. CASE op.name # "probe"
      <3>1. /\ op \in Ops /\ at \in 1..Len(Needs(op)) /\ attempts = 3 /\ n >= 1
            /\ \A i \in 1..(at - 1) : slot'[Needs(op)[i][1]].handle # 0
        BY <1>0, <2>1, <2>3, OtherBufferChanges
      <3>2. QED
        BY <1>0, <2>1, <3>1 DEF ProgressInv
    <2>4. QED
      BY <2>2, <2>3
  <1>6. CASE Begin
    <2>1. /\ op' \in Ops /\ n' >= 1 /\ at' = 1 /\ attempts' = 3 /\ pc' = "ensure"
      BY <1>0, <1>6 DEF Begin, TypeOK
    <2>2. at' \in 1..Len(Needs(op')) /\ 1..(at' - 1) = {}
      <3> DEFINE o == op'
      <3>1. o \in Ops
        BY <2>1
      <3> HIDE DEF o
      <3>2. Len(Needs(o)) \in 2..5
        BY <3>1, NeedsFacts
      <3>3. QED
        BY <2>1, <3>2 DEF o
    <2>3. QED
      BY <1>0, <2>1, <2>2 DEF ProgressInv
  <1>7. CASE Fill
    BY <1>0, <1>7 DEF Fill, ProgressInv, scratch
  <1>8. CASE RunAgain
    BY <1>0, <1>8 DEF RunAgain, ProgressInv, scratch, TypeOK
  <1>9. CASE CopyOut \/ Fallback
    BY <1>0, <1>9 DEF CopyOut, Fallback, ProgressInv
  <1>10. CASE Close
    BY <1>0, <1>10 DEF Close, ProgressInv, Roles
  <1>11. CASE CloseSkips
    <2>1. /\ pc = "closing" /\ pc' = "closing" /\ at' = at + 1 /\ slot' = slot
          /\ slot[Roles[at]].handle = 0
      BY <1>11 DEF CloseSkips, scratch
    <2>2. \A i \in DOMAIN Roles : i \in Nat
      BY DEF Roles
    <2>3. at >= 1 /\ at \in Nat
          /\ \A i \in DOMAIN Roles : i < at => slot[Roles[i]].handle = 0
      BY <1>0, <2>1 DEF ProgressInv, TypeOK
    <2>4. \A i \in DOMAIN Roles : i < at + 1 => slot[Roles[i]].handle = 0
      BY <2>1, <2>2, <2>3
    <2>5. QED
      BY <1>0, <2>1, <2>3, <2>4 DEF ProgressInv
  <1>12. CASE Closed
    BY <1>0, <1>12 DEF Closed, ProgressInv, NoBuffer
  <1>13. QED
    BY <1>1, <1>2, <1>3, <1>4, <1>5, <1>6, <1>7, <1>8, <1>9, <1>10, <1>11, <1>12
       DEF Local

LEMMA ProgressInvStep ==
    ASSUME OffloadAssumption, MemoryInv, [Next]_vars
    PROVE  ProgressInv'
  <1>a. TypeInv /\ TypeOK /\ ProgressInv
    BY DEF MemoryInv, TypeInv
  <1>1. CASE Local
    BY <1>1, <1>a, ProgressLocal
  <1>2. CASE TakeReply \/ GiveUp
    <2>1. pc = "wait" /\ pc' = after /\ UNCHANGED <<slot, op, n, at, attempts, after>>
      BY <1>2 DEF TakeReply, GiveUp, scratch
    <2>2. Place' = Place
      BY <1>a, <2>1 DEF Place, TypeOK
    <2>3. QED
      BY <1>a, <2>1, <2>2, SameProgress
  <1>3. CASE EnsureGrow
    <2>1. /\ pc = "ensure" /\ UNCHANGED <<op, n, at, attempts>>
          /\ slot' = [slot EXCEPT ![Wanted[1]] = NoBuffer]
          /\ pc' = "wait" /\ after' = "ensure"
      BY <1>3 DEF EnsureGrow, Call
    <2>2. Place = "ensure" /\ Place' = "ensure"
      BY <2>1 DEF Place
    <2>3. CASE op.name = "probe"
      BY <2>1, <2>2, <2>3 DEF ProgressInv
    <2>4. CASE op.name # "probe"
      <3>1. /\ op \in Ops /\ at \in 1..Len(Needs(op)) /\ attempts = 3 /\ n >= 1
            /\ \A i \in 1..(at - 1) : slot'[Needs(op)[i][1]].handle # 0
        BY <1>a, <2>1, <2>2, <2>4, OtherBufferChanges
      <3>2. QED
        BY <2>1, <2>2, <3>1 DEF ProgressInv
    <2>5. QED
      BY <2>3, <2>4
  <1>4. CASE AllocUnusable
    <2>1. Place' = "failed"
      BY <1>4 DEF AllocUnusable, UnusableIsFreed, Call, Place
    <2>2. QED
      BY <2>1 DEF ProgressInv
  <1>5. CASE CloseFrees
    <2>1. /\ pc = "closing" /\ UNCHANGED <<op, n, at, attempts>>
          /\ slot' = [slot EXCEPT ![Roles[at]] = NoBuffer]
          /\ pc' = "wait" /\ after' = "closing"
      BY <1>5 DEF CloseFrees, Call
    <2>2. Place = "closing" /\ Place' = "closing"
      BY <2>1 DEF Place
    <2>3. at >= 1 /\ \A i \in DOMAIN Roles : i < at => slot[Roles[i]].handle = 0
      BY <1>a, <2>2 DEF ProgressInv
    <2>4. \A i \in DOMAIN Roles : Roles[i] \in RoleSet
      BY DEF RoleSet
    <2>5. \A i \in DOMAIN Roles : i < at => slot'[Roles[i]].handle = 0
      BY <1>a, <2>1, <2>3, <2>4 DEF TypeOK, NoBuffer
    <2>6. QED
      BY <2>1, <2>2, <2>3, <2>5 DEF ProgressInv
  <1>6. CASE EnsureAlloc
    <2>1. pc = "ensure" /\ pc' = "wait" /\ after' = "alloced"
          /\ UNCHANGED <<slot, op, n, at, attempts>>
          /\ slot[Wanted[1]].handle = 0
      BY <1>6 DEF EnsureAlloc, Call, scratch
    <2>2. Place = "ensure" /\ Place' = "alloced"
      BY <2>1 DEF Place
    <2>3. slot'[Wanted'[1]].handle = 0
      BY <2>1 DEF Wanted, Role, Need
    <2>4. QED
      BY <1>a, <2>1, <2>2, <2>3 DEF ProgressInv
  <1>7. CASE Run
    <2>1. pc = "run" /\ pc' = "wait" /\ after' = "ran" /\ UNCHANGED <<slot, op, n, at>>
      BY <1>7 DEF Run, Call, scratch
    <2>2. Place = "run" /\ Place' = "ran"
      BY <2>1 DEF Place
    <2>3. QED
      BY <1>a, <2>1, <2>2 DEF ProgressInv
  <1>8. CASE CardExecutes
    BY <1>8, <1>a, SameProgress DEF CardExecutes, Place, scratch
  <1>9. CASE UNCHANGED vars
    BY <1>9, <1>a, SameProgress DEF vars, Place
  <1>10. QED
    BY <1>1, <1>2, <1>3, <1>4, <1>5, <1>6, <1>7, <1>8, <1>9 DEF Next, Host, Local

---------------------------------------------------------------------------
\* Blocks: what the queue frees.

LEMMA FreeingIsFrees == Freeing = Frees(inbox)
  BY DEF Freeing, Frees, FreedBy

LEMMA FreedByRequest ==
    ASSUME NEW kind, NEW handles, NEW out, NEW h
    PROVE  /\ FreedBy(Request("free", <<h>>, 0)) = {h}
           /\ kind # "free" => FreedBy(Request(kind, handles, out)) = {}
  <1>1. ToSet(<<h>>) = {h}
    BY DEF ToSet
  <1>2. QED
    BY <1>1, FieldsOfRequest DEF FreedBy

LEMMA CallerFreesSame ==
    ASSUME NEW r \in Requests, NEW w
    PROVE  FreedBy([r EXCEPT !.waited = w]) = FreedBy(r)
  BY DEF FreedBy, Requests

LEMMA AppendFrees ==
    ASSUME NEW q \in Seq(Requests), NEW r \in Requests
    PROVE  /\ Frees(Append(q, r)) = Frees(q) \cup FreedBy(r)
           /\ FreedOnce(q) /\ FreedBy(r) \cap Frees(q) = {} => FreedOnce(Append(q, r))
  <1> DEFINE p == Append(q, r)
  <1>1. /\ DOMAIN q = 1..Len(q) /\ Len(q) \in Nat /\ DOMAIN p = 1..(Len(q) + 1)
        /\ p[Len(q) + 1] = r /\ \A i \in 1..Len(q) : p[i] = q[i]
    OBVIOUS
  <1> HIDE DEF p
  <1>2. \A i \in DOMAIN q : i \in DOMAIN p /\ p[i] = q[i] /\ i # Len(q) + 1
    BY <1>1
  <1>3. /\ Len(q) + 1 \in DOMAIN p
        /\ \A i \in DOMAIN p : i = Len(q) + 1 \/ i \in DOMAIN q
    BY <1>1
  <1>4. Frees(p) = Frees(q) \cup FreedBy(r)
    BY <1>1, <1>2, <1>3 DEF Frees
  <1>5. ASSUME FreedOnce(q), FreedBy(r) \cap Frees(q) = {} PROVE FreedOnce(p)
    <2>1. \A i \in DOMAIN q : FreedBy(q[i]) \cap FreedBy(r) = {}
      BY <1>5 DEF Frees
    <2>2. QED
      BY <1>1, <1>2, <1>3, <1>5, <2>1 DEF FreedOnce
  <1>6. QED
    BY <1>4, <1>5 DEF p

LEMMA OthersFrees ==
    ASSUME TypeInv, NEW i \in DOMAIN inbox
    PROVE  /\ Frees(inbox) = Frees(Others(i)) \cup FreedBy(inbox[i])
           /\ FreedOnce(inbox) => /\ FreedOnce(Others(i))
                                  /\ Frees(Others(i)) \cap FreedBy(inbox[i]) = {}
  <1> DEFINE p == Others(i)
  <1>1. /\ \A j \in DOMAIN p : p[j] = inbox[Up(i, j)] /\ Up(i, j) \in DOMAIN inbox \ {i}
        /\ \A k \in DOMAIN inbox \ {i} : \E j \in DOMAIN p : k = Up(i, j)
        /\ \A j, k \in DOMAIN p : Up(i, j) = Up(i, k) => j = k
    BY OthersFacts
  <1> HIDE DEF p
  <1>2. Frees(inbox) = Frees(p) \cup FreedBy(inbox[i])
    <2>1. Frees(p) \cup FreedBy(inbox[i]) \subseteq Frees(inbox)
      BY <1>1 DEF Frees
    <2>2. ASSUME NEW k \in DOMAIN inbox
          PROVE  FreedBy(inbox[k]) \subseteq Frees(p) \cup FreedBy(inbox[i])
      <3>1. CASE k = i
        BY <3>1
      <3>2. CASE k # i
        <4>1. PICK j \in DOMAIN p : k = Up(i, j)
          BY <1>1, <3>2
        <4>2. p[j] = inbox[k]
          BY <1>1, <4>1
        <4>3. QED
          BY <4>2 DEF Frees
      <3>3. QED
        BY <3>1, <3>2
    <2>3. QED
      BY <2>1, <2>2 DEF Frees
  <1>3. ASSUME FreedOnce(inbox)
        PROVE  FreedOnce(p) /\ Frees(p) \cap FreedBy(inbox[i]) = {}
    <2>1. \A j \in DOMAIN p : FreedBy(p[j]) \cap FreedBy(inbox[i]) = {}
      BY <1>1, <1>3 DEF FreedOnce
    <2>2. FreedOnce(p)
      BY <1>1, <1>3 DEF FreedOnce
    <2>3. QED
      BY <2>1, <2>2 DEF Frees
  <1>4. QED
    BY <1>2, <1>3 DEF p

LEMMA SameFrees ==
    ASSUME NEW p, NEW q, DOMAIN p = DOMAIN q,
           \A i \in DOMAIN q : FreedBy(p[i]) = FreedBy(q[i])
    PROVE  Frees(p) = Frees(q) /\ (FreedOnce(q) => FreedOnce(p))
  BY DEF Frees, FreedOnce

---------------------------------------------------------------------------
\* Blocks: what the scratch buffers name.

NamedOnce ==
    \A r, s \in RoleSet : (r # s /\ slot[r].handle # 0)
                                => slot[r].handle # slot[s].handle

LEMMA BufferForgotten ==
    ASSUME TypeInv, NamedOnce, NEW r \in RoleSet, slot[r].handle # 0,
           slot' = [slot EXCEPT ![r] = NoBuffer]
    PROVE  NamedOnce' /\ Named' = Named \ {slot[r].handle}
  <1>1. \A s \in RoleSet : slot'[s].handle = IF s = r THEN 0 ELSE slot[s].handle
    BY DEF TypeInv, TypeOK, NoBuffer
  <1>2. QED
    BY <1>1 DEF NamedOnce, Named

LEMMA BufferTaken ==
    ASSUME TypeInv, NamedOnce, NEW r \in RoleSet, slot[r].handle = 0,
           NEW h, NEW length, h \notin Named \cup {0},
           slot' = [slot EXCEPT ![r] = [handle |-> h, length |-> length]]
    PROVE  NamedOnce' /\ Named' = Named \cup {h}
  <1>1. \A s \in RoleSet : slot'[s].handle = IF s = r THEN h ELSE slot[s].handle
    BY DEF TypeInv, TypeOK
  <1>2. \A s \in RoleSet : slot[s].handle # h
    BY DEF Named
  <1>3. QED
    BY <1>1, <1>2 DEF NamedOnce, Named

\* BlockInv, in the sets it is about.
LEMMA BlockInvIs ==
    BlockInv <=> /\ NamedOnce /\ FreedOnce(inbox)
                 /\ Named \subseteq DOMAIN block \ Frees(inbox)
                 /\ Frees(inbox) \subseteq DOMAIN block
                 /\ InReply \subseteq (DOMAIN block \ Frees(inbox)) \ Named
                 /\ DOMAIN block \subseteq Named \cup Frees(inbox) \cup InReply \cup lost
  BY FreeingIsFrees DEF BlockInv, BlocksAccounted, NamedOnce

\* The same after a step.
BlocksNow(N, F, R, D, L) ==
    /\ NamedOnce' /\ FreedOnce(inbox)'
    /\ N = Named' /\ F = Frees(inbox)' /\ R = InReply' /\ D = DOMAIN block' /\ L = lost'

LEMMA BlockInvNow ==
    ASSUME NEW N, NEW F, NEW R, NEW D, NEW L, BlocksNow(N, F, R, D, L),
           N \subseteq D \ F, F \subseteq D, R \subseteq (D \ F) \ N,
           D \subseteq N \cup F \cup R \cup L
    PROVE  BlockInv'
  <1>1. Freeing' = Frees(inbox)'
    BY DEF Freeing, Frees, FreedBy
  <1>2. QED
    BY <1>1 DEF BlockInv, BlocksAccounted, NamedOnce, BlocksNow

---------------------------------------------------------------------------
\* Blocks: the steps.

LEMMA BlocksLocal ==
    ASSUME OffloadAssumption, MemoryInv, Local
    PROVE  BlockInv'
  <1>a. TypeInv /\ TypeOK /\ ProgressInv /\ CallInv /\ BlockInv
    BY DEF MemoryInv, TypeInv
  <1>b. /\ pc # "wait" /\ pc' \notin {"wait", "alloced"}
        /\ UNCHANGED <<after, answer, inbox, lost>>
    BY LocalSteps
  <1>c. InReply' = {} /\ FreedOnce(inbox)' /\ Frees(inbox)' = Frees(inbox)
    BY <1>a, <1>b, BlockInvIs DEF InReply
  <1>d. DOMAIN block' = DOMAIN block
    BY DEF Local, Open, EnsureHas, EnsureRefresh, EnsureUnsupported, AllocFails,
                AllocTakes, Begin, Fill, RunAgain, CopyOut, Fallback, Close, CloseSkips,
                Closed, card
  <1>2. CASE AllocTakes
    <2>1. /\ pc = "alloced" /\ answer.status = "OK"
          /\ slot' = [slot EXCEPT ![Wanted[1]] =
                         [handle |-> answer.value, length |-> Wanted[2]]]
      BY <1>2 DEF AllocTakes
    <2>2. Wanted[1] \in RoleSet /\ slot[Wanted[1]].handle = 0
      BY <1>a, <2>1, WantedFacts DEF Place, ProgressInv
    <2>3. InReply = {answer.value}
      BY <1>a, <2>1 DEF InReply, CallInv
    <2>4. answer.value \notin Named \cup {0}
      BY <1>a, <2>3, BlockInvIs DEF TypeOK
    <2>5. NamedOnce' /\ Named' = Named \cup {answer.value}
      BY <1>a, <2>1, <2>2, <2>4, BufferTaken, BlockInvIs
    <2>6. BlocksNow(Named \cup InReply, Frees(inbox), {}, DOMAIN block, lost)
      BY <1>b, <1>c, <1>d, <2>3, <2>5 DEF BlocksNow
    <2>7. QED
      BY <1>a, <2>6, BlockInvNow, BlockInvIs
  <1>3. CASE ~AllocTakes
    <2>1. Named' = Named /\ NamedOnce'
      <3>1. CASE Closed
        <4>1. /\ pc = "closing" /\ at > 6 /\ slot' = [r \in RoleSet |-> NoBuffer]
          BY <3>1 DEF Closed, AllRoles, Roles
        <4>2. \A i \in DOMAIN Roles : i < at => slot[Roles[i]].handle = 0
          BY <1>a, <4>1 DEF ProgressInv, Place
        <4>3. \A i \in DOMAIN Roles : i < at
          BY <1>a, <4>1 DEF Roles, TypeOK
        <4>4. \A r \in RoleSet : slot[r].handle = 0 /\ slot'[r].handle = 0
          BY <4>1, <4>2, <4>3 DEF RoleSet, NoBuffer
        <4>5. QED
          BY <4>4 DEF Named, NamedOnce
      <3>2. CASE ~Closed
        <4>1. slot' = slot
          BY <1>3, <3>2
             DEF Local, Open, EnsureHas, EnsureRefresh, EnsureUnsupported, AllocFails,
                 Begin, Fill, RunAgain, CopyOut, Fallback, Close, CloseSkips, scratch
        <4>2. QED
          BY <1>a, <4>1, BlockInvIs DEF Named, NamedOnce
      <3>3. QED
        BY <3>1, <3>2
    <2>2. InReply = {}
      <3>1. pc = "alloced" => answer.status # "OK"
        BY <1>3
           DEF Local, Open, EnsureHas, EnsureRefresh, EnsureUnsupported, AllocFails,
               Begin, Fill, RunAgain, CopyOut, Fallback, Close, CloseSkips, Closed
      <3>2. QED
        BY <1>b, <3>1 DEF InReply
    <2>3. BlocksNow(Named, Frees(inbox), {}, DOMAIN block, lost)
      BY <1>b, <1>c, <1>d, <2>1 DEF BlocksNow
    <2>4. QED
      BY <1>a, <2>2, <2>3, BlockInvNow, BlockInvIs
  <1>4. QED
    BY <1>2, <1>3

\* A block given back: the request to free it is queued, or it is lost.
LEMMA BlocksFreer ==
    ASSUME OffloadAssumption, MemoryInv, NEW then \in {"ensure", "failed", "closing"},
           Freer(then)
    PROVE  BlockInv'
  <1> DEFINE h == GivenBack
             r == Request("free", <<h>>, 0)
  <1>a. TypeInv /\ TypeOK /\ BlockInv
    BY DEF MemoryInv, TypeInv
  <1>1. /\ pc # "wait" /\ h \in 1..MaxHandles /\ Call(r, then) /\ r \in Requests
        /\ lost' = Refused(h) /\ block' = block
    BY FreerSteps
  <1>2. /\ pc' = "wait" /\ after' = then
        /\ \/ /\ Len(inbox) < RingSize
              /\ inbox' = Append(inbox, [r EXCEPT !.waited = TRUE])
           \/ ~(Len(inbox) < RingSize) /\ inbox' = inbox
    BY <1>1, <1>a, CallFacts
  <1>3. InReply' = {}
    BY <1>2 DEF InReply
  <1>4. /\ h \notin Frees(inbox) /\ h \in DOMAIN block
        /\ NamedOnce' /\ h \notin Named' /\ Named \cup InReply = Named' \cup {h}
    <2>1. CASE then = "failed"
      <3>1. slot' = slot /\ InReply = {h}
        BY <2>1, FreerSteps
      <3>2. QED
        BY <1>a, <3>1, BlockInvIs DEF NamedOnce, Named
    <2>2. CASE then # "failed"
      <3>1. pc = then /\ \E x \in RoleSet : /\ slot[x].handle = h
                                            /\ slot' = [slot EXCEPT ![x] = NoBuffer]
        BY <2>2, FreerSteps
      <3>2. PICK x \in RoleSet : slot[x].handle = h /\ slot' = [slot EXCEPT ![x] = NoBuffer]
        BY <3>1
      <3>3. h # 0
        BY <1>1
      <3>4. InReply = {}
        BY <2>2, <3>1 DEF InReply
      <3>5. h \in Named
        BY <3>2, <3>3 DEF Named
      <3>6. NamedOnce' /\ Named' = Named \ {h}
        BY <1>a, <3>2, <3>3, BufferForgotten, BlockInvIs
      <3>7. QED
        BY <1>a, <3>4, <3>5, <3>6, BlockInvIs
    <2>3. QED
      BY <2>1, <2>2
  <1> HIDE DEF h
  <1>5. CASE Len(inbox) < RingSize
    <2>1. inbox' = Append(inbox, [r EXCEPT !.waited = TRUE]) /\ lost' = lost
      BY <1>1, <1>2, <1>5 DEF Refused
    <2>2. FreedBy([r EXCEPT !.waited = TRUE]) = {h}
      BY <1>1, CallerFreesSame, FreedByRequest
    <2>3. [r EXCEPT !.waited = TRUE] \in Requests /\ inbox \in Seq(Requests)
      BY <1>1, <1>a DEF Requests, TypeInv
    <2> HIDE DEF r
    <2>4. /\ Frees(inbox)' = Frees(inbox) \cup {h}
          /\ FreedOnce(inbox)'
      BY <1>4, <1>a, <2>1, <2>2, <2>3, AppendFrees, BlockInvIs
    <2>5. BlocksNow(Named', Frees(inbox) \cup {h}, {}, DOMAIN block, lost)
      BY <1>1, <1>3, <1>4, <2>1, <2>4 DEF BlocksNow
    <2>6. QED
      BY <1>4, <1>a, <2>5, BlockInvNow, BlockInvIs
  <1>6. CASE ~(Len(inbox) < RingSize)
    <2>1. inbox' = inbox /\ lost' = lost \cup {h}
      BY <1>1, <1>2, <1>6 DEF Refused
    <2>2. Frees(inbox)' = Frees(inbox) /\ FreedOnce(inbox)'
      BY <1>a, <2>1, BlockInvIs
    <2>3. BlocksNow(Named', Frees(inbox), {}, DOMAIN block, lost \cup {h})
      BY <1>1, <1>3, <1>4, <2>1, <2>2 DEF BlocksNow
    <2>4. QED
      BY <1>4, <1>a, <2>3, BlockInvNow, BlockInvIs
  <1>7. QED
    BY <1>5, <1>6

\* A request that frees nothing is queued, or refused.
LEMMA BlocksAsk ==
    ASSUME OffloadAssumption, TypeInv, BlockInv, NEW request \in Requests, NEW then,
           Call(request, then), FreedBy(request) = {}, pc \notin {"wait", "alloced"},
           UNCHANGED <<slot, block, lost>>
    PROVE  BlockInv'
  <1>1. InReply = {} /\ InReply' = {}
    <2>1. answer' = NoAnswer \/ answer' = Answer("BUSY", 0)
      BY CallFacts
    <2>2. answer'.status # "OK"
      BY <2>1 DEF NoAnswer, Answer
    <2>3. QED
      BY <2>2 DEF InReply
  <1>2. Frees(inbox)' = Frees(inbox) /\ FreedOnce(inbox)'
    <2>1. CASE inbox' = Append(inbox, [request EXCEPT !.waited = TRUE])
      <3> DEFINE r == [request EXCEPT !.waited = TRUE]
      <3>1. r \in Requests /\ inbox \in Seq(Requests)
        BY DEF Requests, TypeInv
      <3>2. FreedBy(r) = {}
        BY CallerFreesSame
      <3> HIDE DEF r
      <3>3. inbox' = Append(inbox, r)
        BY <2>1 DEF r
      <3>4. QED
        BY <3>1, <3>2, <3>3, AppendFrees, BlockInvIs
    <2>2. CASE inbox' = inbox
      BY <2>2, BlockInvIs
    <2>3. QED
      BY <2>1, <2>2, CallFacts
  <1>3. NamedOnce' /\ Named' = Named
    BY BlockInvIs DEF NamedOnce, Named
  <1>4. BlocksNow(Named, Frees(inbox), {}, DOMAIN block, lost)
    BY <1>1, <1>2, <1>3 DEF BlocksNow
  <1>5. QED
    BY <1>1, <1>4, BlockInvNow, BlockInvIs

\* What a reply of the card brings to the context.
LEMMA ReplyBrings ==
    ASSUME OffloadAssumption, TypeInv, CallInv, NEW i \in DOMAIN inbox,
           NEW status, NEW value, Deliver(i, status, value), UNCHANGED <<pc, after>>
    PROVE  /\ ~inbox[i].waited => InReply' = InReply
           /\ inbox[i].waited =>
                 /\ InReply = {}
                 /\ InReply' = IF inbox[i].kind = "alloc" /\ status = "OK" THEN {value}
                               ELSE {}
  <1>1. CASE ~inbox[i].waited
    BY <1>1 DEF Deliver, InReply
  <1>2. CASE inbox[i].waited
    <2>1. pc = "wait" /\ answer = NoAnswer /\ (inbox[i].kind = "alloc" <=> after = "alloced")
      BY <1>2 DEF CallInv
    <2>2. answer' = Answer(status, value)
      BY <1>2 DEF Deliver
    <2>3. QED
      BY <1>2, <2>1, <2>2 DEF InReply, NoAnswer, Answer
  <1>3. QED
    BY <1>1, <1>2

LEMMA BlocksCard ==
    ASSUME OffloadAssumption, MemoryInv, CardExecutes
    PROVE  BlockInv'
  <1>a. TypeInv /\ TypeOK /\ CallInv /\ BlockInv
    BY DEF MemoryInv, TypeInv
  <1>b. UNCHANGED <<slot, pc, after>>
    BY DEF CardExecutes, scratch
  <1>c. NamedOnce' /\ Named' = Named
    BY <1>a, <1>b, BlockInvIs DEF NamedOnce, Named
  <1>1. PICK i \in DOMAIN inbox : CardAllocates(i) \/ CardFrees(i) \/ CardComputes(i)
    BY DEF CardExecutes
  <1> DEFINE S == FreedBy(inbox[i])
             F == Frees(Others(i))
  <1>2. Frees(inbox) = F \cup S /\ FreedOnce(Others(i)) /\ F \cap S = {}
    BY <1>a, OthersFrees, BlockInvIs
  <1>3. ASSUME inbox' = Others(i)
        PROVE  Frees(inbox)' = F /\ FreedOnce(inbox)'
    BY <1>2, <1>3
  <1>4. inbox[i].kind # "free" => S = {}
    BY DEF FreedBy
  <1> HIDE DEF F, S
  <1>5. ASSUME NEW status, NEW value, Deliver(i, status, value),
               ~(inbox[i].kind = "alloc" /\ status = "OK")
        PROVE  inbox' = Others(i) /\ InReply' = InReply
    BY <1>5, <1>a, <1>b, ReplyBrings DEF Deliver
  <1>6. CASE CardAllocates(i)
    <2>1. S = {}
      BY <1>4, <1>6 DEF CardAllocates
    <2>2. CASE FreeHandles = {}
      <3>1. Deliver(i, "ERROR", 0) /\ UNCHANGED <<block, lost>>
        BY <1>6, <2>2 DEF CardAllocates
      <3>2. inbox' = Others(i) /\ InReply' = InReply
        BY <1>5, <3>1
      <3>3. BlocksNow(Named, F, InReply, DOMAIN block, lost)
        BY <1>3, <1>c, <3>1, <3>2 DEF BlocksNow
      <3>4. QED
        BY <1>2, <1>a, <2>1, <3>3, BlockInvNow, BlockInvIs
    <2>3. CASE FreeHandles # {}
      <3> DEFINE h == Min(FreeHandles)
      <3>1. h \in FreeHandles
        <4>1. FreeHandles \in SUBSET Nat
          BY DEF FreeHandles
        <4>2. QED
          BY <2>3, <4>1, MinOfHandles
      <3> HIDE DEF h
      <3>2. h \notin DOMAIN block
        BY <3>1 DEF FreeHandles
      <3>3. /\ block' = [x \in DOMAIN block \cup {h} |-> IF x = h THEN 0 ELSE block[x]]
            /\ lost' = (IF inbox[i].waited THEN lost ELSE lost \cup {h})
            /\ Deliver(i, "OK", h) /\ inbox[i].kind = "alloc"
        BY <1>6, <2>3 DEF CardAllocates, h
      <3>4. DOMAIN block' = DOMAIN block \cup {h} /\ inbox' = Others(i)
        BY <3>3 DEF Deliver
      <3>5. Frees(inbox)' = F /\ FreedOnce(inbox)'
        BY <1>3, <3>4
      <3>6. CASE inbox[i].waited
        <4>1. InReply = {} /\ InReply' = {h}
          BY <1>a, <1>b, <3>3, <3>6, ReplyBrings
        <4>2. BlocksNow(Named, F, {h}, DOMAIN block \cup {h}, lost)
          BY <1>c, <3>3, <3>4, <3>5, <3>6, <4>1 DEF BlocksNow
        <4>3. QED
          BY <1>2, <1>a, <2>1, <3>2, <4>1, <4>2, BlockInvNow, BlockInvIs
      <3>7. CASE ~inbox[i].waited
        <4>1. InReply' = InReply
          BY <1>a, <1>b, <3>3, <3>7, ReplyBrings
        <4>2. BlocksNow(Named, F, InReply, DOMAIN block \cup {h}, lost \cup {h})
          BY <1>c, <3>3, <3>4, <3>5, <3>7, <4>1 DEF BlocksNow
        <4>3. QED
          BY <1>2, <1>a, <2>1, <3>2, <4>2, BlockInvNow, BlockInvIs
      <3>8. QED
        BY <3>6, <3>7
    <2>4. QED
      BY <2>2, <2>3
  <1>7. CASE CardFrees(i)
    <2>1. /\ S = ToSet(inbox[i].handles) /\ inbox[i].kind = "free"
          /\ Deliver(i, "OK", 0) /\ lost' = lost
          /\ block' = [x \in DOMAIN block \ ToSet(inbox[i].handles) |-> block[x]]
      BY <1>7 DEF CardFrees, FreedBy, S
    <2>2. inbox' = Others(i) /\ InReply' = InReply
      BY <1>5, <2>1
    <2>3. BlocksNow(Named, F, InReply, DOMAIN block \ S, lost)
      BY <1>3, <1>c, <2>1, <2>2 DEF BlocksNow
    <2>4. QED
      BY <1>2, <1>a, <2>3, BlockInvNow, BlockInvIs
  <1>8. CASE CardComputes(i)
    <2>1. S = {} /\ inbox[i].kind = "op" /\ lost' = lost
      BY <1>4, <1>8 DEF CardComputes
    <2>2. DOMAIN block' = DOMAIN block
      BY <1>8 DEF CardComputes
    <2>3. \E status, value : Deliver(i, status, value)
      BY <1>8 DEF CardComputes
    <2>4. inbox' = Others(i) /\ InReply' = InReply
      BY <1>5, <2>1, <2>3
    <2>5. BlocksNow(Named, F, InReply, DOMAIN block, lost)
      BY <1>3, <1>c, <2>1, <2>2, <2>4 DEF BlocksNow
    <2>6. QED
      BY <1>2, <1>a, <2>1, <2>5, BlockInvNow, BlockInvIs
  <1>9. QED
    BY <1>1, <1>6, <1>7, <1>8

LEMMA BlockInvStep ==
    ASSUME OffloadAssumption, MemoryInv, [Next]_vars
    PROVE  BlockInv'
  <1>a. TypeInv /\ TypeOK /\ CallInv /\ BlockInv
    BY DEF MemoryInv, TypeInv
  <1>1. CASE Local
    BY <1>1, BlocksLocal
  <1>2. ASSUME NEW then \in {"ensure", "failed", "closing"}, Freer(then)
        PROVE  BlockInv'
    BY <1>2, BlocksFreer
  <1>3. CASE EnsureAlloc
    <2>1. FreedBy(Request("alloc", <<>>, 0)) = {}
      BY FreedByRequest
    <2>2. QED
      BY <1>3, <1>a, <2>1, AllocStep, BlocksAsk
  <1>4. CASE Run
    <2>1. FreedBy(OpRequest) = {}
      BY FreedByRequest DEF OpRequest
    <2>2. QED
      BY <1>4, <1>a, <2>1, RunStep, BlocksAsk
  <1>5. CASE TakeReply
    <2>1. pc = "wait" /\ pc' = after /\ UNCHANGED <<slot, after, answer, inbox, block, lost>>
      BY <1>5 DEF TakeReply, scratch, card
    <2>2. InReply' = InReply
      BY <2>1 DEF InReply
    <2>3. QED
      BY <1>a, <2>1, <2>2 DEF BlockInv, BlocksAccounted, Named, Freeing
  <1>6. CASE GiveUp
    <2>1. /\ answer = NoAnswer /\ answer' = Answer("TIMEOUT", 0)
          /\ inbox' = [i \in DOMAIN inbox |-> [inbox[i] EXCEPT !.waited = FALSE]]
          /\ UNCHANGED <<slot, block, lost>>
      BY <1>6 DEF GiveUp, scratch
    <2>2. InReply = {} /\ InReply' = {}
      BY <2>1 DEF InReply, NoAnswer, Answer
    <2>3. \A i \in DOMAIN inbox : inbox[i] \in Requests
      BY <1>a DEF TypeInv
    <2>4. Frees(inbox)' = Frees(inbox) /\ FreedOnce(inbox)'
      <3>1. DOMAIN inbox' = DOMAIN inbox
        BY <2>1
      <3>2. \A i \in DOMAIN inbox : FreedBy(inbox'[i]) = FreedBy(inbox[i])
        BY <2>1, <2>3, CallerFreesSame
      <3>3. QED
        BY <1>a, <3>1, <3>2, SameFrees, BlockInvIs
    <2>5. BlocksNow(Named, Frees(inbox), {}, DOMAIN block, lost)
      BY <1>a, <2>1, <2>2, <2>4, BlockInvIs DEF BlocksNow, NamedOnce, Named
    <2>6. QED
      BY <1>a, <2>2, <2>5, BlockInvNow, BlockInvIs
  <1>7. CASE CardExecutes
    BY <1>7, BlocksCard
  <1>8. CASE UNCHANGED vars
    <2>1. UNCHANGED <<slot, pc, after, answer, inbox, block, lost>>
      BY <1>8 DEF vars
    <2>2. QED
      BY <1>a, <2>1 DEF BlockInv, BlocksAccounted, Named, Freeing, InReply
  <1>9. QED
    BY <1>1, <1>2, <1>3, <1>4, <1>5, <1>6, <1>7, <1>8 DEF Next, Host, Local, Freer

---------------------------------------------------------------------------
LEMMA MemoryInit ==
    ASSUME OffloadAssumption, NEW place \in Starts, InitAt(place)
    PROVE  MemoryInv
  <1>1. /\ pc \in {"open", "closed"} /\ inbox = <<>> /\ DOMAIN block = {}
        /\ answer = NoAnswer /\ slot = [r \in RoleSet |-> NoBuffer]
    BY DEF InitAt, Starts
  <1>2. DOMAIN inbox = {}
    BY <1>1
  <1>3. CallInv
    BY <1>1, <1>2 DEF CallInv
  <1>4. ProgressInv
    BY <1>1 DEF ProgressInv, Place, NoBuffer
  <1>5. Frees(inbox) = {} /\ FreedOnce(inbox)
    BY <1>2 DEF Frees, FreedOnce
  <1>6. NamedOnce /\ Named = {}
    BY <1>1 DEF NamedOnce, Named, NoBuffer
  <1>7. InReply = {}
    BY <1>1 DEF InReply
  <1>8. BlockInv
    BY <1>1, <1>5, <1>6, <1>7, BlockInvIs
  <1>9. QED
    BY <1>3, <1>4, <1>8, TypeInit DEF MemoryInv

LEMMA MemoryStep == OffloadAssumption /\ MemoryInv /\ [Next]_vars => MemoryInv'
  BY TypeStep, CallInvStep, ProgressInvStep, BlockInvStep DEF MemoryInv

\* Types, for every bound.
THEOREM TypeCorrect == ASSUME OffloadAssumption PROVE Spec => []TypeOK
  <1>1. MemoryInv => TypeOK
    BY DEF MemoryInv, TypeInv
  <1>2. Init => MemoryInv
    BY MemoryInit DEF Init, Starts
  <1>3. QED
    BY <1>1, <1>2, MemoryStep, PTL DEF Spec

\* No block of card memory is lost but by a call that timed out or was refused,
\* and a scratch buffer's block is there until the buffer is forgotten
\* (zz9k_offload_ensure, zz9k_offload_close, zz9k_alloc_shared).
THEOREM BlocksAreAccounted == ASSUME OffloadAssumption PROVE Spec => []BlocksAccounted
  <1>1. MemoryInv => BlocksAccounted
    BY DEF MemoryInv, BlockInv
  <1>2. Init => MemoryInv
    BY MemoryInit DEF Init, Starts
  <1>3. QED
    BY <1>1, <1>2, MemoryStep, PTL DEF Spec

---------------------------------------------------------------------------
\* Results: the steps of the task.

\* The first buffer an operation ensures is an input; the inputs are those of
\* its buffers that are not the output.
LEMMA InputsFacts ==
    ASSUME OffloadAssumption, NEW o \in Ops
    PROVE  Inputs(o) # {} /\ Inputs(o) \subseteq RoleSet \ {"dst"}
  <1>1. /\ DOMAIN Needs(o) = 1..Len(Needs(o)) /\ Len(Needs(o)) \in 2..5
        /\ \A i \in 1..Len(Needs(o)) : Needs(o)[i][1] \in RoleSet
    BY NeedsFacts
  <1>2. Needs(o)[1][1] # "dst"
    <2>1. o.name \in {"x25519", "derive", "keygen", "aead", "verify"}
      BY DEF Ops, OffloadAssumption
    <2>2. QED
      BY <2>1 DEF Needs
  <1>3. 1 \in DOMAIN Needs(o)
    BY <1>1
  <1>4. Needs(o)[1][1] \in Used(o)
    BY <1>3 DEF Used
  <1>5. Used(o) \subseteq RoleSet
    BY <1>1 DEF Used
  <1>6. QED
    BY <1>2, <1>4, <1>5 DEF Inputs

\* A local step leaves no call behind it.
LEMMA ResultLocal ==
    ASSUME OffloadAssumption, MemoryInv, ResultInv, Local
    PROVE  ResultInv'
  <1>a. TypeInv /\ TypeOK /\ CallInv /\ ProgressInv /\ BlockInv
    BY DEF MemoryInv, TypeInv
  <1>b. /\ pc # "wait" /\ pc' \notin {"wait", "alloced", "ran", "open"}
        /\ UNCHANGED <<after, answer, inbox, lost>> /\ Place = pc /\ Place' = pc'
    BY LocalSteps DEF Place
  <1>1. CallerIsThisOp' /\ ResultIsRight'
    <2>1. \A i \in DOMAIN inbox : ~inbox[i].waited
      BY <1>a, <1>b, NoCaller
    <2>2. QED
      BY <1>b, <2>1 DEF CallerIsThisOp, ResultIsRight
  <1>2. InputsKept'
    <2>1. CASE Fill
      <3>1. /\ pc = "fill" /\ UNCHANGED <<slot, op, n>>
            /\ block' = [h \in DOMAIN block |->
                            IF h \in {slot[r].handle : r \in Inputs(op)} THEN n
                            ELSE block[h]]
        BY <2>1 DEF Fill, scratch
      <3>2. op \in Ops /\ \A i \in 1..Len(Needs(op)) : slot[Needs(op)[i][1]].handle # 0
        BY <1>a, <1>b, <3>1 DEF ProgressInv
      <3>3. \A r \in Inputs(op) : r \in RoleSet /\ slot[r].handle # 0
        BY <3>2, NeedsFacts DEF Inputs, Used
      <3>4. \A r \in Inputs(op) : slot[r].handle \in DOMAIN block
        BY <1>a, <3>3, BlockInvIs DEF Named
      <3>5. QED
        BY <3>1, <3>4 DEF InputsKept
    <2>2. CASE RunAgain
      BY <1>b, <2>2 DEF RunAgain, scratch, card, InputsKept, ResultInv
    <2>3. CASE ~Fill /\ ~RunAgain
      <3>1. pc' # "run"
        BY <1>b, <2>3
           DEF Local, Open, EnsureHas, EnsureRefresh, EnsureUnsupported, AllocFails,
               AllocTakes, Begin, CopyOut, Fallback, Close, CloseSkips, Closed
      <3>2. QED
        BY <1>b, <3>1 DEF InputsKept
    <2>4. QED
      BY <2>1, <2>2, <2>3
  <1>3. OffloadResultIsOwn'
    <2>1. CASE CopyOut
      BY <1>b, <2>1 DEF CopyOut, Succeeded, ResultInv, ResultIsRight, OffloadResultIsOwn
    <2>2. CASE Begin \/ Fallback
      BY <2>2 DEF Begin, Fallback, OffloadResultIsOwn
    <2>3. CASE ~CopyOut /\ ~Begin /\ ~Fallback
      <3>1. outcome' = outcome
        BY <2>3
           DEF Local, Open, EnsureHas, EnsureRefresh, EnsureUnsupported, AllocFails,
               AllocTakes, Fill, RunAgain, Close, CloseSkips, Closed
      <3>2. QED
        BY <3>1 DEF ResultInv, OffloadResultIsOwn
    <2>4. QED
      BY <2>1, <2>2, <2>3
  <1>4. QED
    BY <1>1, <1>2, <1>3 DEF ResultInv

\* A step that enters a call.
LEMMA ResultEnters ==
    ASSUME OffloadAssumption, MemoryInv, ResultInv, pc # "wait",
           NEW request \in Requests, ~request.waited,
           NEW then \in {"ensure", "alloced", "failed", "ran", "closing"},
           Call(request, then), UNCHANGED <<op, n, outcome, block, stray>>,
           then = "ran" => pc = "run" /\ slot' = slot /\ request = OpRequest,
           then # "ran" => request.kind # "op"
    PROVE  ResultInv'
  <1>a. TypeInv /\ CallInv
    BY DEF MemoryInv
  <1>1. /\ Place = pc /\ Place' = then
        /\ answer' = NoAnswer \/ answer' = Answer("BUSY", 0)
    BY <1>a, CallFacts DEF Place
  <1>2. answer'.status # "OK"
    BY <1>1 DEF NoAnswer, Answer
  <1>3. ResultIsRight' /\ OffloadResultIsOwn'
    BY <1>2 DEF ResultIsRight, ResultInv, OffloadResultIsOwn
  <1>4. InputsKept'
    <2>1. CASE then = "ran"
      BY <1>1, <2>1 DEF InputsKept, ResultInv
    <2>2. CASE then # "ran"
      BY <1>1, <2>2 DEF InputsKept
    <2>3. QED
      BY <2>1, <2>2
  <1> DEFINE r == [request EXCEPT !.waited = TRUE]
  <1>5. r.kind = request.kind /\ r.out = request.out /\ r.handles = request.handles
    BY DEF Requests
  <1>6. \A i \in DOMAIN inbox : ~inbox[i].waited
    BY <1>a, NoCaller
  <1>7. inbox \in Seq(Requests)
    BY <1>a DEF TypeInv
  <1>8. then = "ran" => /\ request.out = Output /\ slot' = slot
                        /\ request.handles = [k \in DOMAIN Needs(op) |->
                                                 slot[Needs(op)[k][1]].handle]
    BY FieldsOfRequest DEF OpRequest
  <1> HIDE DEF r
  <1>9. CASE inbox' = Append(inbox, r)
    <2>1. /\ DOMAIN inbox' = 1..(Len(inbox) + 1) /\ Len(inbox) \in Nat
          /\ inbox'[Len(inbox) + 1] = r /\ DOMAIN inbox = 1..Len(inbox)
          /\ \A i \in 1..Len(inbox) : inbox'[i] = inbox[i]
      BY <1>7, <1>9
    <2>2. CallerIsThisOp'
      <3>1. SUFFICES ASSUME NEW i \in DOMAIN inbox', inbox'[i].kind = "op",
                            inbox'[i].waited
                     PROVE  /\ inbox'[i].handles = [k \in DOMAIN Needs(op) |->
                                                       slot'[Needs(op)[k][1]].handle]
                            /\ inbox'[i].out = Output'
        BY DEF CallerIsThisOp
      <3>2. inbox'[i] = r
        BY <1>6, <2>1, <3>1
      <3>3. then = "ran" /\ slot' = slot
        BY <1>5, <1>8, <3>1, <3>2
      <3>4. Output' = Output
        BY <3>3 DEF Output
      <3>5. QED
        BY <1>5, <1>8, <3>2, <3>3, <3>4
    <2>3. QED
      BY <1>3, <1>4, <2>2 DEF ResultInv
  <1>10. CASE inbox' = inbox
    <2>1. CallerIsThisOp'
      BY <1>6, <1>10 DEF CallerIsThisOp
    <2>2. QED
      BY <1>3, <1>4, <2>1 DEF ResultInv
  <1>11. QED
    BY <1>9, <1>10, CallFacts, <1>a DEF r

---------------------------------------------------------------------------
\* Results: the steps of the card.

\* The blocks of an operation's buffers are there, nothing on its way frees them,
\* and no input is the output.
LEMMA UsedBlocks ==
    ASSUME OffloadAssumption, MemoryInv, Place \in {"run", "ran"}, NEW r \in Used(op)
    PROVE  /\ op \in Ops /\ r \in RoleSet /\ slot[r].handle \in 1..MaxHandles
           /\ slot[r].handle \in DOMAIN block \ Frees(inbox)
           /\ r # "dst" => slot[r].handle # Output
  <1>1. op \in Ops /\ \A i \in 1..Len(Needs(op)) : slot[Needs(op)[i][1]].handle # 0
    BY DEF MemoryInv, ProgressInv
  <1>2. r \in RoleSet /\ slot[r].handle # 0
    <2>1. PICK i \in DOMAIN Needs(op) : r = Needs(op)[i][1]
      BY DEF Used
    <2>2. QED
      BY <1>1, <2>1, NeedsFacts
  <1>3. slot[r].handle \in Named
    BY <1>2 DEF Named
  <1>4. NamedOnce /\ Named \subseteq DOMAIN block \ Frees(inbox)
    BY BlockInvIs DEF MemoryInv
  <1>5. "dst" \in RoleSet
    BY RoleSetIs
  <1>6. r # "dst" => slot[r].handle # Output
    BY <1>2, <1>4, <1>5 DEF NamedOnce, Output
  <1>7. QED
    BY <1>1, <1>2, <1>3, <1>4, <1>6 DEF MemoryInv, TypeInv, TypeOK

\* An operation whose request reaches the card with its caller still there is
\* computed from its own inputs, unless one of them was written over.
LEMMA OwnInputs ==
    ASSUME OffloadAssumption, MemoryInv, ResultInv, NEW i \in DOMAIN inbox,
           inbox[i].kind = "op", inbox[i].waited
    PROVE  /\ Place = "ran" /\ inbox[i].out = Output
           /\ \/ Computed(ToSet(inbox[i].handles) \ {inbox[i].out}) = n
              \/ \E r \in Inputs(op) : slot[r].handle \in stray
           /\ "dst" \in Used(op) => Output \in ToSet(inbox[i].handles) /\ Output # 0
  <1>1. Place = "ran"
    BY DEF MemoryInv, CallInv, Place
  <1>2. /\ inbox[i].handles = [k \in DOMAIN Needs(op) |-> slot[Needs(op)[k][1]].handle]
        /\ inbox[i].out = Output
    BY DEF ResultInv, CallerIsThisOp
  <1> DEFINE handles == ToSet(inbox[i].handles)
  <1>3. handles = {slot[r].handle : r \in Used(op)}
    BY <1>2 DEF ToSet, Used
  <1> HIDE DEF handles
  <1>4. \A r \in Used(op) : slot[r].handle # 0
    <2>1. SUFFICES ASSUME NEW r \in Used(op) PROVE slot[r].handle # 0
      OBVIOUS
    <2>2. slot[r].handle \in 1..MaxHandles
      BY <1>1, UsedBlocks
    <2>3. QED
      BY <2>2
  <1>5. "dst" \in Used(op) => Output \in handles /\ Output # 0
    BY <1>3, <1>4 DEF Output
  <1> DEFINE S == {slot[r].handle : r \in Inputs(op)}
             held == {block[h] : h \in S}
  <1>6. handles \ {Output} = S
    <2>1. \A r \in Inputs(op) : slot[r].handle # Output
      BY <1>1, UsedBlocks DEF Inputs
    <2>2. QED
      BY <1>3, <1>4, <2>1 DEF Inputs, Output
  <1>7. ASSUME \A r \in Inputs(op) : slot[r].handle \notin stray
        PROVE  Computed(S) = n
    <2>1. op \in Ops
      BY <1>1 DEF MemoryInv, ProgressInv
    <2>2. Inputs(op) # {}
      BY <2>1, InputsFacts
    <2>3. \A r \in Inputs(op) : block[slot[r].handle] = n
      BY <1>1, <1>7 DEF ResultInv, InputsKept
    <2>4. held = {n}
      BY <2>2, <2>3
    <2>5. Cardinality(held) = 1
      BY <2>4, FS_Singleton
    <2>6. Computed(S) = CHOOSE x \in held : TRUE
      BY <2>5 DEF Computed
    <2>7. QED
      BY <2>4, <2>6
  <1>8. QED
    BY <1>1, <1>2, <1>5, <1>6, <1>7 DEF handles

\* Executing one request leaves what the operation's buffers hold, unless it is
\* that operation and the buffer its output, or one given up, whose traces stay.
LEMMA UsedStay ==
    ASSUME OffloadAssumption, MemoryInv, Place \in {"run", "ran"},
           NEW i \in DOMAIN inbox, CardAllocates(i) \/ CardFrees(i) \/ CardComputes(i),
           NEW r \in Used(op)
    PROVE  \/ slot[r].handle \in stray'
           \/ /\ slot[r].handle \notin stray
              /\ block'[slot[r].handle] = block[slot[r].handle]
           \/ /\ inbox[i].waited /\ inbox[i].kind = "op"
              /\ slot[r].handle = inbox[i].out
  <1> DEFINE h == slot[r].handle
  <1>1. h \in 1..MaxHandles /\ h \in DOMAIN block \ Frees(inbox)
    BY UsedBlocks
  <1>2. h # 0
    BY <1>1
  <1>3. CASE CardAllocates(i)
    <2>1. stray' = stray
      BY <1>3 DEF CardAllocates
    <2>2. CASE FreeHandles = {}
      BY <1>3, <2>1, <2>2 DEF CardAllocates
    <2>3. CASE FreeHandles # {}
      <3> DEFINE m == Min(FreeHandles)
      <3>1. FreeHandles \in SUBSET Nat
        BY DEF FreeHandles
      <3>2. m \in FreeHandles
        BY <2>3, <3>1, MinOfHandles
      <3> HIDE DEF m
      <3>3. block' = [x \in DOMAIN block \cup {m} |-> IF x = m THEN 0 ELSE block[x]]
        BY <1>3, <2>3 DEF CardAllocates, m
      <3>4. h # m
        BY <1>1, <3>2 DEF FreeHandles
      <3>5. QED
        BY <1>1, <2>1, <3>3, <3>4
    <2>4. QED
      BY <2>2, <2>3
  <1>4. CASE CardFrees(i)
    <2>1. ToSet(inbox[i].handles) = FreedBy(inbox[i])
      BY <1>4 DEF CardFrees, FreedBy
    <2>2. h \notin ToSet(inbox[i].handles)
      BY <1>1, <2>1 DEF Frees
    <2>3. /\ block' = [x \in DOMAIN block \ ToSet(inbox[i].handles) |-> block[x]]
          /\ stray' = stray \ ToSet(inbox[i].handles)
      BY <1>4 DEF CardFrees
    <2>4. QED
      BY <1>1, <2>2, <2>3
  <1>5. CASE CardComputes(i)
    <2>1. inbox[i].kind = "op"
      BY <1>5 DEF CardComputes
    <2>2. CASE block' = block /\ stray' = stray
      BY <2>2
    <2>3. ASSUME NEW v, block' = [x \in DOMAIN block |->
                                     IF x = inbox[i].out THEN v ELSE block[x]],
                 stray' = IF inbox[i].waited THEN stray \ {inbox[i].out}
                                             ELSE stray \cup ({inbox[i].out} \ {0})
          PROVE  \/ h \in stray'
                 \/ h \notin stray /\ block'[h] = block[h]
                 \/ inbox[i].waited /\ h = inbox[i].out
      BY <1>1, <1>2, <2>3
    <2>4. QED
      BY <1>5, <2>1, <2>2, <2>3 DEF CardComputes
  <1>6. QED
    BY <1>3, <1>4, <1>5

LEMMA ResultCard ==
    ASSUME OffloadAssumption, MemoryInv, ResultInv, CardExecutes
    PROVE  ResultInv'
  <1>a. TypeInv /\ CallInv
    BY DEF MemoryInv
  <1>b. UNCHANGED <<slot, pc, after, op, n, outcome>> /\ Place' = Place
    BY DEF CardExecutes, scratch, Place
  <1>1. PICK i \in DOMAIN inbox : CardAllocates(i) \/ CardFrees(i) \/ CardComputes(i)
    BY DEF CardExecutes
  <1>2. inbox' = Others(i) /\ (~inbox[i].waited => answer' = answer)
    BY <1>1 DEF CardAllocates, CardFrees, CardComputes, Deliver
  <1>3. \A j \in DOMAIN inbox' : inbox'[j] = inbox[Up(i, j)] /\ Up(i, j) \in DOMAIN inbox
    BY <1>2, <1>a, OthersFacts
  <1>4. CallerIsThisOp'
    BY <1>3, <1>b DEF ResultInv, CallerIsThisOp, Output
  <1>5. inbox[i].kind = "op" /\ inbox[i].waited => inbox[i].out = Output
    BY OwnInputs
  <1>6. Inputs(op) \subseteq Used(op) \ {"dst"}
    BY DEF Inputs
  <1>7. InputsKept'
    <2>1. SUFFICES ASSUME Place \in {"run", "ran"}, NEW r \in Inputs(op)
                   PROVE  block'[slot[r].handle] = n \/ slot[r].handle \in stray'
      BY <1>b DEF InputsKept
    <2>2. slot[r].handle # Output
      BY <1>6, <2>1, UsedBlocks
    <2>3. \/ slot[r].handle \in stray'
          \/ slot[r].handle \notin stray /\ block'[slot[r].handle] = block[slot[r].handle]
      BY <1>1, <1>5, <1>6, <2>1, <2>2, UsedStay
    <2>4. QED
      BY <2>1, <2>3 DEF ResultInv, InputsKept
  <1>8. ResultIsRight'
    <2>1. SUFFICES ASSUME Place = "ran", answer'.status = "OK"
                   PROVE  Value' = n \/ Overwritten'
      BY <1>b DEF ResultIsRight
    <2>2. Overwritten' <=> \E r \in Used(op) : slot[r].handle \in stray'
      BY <1>b DEF Overwritten
    <2>3. CASE ~inbox[i].waited
      <3>1. \A r \in Used(op) :
               \/ slot[r].handle \in stray'
               \/ /\ slot[r].handle \notin stray
                  /\ block'[slot[r].handle] = block[slot[r].handle]
        BY <1>1, <2>1, <2>3, UsedStay
      <3>2. Value = n \/ Overwritten
        BY <1>2, <2>1, <2>3 DEF ResultInv, ResultIsRight
      <3>3. Value' = Value \/ Overwritten'
        BY <1>2, <1>b, <2>2, <2>3, <3>1 DEF Value
      <3>4. Overwritten => Overwritten'
        BY <2>2, <3>1 DEF Overwritten
      <3>5. QED
        BY <3>2, <3>3, <3>4
    <2>4. CASE inbox[i].waited
      <3>1. pc = "wait" /\ after = "ran" /\ inbox[i].kind = "op"
        BY <1>a, <2>1, <2>4 DEF CallInv, Place
      <3>2. CardComputes(i)
        BY <1>1, <3>1 DEF CardAllocates, CardFrees
      <3> DEFINE handles == ToSet(inbox[i].handles)
                 value   == Computed(handles \ {inbox[i].out})
      <3>3. /\ inbox[i].out = Output
            /\ value = n \/ \E r \in Inputs(op) : slot[r].handle \in stray
            /\ "dst" \in Used(op) => Output \in handles /\ Output # 0
        BY <2>4, <3>1, OwnInputs
      <3>4. /\ handles \subseteq DOMAIN block /\ stray' = stray \ {inbox[i].out}
            /\ block' = [h \in DOMAIN block |-> IF h = inbox[i].out THEN value ELSE block[h]]
            /\ Deliver(i, "OK", IF inbox[i].out = 0 THEN value ELSE 0)
        <4>1. ASSUME NEW status \in {"BUSY", "ERROR"}, Deliver(i, status, 0)
              PROVE  FALSE
          BY <2>1, <2>4, <4>1 DEF Deliver, Answer
        <4>2. QED
          BY <2>4, <3>2, <4>1 DEF CardComputes
      <3> HIDE DEF value, handles
      <3>5. CASE \E r \in Inputs(op) : slot[r].handle \in stray
        <4>1. PICK r \in Inputs(op) : slot[r].handle \in stray
          BY <3>5
        <4>2. r \in Used(op) /\ slot[r].handle # Output
          BY <1>6, <2>1, <4>1, UsedBlocks
        <4>3. QED
          BY <2>2, <3>3, <3>4, <4>1, <4>2
      <3>6. CASE value = n
        <4>1. CASE "dst" \in Used(op)
          <5>1. Output \in DOMAIN block /\ Output = slot["dst"].handle
            BY <3>3, <3>4, <4>1 DEF Output
          <5>2. Value' = block'[slot["dst"].handle]
            BY <1>b, <4>1 DEF Value
          <5>3. QED
            BY <3>3, <3>4, <3>6, <5>1, <5>2
        <4>2. CASE "dst" \notin Used(op)
          <5>1. Output = 0
            BY <4>2 DEF Output
          <5>2. answer' = Answer("OK", value)
            BY <2>4, <3>3, <3>4, <5>1 DEF Deliver
          <5>3. Value' = answer'.value
            BY <1>b, <4>2 DEF Value
          <5>4. QED
            BY <3>6, <5>2, <5>3 DEF Answer
        <4>3. QED
          BY <4>1, <4>2
      <3>7. QED
        BY <3>3, <3>5, <3>6
    <2>5. QED
      BY <2>3, <2>4
  <1>9. OffloadResultIsOwn'
    BY <1>b DEF ResultInv, OffloadResultIsOwn
  <1>10. QED
    BY <1>4, <1>7, <1>8, <1>9 DEF ResultInv

LEMMA ResultStep ==
    ASSUME OffloadAssumption, MemoryInv, ResultInv, [Next]_vars
    PROVE  ResultInv'
  <1>a. TypeInv /\ TypeOK /\ CallInv
    BY DEF MemoryInv, TypeInv
  <1>1. CASE Local
    BY <1>1, ResultLocal
  <1>2. ASSUME NEW then \in {"ensure", "failed", "closing"}, Freer(then)
        PROVE  ResultInv'
    <2> DEFINE request == Request("free", <<GivenBack>>, 0)
    <2>1. /\ pc # "wait" /\ Call(request, then) /\ request \in Requests
          /\ UNCHANGED <<op, n, outcome, block, stray>>
      BY <1>2, FreerSteps
    <2>2. request.kind = "free" /\ ~request.waited
      BY FieldsOfRequest
    <2> HIDE DEF request
    <2>3. QED
      BY <2>1, <2>2, ResultEnters
  <1>3. CASE EnsureAlloc
    <2> DEFINE request == Request("alloc", <<>>, 0)
    <2>1. /\ pc = "ensure" /\ Call(request, "alloced") /\ request \in Requests
          /\ UNCHANGED <<slot, op, n, outcome, block, stray>>
      BY <1>3, AllocStep
    <2>2. request.kind = "alloc" /\ ~request.waited
      BY FieldsOfRequest
    <2> HIDE DEF request
    <2>3. QED
      BY <2>1, <2>2, ResultEnters
  <1>4. CASE Run
    <2>1. ~OpRequest.waited
      BY FieldsOfRequest DEF OpRequest
    <2>2. /\ pc = "run" /\ Call(OpRequest, "ran") /\ OpRequest \in Requests
          /\ UNCHANGED <<slot, op, n, outcome, block, stray>>
      BY <1>4, RunStep
    <2>3. QED
      BY <2>1, <2>2, ResultEnters
  <1>5. CASE TakeReply
    <2>1. /\ pc = "wait" /\ pc' = after
          /\ UNCHANGED <<slot, op, n, outcome, after, answer, inbox, block, stray>>
      BY <1>5 DEF TakeReply, scratch, card
    <2>2. Place' = Place
      BY <1>a, <2>1 DEF Place, TypeOK
    <2>3. QED
      BY <2>1, <2>2
         DEF ResultInv, InputsKept, CallerIsThisOp, Output, ResultIsRight, Value,
             Overwritten, OffloadResultIsOwn
  <1>6. CASE GiveUp
    <2>1. /\ pc = "wait" /\ pc' = after /\ answer' = Answer("TIMEOUT", 0)
          /\ inbox' = [i \in DOMAIN inbox |-> [inbox[i] EXCEPT !.waited = FALSE]]
          /\ UNCHANGED <<slot, op, n, outcome, after, block, stray>>
      BY <1>6 DEF GiveUp, scratch
    <2>2. Place' = Place
      BY <1>a, <2>1 DEF Place, TypeOK
    <2>3. \A i \in DOMAIN inbox : inbox[i] \in Requests
      BY <1>a DEF TypeInv
    <2>4. DOMAIN inbox' = DOMAIN inbox
      BY <2>1
    <2>5. \A i \in DOMAIN inbox : /\ inbox'[i].kind = inbox[i].kind /\ ~inbox'[i].waited
                                  /\ inbox'[i].out = inbox[i].out
      BY <2>1, <2>3 DEF Requests
    <2>6. CallerIsThisOp'
      BY <2>4, <2>5 DEF CallerIsThisOp
    <2>7. ResultIsRight'
      BY <2>1 DEF ResultIsRight, Answer
    <2>8. InputsKept' /\ OffloadResultIsOwn'
      BY <2>1, <2>2 DEF ResultInv, InputsKept, OffloadResultIsOwn
    <2>9. QED
      BY <2>6, <2>7, <2>8 DEF ResultInv
  <1>7. CASE CardExecutes
    BY <1>7, ResultCard
  <1>8. CASE UNCHANGED vars
    BY <1>8
       DEF vars, ResultInv, InputsKept, CallerIsThisOp, Output, ResultIsRight, Value,
           Overwritten, OffloadResultIsOwn, Place
  <1>9. QED
    BY <1>1, <1>2, <1>3, <1>4, <1>5, <1>6, <1>7, <1>8 DEF Next, Host, Local, Freer

LEMMA ResultInit == ASSUME NEW place \in Starts, InitAt(place) PROVE ResultInv
  <1>1. pc \in Starts /\ inbox = <<>> /\ answer = NoAnswer /\ outcome = "none"
    BY DEF InitAt
  <1>2. DOMAIN inbox = {} /\ Place \in {"open", "closed"}
    BY <1>1 DEF Place, Starts
  <1>3. QED
    BY <1>1, <1>2
       DEF ResultInv, InputsKept, CallerIsThisOp, ResultIsRight, OffloadResultIsOwn

\* What an operation returns is computed from the inputs it passed, although
\* requests that timed out read and write the same scratch buffers in any order,
\* unless one of those wrote over an input after it was filled or over the output
\* after it was computed (zz9k_offload_run and its callers).
THEOREM ResultsAreOwn ==
    ASSUME OffloadAssumption PROVE Spec => []OffloadResultIsOwn
  <1>1. MemoryInv /\ ResultInv => OffloadResultIsOwn
    BY DEF ResultInv
  <1>2. Init => MemoryInv /\ ResultInv
    BY MemoryInit, ResultInit DEF Init, Starts
  <1>3. MemoryInv /\ ResultInv /\ [Next]_vars => (MemoryInv /\ ResultInv)'
    BY MemoryStep, ResultStep
  <1>4. QED
    BY <1>1, <1>2, <1>3, PTL DEF Spec
=============================================================================
