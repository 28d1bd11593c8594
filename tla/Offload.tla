------------------------------ MODULE Offload ------------------------------
(***************************************************************************)
(* The offload layer of the AmiSSL provider                                *)
(* (amiga/provider/zz9k_offload.c) over the host library's shared buffers  *)
(* (zz9k_alloc_shared and zz9k_free_shared of host/src/zz9k_host.c).       *)
(*                                                                         *)
(* A provider context keeps one scratch buffer per role, which grows when  *)
(* an operation needs more.  Every allocation, free and operation is a     *)
(* blocking call that may time out while its request stays queued at the   *)
(* card: the context then carries on with the same buffers, and the card   *)
(* executes the request late.                                              *)
(*                                                                         *)
(* Whose reply a reply is, is settled in Mailbox: a request carries        *)
(* whether its caller still waits.  A block holds the number of the        *)
(* operation whose bytes were written there last, by the host or as its    *)
(* result by the card; 0 is a result computed from mixed inputs.  Lengths  *)
(* are in granules of 16 bytes.  One task uses the context, as AmiSSL      *)
(* does, so in_use never stops an operation.                               *)
(***************************************************************************)
EXTENDS Naturals, Sequences, SequencesExt

CONSTANTS
    Operations,   \* operations the provider asks for
    RecordSizes,  \* inlen of the records to encrypt, in granules
    MaxOps,       \* bound: operations in the life of the context
    RingSize,     \* requests that fit in the request ring
    MaxHandles    \* blocks the card can allocate

\* What a module that instantiates this one assumes of the constants.
OffloadAssumption ==
    /\ Operations \subseteq {"x25519", "derive", "keygen", "aead", "verify"}
    /\ RecordSizes \subseteq Nat \ {0}
    /\ {MaxOps, RingSize, MaxHandles} \subseteq Nat \ {0}

VARIABLES
    window,    \* whether the host can map a block of the board's memory
    pc,        \* where the task is
    after,     \* where it goes when its call returns
    answer,    \* what the call returned
    slot,      \* the scratch buffers: handle (0: none) and length
    op,        \* the operation: its name and inlen
    n,         \* its number
    at,        \* the scratch buffer it is ensuring, or close is freeing
    attempts,  \* attempts left
    outcome,   \* what the operation returned to the provider
    inbox,     \* requests queued at the card
    block,     \* blocks allocated on the card, and what they hold
    lost,      \* ghost: blocks nobody can free any more
    stray      \* ghost: blocks written last by an operation that was given up

card  == <<inbox, block, lost, stray>>
scratch == <<slot, window>>
vars == <<window, pc, after, answer, slot, op, n, at, attempts, outcome,
          inbox, block, lost, stray>>

Roles == <<"key", "small", "nonce", "aad", "src", "dst">>
RoleSet == {Roles[i] : i \in DOMAIN Roles}

NoBuffer == [handle |-> 0, length |-> 0]
NoOp     == [name |-> "none", size |-> 0]
Ops == [name : Operations \ {"aead"}, size : {0}]
           \cup [name : Operations \cap {"aead"}, size : RecordSizes]

\* The buffers an operation ensures, in the order it does.
Needs(o) ==
    CASE o.name = "x25519" -> <<<<"key", 2>>, <<"small", 2>>, <<"dst", 2>>>>
      [] o.name = "derive" -> <<<<"key", 2>>, <<"src", 5>>, <<"dst", 2>>>>
      [] o.name = "keygen" -> <<<<"key", 2>>, <<"dst", 5>>>>
      [] o.name = "aead"   -> <<<<"src", o.size>>, <<"dst", o.size + 1>>, <<"key", 2>>,
                                <<"nonce", 1>>, <<"aad", 1>>>>
      [] o.name = "verify" -> <<<<"small", 2>>, <<"src", 4>>, <<"key", 5>>>>

Used(o)   == {Needs(o)[i][1] : i \in DOMAIN Needs(o)}
Inputs(o) == Used(o) \ {"dst"}

Role == Needs(op)[at][1]
Need == Needs(op)[at][2]

Answer(status, value) == [status |-> status, value |-> value]
NoAnswer == Answer("none", 0)

InitAt(place) ==
    /\ window \in {"known", "unknown", "none"}
    /\ pc = place /\ after = "open" /\ answer = NoAnswer
    /\ slot = [r \in RoleSet |-> NoBuffer]
    /\ op = NoOp /\ n = 0 /\ at = 1 /\ attempts = 0 /\ outcome = "none"
    /\ inbox = <<>> /\ block = [h \in {} |-> 0] /\ lost = {} /\ stray = {}

Init == InitAt("open")

---------------------------------------------------------------------------
\* A blocking call.

Call(request, then) ==
    /\ pc' = "wait" /\ after' = then
    /\ IF Len(inbox) < RingSize
       THEN /\ inbox' = Append(inbox, [request EXCEPT !.waited = TRUE])
            /\ answer' = NoAnswer
       ELSE answer' = Answer("BUSY", 0) /\ UNCHANGED inbox

Request(kind, handles, out) ==
    [kind |-> kind, handles |-> handles, out |-> out, waited |-> FALSE]

TakeReply ==
    /\ pc = "wait" /\ answer # NoAnswer /\ pc' = after
    /\ UNCHANGED <<scratch, after, answer, op, n, at, attempts, outcome, card>>

\* The call times out; its request stays where it is.
GiveUp ==
    /\ pc = "wait" /\ answer = NoAnswer /\ pc' = after
    /\ answer' = Answer("TIMEOUT", 0)
    /\ inbox' = [i \in DOMAIN inbox |-> [inbox[i] EXCEPT !.waited = FALSE]]
    /\ UNCHANGED <<scratch, after, op, n, at, attempts, outcome, block, lost, stray>>

\* A free that never reached the card.
Refused(h) == IF Len(inbox) < RingSize THEN lost ELSE lost \cup {h}

---------------------------------------------------------------------------
\* zz9k_offload_open: the service answered; one allocation proves the board.
Open ==
    /\ pc = "open" /\ pc' = "ensure"
    /\ op' = [name |-> "probe", size |-> 0] /\ at' = 1
    /\ UNCHANGED <<scratch, after, answer, n, attempts, outcome, card>>

\* The buffer being ensured: the probe's is "small".
Wanted == IF op.name = "probe" THEN <<"small", 2>> ELSE <<Role, Need>>
LastBuffer   == op.name = "probe" \/ at = Len(Needs(op))

\* zz9k_offload_ensure.
EnsureHas ==
    /\ pc = "ensure" /\ slot[Wanted[1]].handle # 0 /\ slot[Wanted[1]].length >= Wanted[2]
    /\ IF LastBuffer THEN pc' = (IF op.name = "probe" THEN "idle" ELSE "fill") /\ UNCHANGED at
               ELSE at' = at + 1 /\ UNCHANGED pc
    /\ UNCHANGED <<scratch, after, answer, op, n, attempts, outcome, card>>

\* Too small: freed, whatever that call returns, and forgotten.
EnsureGrow ==
    /\ pc = "ensure" /\ slot[Wanted[1]].handle # 0 /\ slot[Wanted[1]].length < Wanted[2]
    /\ Call(Request("free", <<slot[Wanted[1]].handle>>, 0), "ensure")
    /\ lost' = Refused(slot[Wanted[1]].handle)
    /\ slot' = [slot EXCEPT ![Wanted[1]] = NoBuffer]
    /\ UNCHANGED <<window, op, n, at, attempts, outcome, block, stray>>

\* zz9k_alloc_shared.  Zorro III and the 4 MB board need no layout; another Zorro
\* II board with the capability needs it cached and acknowledged first, and one
\* without cannot be used.
EnsureRefresh ==
    /\ pc = "ensure" /\ slot[Wanted[1]].handle = 0 /\ window = "unknown"
    /\ \/ window' = "known" /\ UNCHANGED pc
       \/ pc' = "failed" /\ UNCHANGED window
    /\ UNCHANGED <<slot, after, answer, op, n, at, attempts, outcome, card>>

EnsureUnsupported ==
    /\ pc = "ensure" /\ slot[Wanted[1]].handle = 0 /\ window = "none"
    /\ pc' = "failed"
    /\ UNCHANGED <<scratch, after, answer, op, n, at, attempts, outcome, card>>

EnsureAlloc ==
    /\ pc = "ensure" /\ slot[Wanted[1]].handle = 0
    /\ window = "known"
    /\ Call(Request("alloc", <<>>, 0), "alloced")
    /\ UNCHANGED <<scratch, op, n, at, attempts, outcome, block, lost, stray>>

AllocFails ==
    /\ pc = "alloced" /\ answer.status # "OK"
    /\ pc' = "failed"
    /\ UNCHANGED <<scratch, after, answer, op, n, at, attempts, outcome, card>>

AllocTakes ==
    /\ pc = "alloced" /\ answer.status = "OK" /\ pc' = "ensure"
    /\ slot' = [slot EXCEPT ![Wanted[1]] =
                    [handle |-> answer.value, length |-> Wanted[2]]]
    /\ UNCHANGED <<window, after, answer, op, n, at, attempts, outcome, card>>

\* Faulty variant: a block that cannot be used is left to the card.
UnusableIsLeft(h) ==
    pc' = "failed" /\ UNCHANGED <<after, answer, inbox, lost>>

UnusableIsFreed(h) ==
    Call(Request("free", <<h>>, 0), "failed") /\ lost' = Refused(h)

\* The block is too short, not mapped, not marked as in the window or outside
\* it: the card's allocation exists and is given back.
AllocUnusable ==
    /\ pc = "alloced" /\ answer.status = "OK"
    /\ UnusableIsFreed(answer.value)
    /\ UNCHANGED <<scratch, op, n, at, attempts, outcome, block, stray>>

---------------------------------------------------------------------------
\* The operations.

Begin ==
    /\ pc = "idle" /\ n < MaxOps /\ pc' = "ensure"
    /\ op' \in Ops /\ n' = n + 1 /\ at' = 1 /\ attempts' = 3 /\ outcome' = "none"
    /\ UNCHANGED <<scratch, after, answer, card>>

\* The inputs are copied in, buffer after buffer.
Fill ==
    /\ pc = "fill" /\ pc' = "run"
    /\ LET inputs == {slot[r].handle : r \in Inputs(op)}
       IN /\ block' = [h \in DOMAIN block |-> IF h \in inputs THEN n ELSE block[h]]
          /\ stray' = stray \ inputs
    /\ UNCHANGED <<scratch, after, answer, op, n, at, attempts, outcome, inbox, lost>>

Run ==
    /\ pc = "run"
    /\ Call(Request("op", [i \in DOMAIN Needs(op) |-> slot[Needs(op)[i][1]].handle],
                    IF "dst" \in Used(op) THEN slot["dst"].handle ELSE 0), "ran")
    /\ attempts' = attempts - 1
    /\ UNCHANGED <<scratch, op, n, at, outcome, block, lost, stray>>

RunAgain ==
    /\ pc = "ran" /\ answer.status = "BUSY" /\ attempts > 0
    /\ pc' = "run"
    /\ UNCHANGED <<scratch, after, answer, op, n, at, attempts, outcome, card>>

\* Faulty variant: everything but an error of the card is a success.
NoError(status) == status # "ERROR"

Succeeded(status) == status = "OK"

\* The value of a verification comes with the reply, that of the others is
\* read from the output buffer.
Value == IF "dst" \in Used(op) THEN block[slot["dst"].handle] ELSE answer.value

\* One of its buffers holds what an operation given up has written.
Overwritten == \E r \in Used(op) : slot[r].handle \in stray

CopyOut ==
    /\ pc = "ran" /\ Succeeded(answer.status)
    /\ outcome' = IF Value = n THEN "right"
                  ELSE IF Overwritten THEN "overwritten" ELSE "wrong"
    /\ pc' = "idle"
    /\ UNCHANGED <<scratch, after, answer, op, n, at, attempts, card>>

\* The provider computes in software, or the operation fails.
Fallback ==
    /\ \/ /\ pc = "ran" /\ ~Succeeded(answer.status)
          /\ answer.status = "BUSY" => attempts = 0
       \/ pc = "failed" /\ op.name # "probe"
    /\ outcome' = "fallback" /\ pc' = "idle"
    /\ UNCHANGED <<scratch, after, answer, op, n, at, attempts, card>>

---------------------------------------------------------------------------
\* zz9k_offload_close, also after a failed probe.

Close ==
    /\ pc = "idle" \/ (pc = "failed" /\ op.name = "probe")
    /\ pc' = "closing" /\ at' = 1 /\ op' = NoOp
    /\ UNCHANGED <<scratch, after, answer, n, attempts, outcome, card>>

\* Faulty variant: the buffer added last is forgotten.
AllRolesButOne == Len(Roles) - 1
AllRoles == Len(Roles)

CloseFrees ==
    /\ pc = "closing" /\ at <= AllRoles /\ slot[Roles[at]].handle # 0
    /\ Call(Request("free", <<slot[Roles[at]].handle>>, 0), "closing")
    /\ lost' = Refused(slot[Roles[at]].handle)
    /\ slot' = [slot EXCEPT ![Roles[at]] = NoBuffer]
    /\ UNCHANGED <<window, op, n, at, attempts, outcome, block, stray>>

CloseSkips ==
    /\ pc = "closing" /\ at <= AllRoles /\ slot[Roles[at]].handle = 0
    /\ at' = at + 1
    /\ UNCHANGED <<scratch, pc, after, answer, op, n, attempts, outcome, card>>

\* The context's memory goes with it.
Closed ==
    /\ pc = "closing" /\ at > AllRoles /\ pc' = "closed"
    /\ slot' = [r \in RoleSet |-> NoBuffer]
    /\ UNCHANGED <<window, after, answer, op, n, at, attempts, outcome, card>>

---------------------------------------------------------------------------
\* The card executes a request, whichever of those queued; its reply finds the
\* caller or nobody.

Others(i) == [j \in 1..(Len(inbox) - 1) |-> IF j < i THEN inbox[j] ELSE inbox[j + 1]]

Deliver(i, status, value) ==
    /\ inbox' = Others(i)
    /\ answer' = IF inbox[i].waited THEN Answer(status, value) ELSE answer

FreeHandles == (1..MaxHandles) \ DOMAIN block

CardAllocates(i) ==
    /\ inbox[i].kind = "alloc" /\ UNCHANGED stray
    /\ IF FreeHandles = {} THEN Deliver(i, "ERROR", 0) /\ UNCHANGED <<block, lost>>
       ELSE LET h == Min(FreeHandles)
            IN /\ block' = [x \in DOMAIN block \cup {h} |->
                                IF x = h THEN 0 ELSE block[x]]
               /\ lost' = IF inbox[i].waited THEN lost ELSE lost \cup {h}
               /\ Deliver(i, "OK", h)

CardFrees(i) ==
    /\ inbox[i].kind = "free"
    /\ block' = [x \in DOMAIN block \ ToSet(inbox[i].handles) |-> block[x]]
    /\ stray' = stray \ ToSet(inbox[i].handles)
    /\ Deliver(i, "OK", 0) /\ UNCHANGED lost

\* Computed from what the buffers hold now.
Computed(handles) ==
    LET held == {block[h] : h \in handles}
    IN IF Cardinality(held) = 1 THEN CHOOSE x \in held : TRUE ELSE 0

CardComputes(i) ==
    LET handles == ToSet(inbox[i].handles)
        out     == inbox[i].out
        value   == Computed(handles \ {out})
    IN /\ inbox[i].kind = "op"
       /\ \/ /\ handles \subseteq DOMAIN block
             /\ stray' = IF inbox[i].waited THEN stray \ {out}
                                            ELSE stray \cup ({out} \ {0})
             /\ block' = [h \in DOMAIN block |-> IF h = out THEN value ELSE block[h]]
             /\ Deliver(i, "OK", IF out = 0 THEN value ELSE 0)
          \/ /\ \E status \in {"BUSY", "ERROR"} : Deliver(i, status, 0)
             /\ UNCHANGED <<block, stray>>
       /\ UNCHANGED lost

CardExecutes ==
    /\ \E i \in DOMAIN inbox :
        CardAllocates(i) \/ CardFrees(i) \/ CardComputes(i)
    /\ UNCHANGED <<scratch, pc, after, op, n, at, attempts, outcome>>

Host == \/ Open \/ EnsureHas \/ EnsureGrow \/ EnsureRefresh \/ EnsureUnsupported
        \/ EnsureAlloc \/ AllocFails \/ AllocTakes \/ AllocUnusable
        \/ Begin \/ Fill \/ Run \/ RunAgain \/ CopyOut \/ Fallback
        \/ Close \/ CloseFrees \/ CloseSkips \/ Closed \/ TakeReply \/ GiveUp

Next == Host \/ CardExecutes

Spec == Init /\ [][Next]_vars

---------------------------------------------------------------------------
TypeOK ==
    /\ window \in {"known", "unknown", "none"}
    /\ pc \in {"open", "ensure", "alloced", "failed", "idle", "fill", "run", "ran",
               "wait", "closing", "closed"}
    /\ after \in {"open", "ensure", "alloced", "failed", "ran", "closing"}
    /\ answer \in [status : {"none", "OK", "BUSY", "ERROR", "TIMEOUT"},
                   value : 0..(MaxHandles + MaxOps)]
    /\ slot \in [RoleSet -> [handle : 0..MaxHandles, length : Nat]]
    /\ n \in 0..MaxOps /\ at \in Nat /\ attempts \in 0..3
    /\ outcome \in {"none", "right", "overwritten", "wrong", "fallback"}
    /\ Len(inbox) <= RingSize
    /\ DOMAIN block \subseteq 1..MaxHandles /\ lost \subseteq 1..MaxHandles
    /\ stray \subseteq 1..MaxHandles

\* What the provider gets from the card is computed from the inputs it passed,
\* although operations that timed out read and write the same buffers while they
\* are filled for the next, in any order.  The only other results are those for
\* which one of them wrote over an input after it was filled, or over the output
\* after it was computed.
OffloadResultIsOwn == outcome # "wrong"

Named   == {slot[r].handle : r \in RoleSet} \ {0}
Freeing == UNION {ToSet(inbox[i].handles) : i \in {j \in DOMAIN inbox :
                                                     inbox[j].kind = "free"}}
InReply == IF pc \in {"wait", "alloced"} /\ after = "alloced" /\ answer.status = "OK"
           THEN {answer.value} ELSE {}

\* Every block the card has allocated is named by one scratch buffer, or on its
\* way to or from the context, or was lost by a call that timed out or was
\* refused: growing, an unusable block and closing leak none.  A buffer's block
\* is there, and is freed only after the buffer has been forgotten.
BlocksAccounted ==
    /\ Named \subseteq DOMAIN block \ Freeing
    /\ \A r, s \in RoleSet : (r # s /\ slot[r].handle # 0)
                                => slot[r].handle # slot[s].handle
    /\ DOMAIN block \subseteq Named \cup Freeing \cup InReply \cup lost
=============================================================================
