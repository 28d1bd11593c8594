---------------------------- MODULE CryptoBatch ----------------------------
(***************************************************************************)
(* The pipelined crypto batches (zz9k_crypto_hash_batch, _stream_batch and *)
(* _aead_batch of host/src/zz9k_host.c, three copies of one loop).  Up to  *)
(* max_in_flight records are submitted, tagged with their index in         *)
(* user_cookie; completions are polled and put into the result slot their  *)
(* cookie names.  The mailbox semaphore is taken for each submission and   *)
(* each poll only, and the loop looks at no id: whatever completion is     *)
(* next in the ring is taken for one of the batch's, one of another        *)
(* context's concurrent batch too; and the calls of another context take   *)
(* completions of this batch and drop them.                                *)
(*                                                                         *)
(* Abstractions.  The rings are sequences of capacity RingSize (Mailbox    *)
(* shows they are).  A record's data is its token [batch, index]; a        *)
(* completion carries the token of the request it answers as a ghost.      *)
(* Batches of one caller follow one another.                               *)
(***************************************************************************)
EXTENDS Naturals, Sequences, FiniteSets

CONSTANTS
    Count,         \* count: records of a batch
    MaxInFlight,   \* max_in_flight
    TimeoutTicks,  \* timeout_ticks
    RingSize,      \* entries each ring holds
    MaxBatches,    \* bound: batches one after the other
    Foreign        \* bound: what other contexts do to the completion ring

ASSUME CryptoBatchAssumption ==
    /\ {Count, MaxInFlight, RingSize, MaxBatches} \subseteq Nat \ {0}
    /\ TimeoutTicks \in Nat /\ Foreign \in Nat

VARIABLES
    reqRing, cmpRing,  \* the rings
    working,           \* requests the firmware has taken
    foreign,           \* what other contexts may still do to the completion ring
    pc,
    batch,             \* ghost: number of the current batch
    submitted,         \* submitted_total
    burst,             \* where the current zz9k_submit_batch ends
    completed,         \* completed_total
    inFlight,          \* in_flight
    waitTicks,         \* wait_ticks
    replies,           \* completions the current zz9k_poll_batch has read
    results,           \* result slot of each record
    status,            \* what the batch returned
    unclean            \* ghost: earlier batches that did not return OK, or did
                       \* with a result of another context's in a slot

rings == <<reqRing, cmpRing, working, foreign>>
history == <<batch, unclean>>
counters == <<submitted, burst, completed, inFlight, waitTicks>>
vars == <<reqRing, cmpRing, working, foreign, pc, batch, submitted, burst,
          completed, inFlight, waitTicks, replies, results, status, unclean>>

Indices == 0..(Count - 1)
Other   == [batch |-> 0, index |-> 0]
Tokens  == [batch : 1..MaxBatches, index : Indices] \cup {Other}
Empty   == [batch |-> 0, index |-> Count]     \* bytes_written is 0

\* A completion: its user_cookie (Count: any that is no index), whether it
\* reports a crypto result, and the request it answers.
Entries == [cookie : 0..Count, good : BOOLEAN, of : Tokens]

InitAt(place) ==
    /\ reqRing \in {<<>>, [i \in 1..RingSize |-> [cookie |-> Count, of |-> Other]]}
    /\ cmpRing = <<>> /\ working = {} /\ foreign = Foreign
    /\ pc = place /\ batch = 0
    /\ submitted = 0 /\ burst = 0 /\ completed = 0 /\ inFlight = 0
    /\ waitTicks = 0 /\ replies = <<>>
    /\ results = [i \in Indices |-> Empty] /\ status = "NONE"
    /\ unclean = {}

Init == InitAt("idle")

Smaller(a, b) == IF a < b THEN a ELSE b

---------------------------------------------------------------------------
Begin ==
    /\ pc \in {"idle", "returned"} /\ batch < MaxBatches
    /\ batch' = batch + 1
    /\ unclean' = IF \/ status \notin {"NONE", "OK"}
                     \/ \E i \in Indices : results[i] = Other
                  THEN unclean \cup {batch} ELSE unclean
    /\ results' = [i \in Indices |-> Empty]
    /\ submitted' = 0 /\ burst' = 0 /\ completed' = 0 /\ inFlight' = 0
    /\ waitTicks' = 0 /\ replies' = <<>> /\ status' = "NONE"
    /\ pc' = "fill"
    /\ UNCHANGED rings

\* The batch ends; what is in flight stays in flight.
Returns(how) ==
    /\ pc' = "returned" /\ status' = how
    /\ UNCHANGED <<rings, history, counters, replies, results>>

\* Faulty variant: one completion too early.
AllButOneCompleted == completed + 1 >= Count

AllCompleted == completed >= Count

Finished ==
    /\ pc = "fill" /\ AllCompleted
    /\ Returns("OK")

\* Faulty variant: the pipeline is filled whatever is in flight.
RoomIgnoringInFlight == MaxInFlight

Room == MaxInFlight - inFlight

\* All requests of a burst are built before the first is submitted.  The builder
\* may refuse a descriptor it has not built yet: those below burst it has.
StartBurst ==
    /\ pc = "fill" /\ ~AllCompleted
    /\ submitted < Count /\ Room > 0
    /\ LET end == Smaller(Count, submitted + Room)
       IN \/ /\ burst' = end /\ pc' = "submit"
             /\ UNCHANGED <<rings, history, submitted, completed, inFlight,
                            waitTicks, replies, results, status>>
          \/ end > burst /\ Returns("BAD_REQUEST")

NothingToSubmit ==
    /\ pc = "fill" /\ ~AllCompleted
    /\ ~(submitted < Count /\ Room > 0)
    /\ pc' = "poll"
    /\ UNCHANGED <<rings, history, counters, replies, results, status>>

\* Faulty variant: a record is tagged with its place in the pipeline.
CookieOfPlace(i) == inFlight

CookieOf(i) == i

\* zz9k_submit for the next record, or the ring is full and the burst is cut
\* short.
SubmitOne ==
    /\ pc = "submit" /\ submitted < burst
    /\ Len(reqRing) < RingSize
    /\ reqRing' = Append(reqRing,
                         [cookie |-> CookieOf(submitted),
                          of |-> [batch |-> batch, index |-> submitted]])
    /\ submitted' = submitted + 1
    /\ inFlight' = inFlight + 1
    /\ waitTicks' = 0
    /\ UNCHANGED <<cmpRing, working, foreign, pc, history, burst, completed,
                   replies, results, status>>

EndBurst ==
    /\ pc = "submit"
    /\ submitted = burst \/ Len(reqRing) = RingSize
    /\ pc' = "poll"
    /\ UNCHANGED <<rings, history, counters, replies, results, status>>

\* Nothing in flight and no room to submit, or no completion: nap and count.

\* Faulty variant: naps with nothing in flight are not counted.
CountedNap == inFlight > 0
NapIsCounted == TRUE

Nap ==
    /\ pc = "poll" /\ replies = <<>>
    /\ inFlight = 0 \/ cmpRing = <<>>
    /\ LET ticks == IF NapIsCounted THEN waitTicks + 1 ELSE waitTicks
       IN IF ticks >= TimeoutTicks
          THEN Returns("TIMEOUT")
          ELSE /\ waitTicks' = ticks
               /\ pc' = "fill"
               /\ UNCHANGED <<rings, history, submitted, burst, completed,
                              inFlight, replies, results, status>>

\* zz9k_poll for the next completion, until there is none or as many as were
\* in flight have been read.
PollOne ==
    /\ pc = "poll" /\ Len(replies) < inFlight
    /\ cmpRing # <<>>
    /\ replies' = Append(replies, Head(cmpRing))
    /\ cmpRing' = Tail(cmpRing)
    /\ UNCHANGED <<reqRing, working, foreign, pc, history, counters, results,
                   status>>

\* The replies that cannot be taken: not an index, a slot already filled, or
\* no crypto result.
Refused(k) ==
    \/ replies[k].cookie >= Count
    \/ results[replies[k].cookie] # Empty
    \/ \E j \in 1..(k - 1) : replies[j].cookie = replies[k].cookie
    \/ ~replies[k].good

\* Faulty variant: every poll counts as one completion.
OnePerPoll == 1
JustCompleted == Len(replies)

\* The replies before the first that is refused fill their slots; a refused
\* one ends the batch.
TakeReplies ==
    /\ pc = "poll" /\ replies # <<>>
    /\ Len(replies) = inFlight \/ cmpRing = <<>>
    /\ LET refused == {k \in DOMAIN replies : Refused(k)}
           taken == {k \in DOMAIN replies : \A j \in refused : k < j}
       IN /\ results' = [i \in Indices |->
                  IF \E k \in taken : replies[k].cookie = i
                  THEN replies[CHOOSE k \in taken : replies[k].cookie = i].of
                  ELSE results[i]]
          /\ IF refused # {}
             THEN /\ pc' = "returned" /\ status' = "ERROR"
                  /\ UNCHANGED <<counters, replies>>
             ELSE /\ completed' = completed + JustCompleted
                  /\ inFlight' = inFlight - JustCompleted
                  /\ waitTicks' = 0
                  /\ replies' = <<>>
                  /\ pc' = "fill"
                  /\ UNCHANGED <<submitted, burst, status>>
    /\ UNCHANGED <<rings, history>>

---------------------------------------------------------------------------
\* The firmware takes requests in order and finishes them in any order, with
\* or without success.
firmware == <<pc, history, counters, replies, results, status>>

FwTake ==
    /\ reqRing # <<>>
    /\ working' = IF Head(reqRing).of = Other THEN working
                                              ELSE working \cup {Head(reqRing)}
    /\ reqRing' = Tail(reqRing)
    /\ UNCHANGED <<cmpRing, foreign, firmware>>

FwComplete ==
    /\ Len(cmpRing) < RingSize
    /\ \E r \in working, good \in BOOLEAN :
         /\ working' = working \ {r}
         /\ cmpRing' = Append(cmpRing, [cookie |-> r.cookie, good |-> good,
                                        of |-> r.of])
    /\ UNCHANGED <<reqRing, foreign, firmware>>

\* Another context's request is completed, with the cookie of a concurrent batch,
\* the default 0 or any other.  A reply that is no crypto result is refused as one
\* whose cookie is no index is.
FwCompleteForeign ==
    /\ foreign > 0 /\ Len(cmpRing) < RingSize
    /\ foreign' = foreign - 1
    /\ \E cookie \in 0..Count :
         cmpRing' = Append(cmpRing, [cookie |-> cookie, good |-> TRUE, of |-> Other])
    /\ UNCHANGED <<reqRing, working, firmware>>

\* Another context's zz9k_call or poll takes the next completion; it drops the
\* one that is not its own.
ForeignConsumes ==
    /\ foreign > 0 /\ cmpRing # <<>>
    /\ foreign' = foreign - 1
    /\ cmpRing' = Tail(cmpRing)
    /\ UNCHANGED <<reqRing, working, firmware>>

---------------------------------------------------------------------------
Caller == \/ Finished \/ StartBurst \/ NothingToSubmit \/ SubmitOne \/ EndBurst
          \/ Nap \/ PollOne \/ TakeReplies

Next == \/ Begin \/ Caller
        \/ FwTake \/ FwComplete \/ FwCompleteForeign \/ ForeignConsumes

Spec == Init /\ [][Next]_vars

\* The caller runs.  Nothing is assumed of the firmware.
Fairness == WF_vars(Caller)

FairSpec == Spec /\ Fairness

---------------------------------------------------------------------------
Requests == [cookie : 0..Count, of : Tokens]

TypeOK ==
    /\ reqRing \in Seq(Requests) /\ Len(reqRing) <= RingSize
    /\ cmpRing \in Seq(Entries) /\ Len(cmpRing) <= RingSize
    /\ working \subseteq Requests /\ foreign \in 0..Foreign
    /\ pc \in {"off", "idle", "fill", "submit", "poll", "returned"}
    /\ batch \in 0..MaxBatches
    /\ submitted \in 0..Count /\ burst \in 0..Count /\ completed \in 0..Count
    /\ inFlight \in 0..MaxInFlight /\ waitTicks \in 0..TimeoutTicks
    /\ replies \in Seq(Entries) /\ Len(replies) <= inFlight
    /\ results \in [Indices -> Tokens \cup {Empty}]
    /\ status \in {"NONE", "OK", "BAD_REQUEST", "TIMEOUT", "ERROR"}
    /\ unclean \subseteq 1..MaxBatches

\* A result slot is filled from the completion of its own record's request, in
\* whatever order the firmware finishes them; and of a request of this batch,
\* unless an earlier batch was unclean: its requests are not told from the later
\* ones with the same index, and even a batch that then returns OK may have taken
\* one of them and leave its own to the next.  The only other result a slot can
\* hold is another context's, and none does as long as this context is alone.
ResultIsOwn ==
    \A i \in Indices :
        results[i] # Empty =>
            \/ /\ results[i].batch # 0 /\ results[i].index = i
               /\ \/ results[i].batch = batch
                  \/ \E b \in unclean : b <= results[i].batch
            \/ results[i] = Other /\ foreign < Foreign

\* A batch that returns OK has a result for each of its records.
OkFillsEverySlot ==
    status = "OK" => \A i \in Indices : results[i] # Empty

\* The books are right: as long as no other context is active and no batch was
\* unclean, what the loop believes in flight is what is in the rings, at the
\* firmware or in the replies just read.
OwnIn(s) == {i \in DOMAIN s : s[i].of.batch = batch}
InFlightExact ==
    (batch > 0 /\ unclean = {} /\ pc # "returned" /\ foreign = Foreign) =>
        inFlight = Cardinality(OwnIn(reqRing)) + Cardinality(working)
                     + Cardinality(OwnIn(cmpRing)) + Cardinality(OwnIn(replies))

\* A batch returns, with nothing in flight and no room in the ring too, and if
\* the firmware never answers.
BatchReturns == pc = "fill" ~> pc = "returned"
=============================================================================
