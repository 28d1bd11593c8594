------------------------- MODULE CryptoBatchProofs -------------------------
(***************************************************************************)
(* For any number of records, batches, ring entries and naps: the books of *)
(* a batch stay in their bounds, its results are those of its own records, *)
(* and OK means that every record has one.  The provider's offload layer,  *)
(* which MCCrypto runs beside it, loses no block of card memory and        *)
(* returns what was computed from its own inputs.                          *)
(***************************************************************************)
EXTENDS MCCrypto, FiniteSetTheorems, TLAPS

---------------------------------------------------------------------------
\* Type correctness.

\* What was submitted has been completed or is in flight, and what a burst has
\* still to submit there is room for.
BooksInv ==
    /\ TypeOK
    /\ submitted = completed + inFlight
    /\ pc = "submit" => burst - submitted <= MaxInFlight - inFlight
    /\ batch = 0 => pc \in {"off", "idle"} /\ \A i \in Indices : results[i] = Empty
    /\ pc # "returned" => status = "NONE"

LEMMA InitBooks == Init => BooksInv
  <1> SUFFICES ASSUME Init PROVE BooksInv
    OBVIOUS
  <1> USE CryptoBatchAssumption
  <1>1. reqRing \in Seq(Requests) /\ Len(reqRing) <= RingSize
    <2>1. CASE reqRing = <<>>
      BY <2>1
    <2>2. CASE reqRing = [i \in 1..RingSize |-> [cookie |-> Count, of |-> Other]]
      <3>1. [cookie |-> Count, of |-> Other] \in Requests
        BY DEF Requests, Tokens
      <3>2. QED
        BY <2>2, <3>1
    <2>3. QED
      BY <2>1, <2>2 DEF Init, InitAt
  <1>2. /\ cmpRing = <<>> /\ working = {} /\ foreign = Foreign /\ pc = "idle"
        /\ batch = 0 /\ submitted = 0 /\ burst = 0 /\ completed = 0
        /\ inFlight = 0 /\ waitTicks = 0 /\ replies = <<>> /\ status = "NONE"
        /\ results = [i \in Indices |-> Empty] /\ unclean = {}
    BY DEF Init, InitAt
  <1>3. QED
    BY <1>1, <1>2 DEF BooksInv, TypeOK

\* Every way out of a batch but an error.
LEMMA ReturnKeepsBooks ==
    ASSUME BooksInv, pc # "off", pc # "idle",
           NEW how \in {"OK", "BAD_REQUEST", "TIMEOUT"}, Returns(how)
    PROVE  BooksInv'
  BY DEF BooksInv, TypeOK, Returns, rings, history, counters

\* A step of the caller within a batch that only moves its counters.
LEMMA CountKeepsBooks ==
    ASSUME BooksInv, pc \in {"fill", "submit", "poll"},
           pc' \in {"fill", "submit", "poll"},
           UNCHANGED <<rings, history, results, status>>,
           replies' \in Seq(Entries), Len(replies') <= inFlight',
           burst' \in 0..Count, completed' \in 0..Count, submitted' \in 0..Count,
           inFlight' \in 0..MaxInFlight, waitTicks' \in 0..TimeoutTicks,
           submitted' = completed' + inFlight',
           pc' = "submit" => burst' - submitted' <= MaxInFlight - inFlight'
    PROVE  BooksInv'
  BY DEF BooksInv, TypeOK, rings, history

LEMMA BeginKeepsBooks == BooksInv /\ Begin => BooksInv'
  <1> SUFFICES ASSUME BooksInv, Begin PROVE BooksInv'
    OBVIOUS
  <1> USE CryptoBatchAssumption
  <1>1. batch' = batch + 1 /\ batch' \in 1..MaxBatches
    BY SMTT(60) DEF Begin, BooksInv, TypeOK
  <1>2. unclean' \subseteq 1..MaxBatches
    <2>1. (status \notin {"NONE", "OK"} \/ \E i \in Indices : results[i] = Other) => batch # 0
      <3>1. Empty # Other
        BY DEF Empty, Other
      <3>2. QED
        BY <3>1 DEF BooksInv
    <2>2. QED
      BY SMTT(60), <2>1 DEF Begin, BooksInv, TypeOK
  <1>3. results' \in [Indices -> Tokens \cup {Empty}]
    BY DEF Begin
  <1>4. QED
    BY SMTT(60), <1>1, <1>2, <1>3 DEF Begin, BooksInv, TypeOK, rings

LEMMA StartBurstKeepsBooks == BooksInv /\ StartBurst => BooksInv'
  <1> SUFFICES ASSUME BooksInv, StartBurst PROVE BooksInv'
    OBVIOUS
  <1> USE CryptoBatchAssumption
  <1> DEFINE end == Smaller(Count, submitted + Room)
  <1>1. end \in 0..Count /\ end - submitted <= MaxInFlight - inFlight
    BY SMTT(60) DEF BooksInv, TypeOK, StartBurst, Smaller, Room
  <1>2. CASE Returns("BAD_REQUEST")
    BY <1>2, ReturnKeepsBooks DEF StartBurst
  <1>3. CASE /\ burst' = end /\ pc' = "submit"
             /\ UNCHANGED <<rings, history, submitted, completed, inFlight,
                            waitTicks, replies, results, status>>
    BY <1>1, <1>3, CountKeepsBooks DEF StartBurst, BooksInv, TypeOK
  <1>4. QED
    BY <1>2, <1>3 DEF StartBurst

LEMMA SubmitOneKeepsBooks == BooksInv /\ SubmitOne => BooksInv'
  <1> SUFFICES ASSUME BooksInv, SubmitOne PROVE BooksInv'
    OBVIOUS
  <1> USE CryptoBatchAssumption
  <1> DEFINE r == [cookie |-> CookieOf(submitted),
                   of |-> [batch |-> batch, index |-> submitted]]
  <1>1. batch \in 1..MaxBatches /\ submitted \in Indices
    BY DEF BooksInv, TypeOK, SubmitOne, Indices
  <1>2. r \in Requests
    BY <1>1 DEF Requests, Tokens, Indices, CookieOf
  <1>3. reqRing' \in Seq(Requests) /\ Len(reqRing') <= RingSize
    BY <1>2 DEF SubmitOne, BooksInv, TypeOK
  <1>4. submitted' \in 0..Count /\ inFlight' \in 0..MaxInFlight
        /\ Len(replies') <= inFlight'
    BY DEF SubmitOne, BooksInv, TypeOK
  <1>5. /\ UNCHANGED <<cmpRing, working, foreign, pc, batch, unclean, burst,
                        completed, replies, results, status>>
        /\ submitted' = submitted + 1 /\ inFlight' = inFlight + 1 /\ waitTicks' = 0
        /\ pc = "submit"
    BY DEF SubmitOne, history
  <1>6. TypeOK'
    <2>1. /\ cmpRing' \in Seq(Entries) /\ Len(cmpRing') <= RingSize
          /\ working' \subseteq Requests /\ foreign' \in 0..Foreign
          /\ pc' \in {"off", "idle", "fill", "submit", "poll", "returned"}
          /\ batch' \in 0..MaxBatches
          /\ burst' \in 0..Count /\ completed' \in 0..Count
          /\ replies' \in Seq(Entries)
      BY <1>5 DEF BooksInv, TypeOK
    <2>2. /\ results' \in [Indices -> Tokens \cup {Empty}]
          /\ status' \in {"NONE", "OK", "BAD_REQUEST", "TIMEOUT", "ERROR"}
          /\ unclean' \subseteq 1..MaxBatches
      BY <1>5 DEF BooksInv, TypeOK
    <2>3. waitTicks' \in 0..TimeoutTicks
      BY <1>5
    <2>4. QED
      BY <1>3, <1>4, <2>1, <2>2, <2>3 DEF TypeOK, Indices, Requests, Entries, Tokens, Empty, Other
  <1>7. /\ submitted' = completed' + inFlight'
        /\ burst' - submitted' <= MaxInFlight - inFlight'
    <2>1. BooksInv => /\ submitted = completed + inFlight
                      /\ (pc = "submit" => burst - submitted <= MaxInFlight - inFlight)
                      /\ {submitted, completed, inFlight, burst} \subseteq Nat
      BY DEF BooksInv, TypeOK
    <2>2. /\ submitted = completed + inFlight /\ burst - submitted <= MaxInFlight - inFlight
          /\ submitted \in Nat /\ completed \in Nat /\ inFlight \in Nat /\ burst \in Nat
      BY <1>5, <2>1
    <2>3. QED
      BY <1>5, <2>2
  <1>8. /\ batch' = 0 => pc' \in {"off", "idle"} /\ \A i \in Indices : results'[i] = Empty
        /\ pc' # "returned" => status' = "NONE"
    BY <1>5 DEF BooksInv
  <1>9. QED
    BY <1>6, <1>7, <1>8 DEF BooksInv, Indices, Empty

LEMMA NapKeepsBooks == BooksInv /\ Nap => BooksInv'
  <1> SUFFICES ASSUME BooksInv, Nap PROVE BooksInv'
    OBVIOUS
  <1> USE CryptoBatchAssumption
  <1>1. CASE Returns("TIMEOUT")
    BY <1>1, ReturnKeepsBooks DEF Nap
  <1>2. CASE ~Returns("TIMEOUT")
    <2>1. /\ waitTicks' = waitTicks + 1 /\ ~(waitTicks + 1 >= TimeoutTicks)
          /\ pc' = "fill"
          /\ UNCHANGED <<rings, history, submitted, burst, completed,
                         inFlight, replies, results, status>>
      BY <1>2 DEF Nap, NapIsCounted
    <2>2. waitTicks' \in 0..TimeoutTicks
      BY <2>1 DEF BooksInv, TypeOK
    <2>3. QED
      BY <2>1, <2>2, CountKeepsBooks DEF Nap, BooksInv, TypeOK
  <1>3. QED
    BY <1>1, <1>2

LEMMA PollOneKeepsBooks == BooksInv /\ PollOne => BooksInv'
  <1> SUFFICES ASSUME BooksInv, PollOne PROVE BooksInv'
    OBVIOUS
  <1>1. Head(cmpRing) \in Entries /\ Tail(cmpRing) \in Seq(Entries)
        /\ Len(Tail(cmpRing)) <= RingSize
    BY CryptoBatchAssumption DEF PollOne, BooksInv, TypeOK
  <1>2. replies' \in Seq(Entries) /\ Len(replies') <= inFlight
    BY <1>1 DEF PollOne, BooksInv, TypeOK
  <1>3. QED
    BY <1>1, <1>2 DEF PollOne, BooksInv, TypeOK, history, counters

\* What a slot is filled with: a reply that is not refused, nor is one before it.
LEMMA Filling ==
    ASSUME BooksInv, TakeReplies
    PROVE  /\ results' \in [Indices -> Tokens \cup {Empty}]
           /\ \A i \in Indices :
                \/ results'[i] = results[i]
                \/ \E k \in DOMAIN replies :
                      /\ ~Refused(k) /\ replies[k].cookie = i
                      /\ results'[i] = replies[k].of
           /\ (\A k \in DOMAIN replies : ~Refused(k)) =>
                \A i \in Indices :
                   (\E k \in DOMAIN replies : replies[k].cookie = i) =>
                      \E k \in DOMAIN replies :
                         replies[k].cookie = i /\ results'[i] = replies[k].of
  <1> DEFINE refused == {k \in DOMAIN replies : Refused(k)}
             taken == {k \in DOMAIN replies : \A j \in refused : k < j}
             filling(i) == IF \E k \in taken : replies[k].cookie = i
                           THEN replies[CHOOSE k \in taken : replies[k].cookie = i].of
                           ELSE results[i]
  <1>1. results' = [i \in Indices |-> filling(i)]
    BY DEF TakeReplies
  <1>2. \A k \in DOMAIN replies : k \in Nat /\ replies[k] \in Entries
    BY DEF BooksInv, TypeOK
  <1>3. \A k \in taken : ~Refused(k) /\ replies[k].of \in Tokens
    <2> TAKE k \in taken
    <2>1. k \in DOMAIN replies /\ k \notin refused
      BY <1>2
    <2>2. QED
      BY <2>1, <1>2 DEF Entries
  <1>4. \A i \in Indices : results[i] \in Tokens \cup {Empty}
    BY DEF BooksInv, TypeOK
  <1>5. ASSUME NEW i \in Indices
        PROVE  /\ filling(i) \in Tokens \cup {Empty}
               /\ \/ filling(i) = results[i]
                  \/ \E k \in taken : replies[k].cookie = i /\ filling(i) = replies[k].of
               /\ (\E k \in taken : replies[k].cookie = i) =>
                     \E k \in taken : replies[k].cookie = i /\ filling(i) = replies[k].of
    <2>1. CASE \E k \in taken : replies[k].cookie = i
      <3> DEFINE k == CHOOSE j \in taken : replies[j].cookie = i
      <3>1. k \in taken /\ replies[k].cookie = i
        BY <2>1
      <3>2. filling(i) = replies[k].of
        BY <2>1
      <3>3. QED
        BY <3>1, <3>2, <1>3
    <2>2. CASE ~\E k \in taken : replies[k].cookie = i
      BY <2>2, <1>4
    <2>3. QED
      BY <2>1, <2>2
  <1>6. \A i \in Indices : results'[i] = filling(i)
    BY <1>1
  <1>7. results' \in [Indices -> Tokens \cup {Empty}]
    BY <1>1, <1>5
  <1>8. ASSUME NEW i \in Indices
        PROVE  \/ results'[i] = results[i]
               \/ \E k \in DOMAIN replies : /\ ~Refused(k) /\ replies[k].cookie = i
                                            /\ results'[i] = replies[k].of
    <2> HIDE DEF filling, taken
    <2>1. taken \subseteq DOMAIN replies
      BY DEF taken
    <2>2. QED
      BY <1>3, <1>5, <1>6, <2>1
  <1>9. ASSUME \A k \in DOMAIN replies : ~Refused(k), NEW i \in Indices,
               \E k \in DOMAIN replies : replies[k].cookie = i
        PROVE  \E k \in DOMAIN replies :
                  replies[k].cookie = i /\ results'[i] = replies[k].of
    <2>1. taken = DOMAIN replies
      BY <1>9
    <2> HIDE DEF filling, taken
    <2>2. QED
      BY <1>5, <1>6, <1>9, <2>1
  <1>10. QED
    BY <1>7, <1>8, <1>9

LEMMA TakeRepliesKeepsBooks == BooksInv /\ TakeReplies => BooksInv'
  <1> SUFFICES ASSUME BooksInv, TakeReplies PROVE BooksInv'
    OBVIOUS
  <1> USE CryptoBatchAssumption
  <1>1. results' \in [Indices -> Tokens \cup {Empty}]
    BY Filling
  <1>2. UNCHANGED <<rings, history>>
    BY DEF TakeReplies
  <1>3. CASE \E k \in DOMAIN replies : Refused(k)
    <2>1. pc' = "returned" /\ status' = "ERROR" /\ UNCHANGED <<counters, replies>>
      BY <1>3 DEF TakeReplies
    <2>2. QED
      BY <1>1, <1>2, <2>1 DEF TakeReplies, BooksInv, TypeOK, rings, history, counters
  <1>4. CASE ~\E k \in DOMAIN replies : Refused(k)
    <2>1. /\ completed' = completed + Len(replies)
          /\ inFlight' = inFlight - Len(replies)
          /\ waitTicks' = 0 /\ replies' = <<>> /\ pc' = "fill"
          /\ UNCHANGED <<submitted, burst, status>>
      BY <1>4 DEF TakeReplies, JustCompleted
    <2>2. Len(replies) \in Nat /\ Len(replies) <= inFlight
      BY DEF BooksInv, TypeOK
    <2>3. completed' \in 0..Count /\ inFlight' \in 0..MaxInFlight
          /\ submitted' = completed' + inFlight'
      BY <2>1, <2>2 DEF BooksInv, TypeOK
    <2>4. QED
      BY SMTT(60), <1>1, <1>2, <2>1, <2>3 DEF TakeReplies, BooksInv, TypeOK, rings, history
  <1>5. QED
    BY <1>3, <1>4

\* The firmware's steps.
LEMMA FirmwareKeepsBooks ==
    BooksInv /\ (FwTake \/ FwComplete \/ FwCompleteForeign \/ ForeignConsumes) => BooksInv'
  <1> SUFFICES ASSUME BooksInv, FwTake \/ FwComplete \/ FwCompleteForeign \/ ForeignConsumes
               PROVE  BooksInv'
    OBVIOUS
  <1> USE CryptoBatchAssumption
  <1>1. CASE FwTake
    <2>1. Head(reqRing) \in Requests /\ Tail(reqRing) \in Seq(Requests)
          /\ Len(Tail(reqRing)) <= RingSize
      BY SMTT(60), <1>1 DEF FwTake, BooksInv, TypeOK
    <2>2. QED
      BY <1>1, <2>1 DEF FwTake, BooksInv, TypeOK, firmware, history, counters
  <1>2. CASE FwComplete
    <2>1. PICK r \in working, good \in BOOLEAN :
            /\ working' = working \ {r}
            /\ cmpRing' = Append(cmpRing, [cookie |-> r.cookie, good |-> good,
                                           of |-> r.of])
      BY <1>2 DEF FwComplete
    <2>2. [cookie |-> r.cookie, good |-> good, of |-> r.of] \in Entries
      BY DEF BooksInv, TypeOK, Requests, Entries
    <2>3. cmpRing' \in Seq(Entries) /\ Len(cmpRing') <= RingSize
      BY <1>2, <2>1, <2>2 DEF FwComplete, BooksInv, TypeOK
    <2>4. QED
      BY <1>2, <2>1, <2>3 DEF FwComplete, BooksInv, TypeOK, firmware, history, counters
  <1>3. CASE FwCompleteForeign
    <2>1. PICK cookie \in 0..Count :
             cmpRing' = Append(cmpRing, [cookie |-> cookie, good |-> TRUE, of |-> Other])
      BY <1>3 DEF FwCompleteForeign
    <2>2. cmpRing' \in Seq(Entries) /\ Len(cmpRing') <= RingSize
      <3>1. [cookie |-> cookie, good |-> TRUE, of |-> Other] \in Entries
        BY DEF Entries, Tokens
      <3>2. cmpRing \in Seq(Entries) /\ Len(cmpRing) < RingSize
        BY <1>3 DEF FwCompleteForeign, BooksInv, TypeOK
      <3>3. QED
        BY <2>1, <3>1, <3>2
    <2>3. foreign' \in 0..Foreign
      BY <1>3 DEF FwCompleteForeign, BooksInv, TypeOK
    <2>4. QED
      BY <1>3, <2>2, <2>3 DEF FwCompleteForeign, BooksInv, TypeOK, firmware, history,
                              counters
  <1>4. CASE ForeignConsumes
    <2>1. cmpRing' \in Seq(Entries) /\ Len(cmpRing') <= RingSize
      BY <1>4 DEF ForeignConsumes, BooksInv, TypeOK
    <2>2. foreign' \in 0..Foreign
      BY <1>4 DEF ForeignConsumes, BooksInv, TypeOK
    <2>3. QED
      BY <1>4, <2>1, <2>2 DEF ForeignConsumes, BooksInv, TypeOK, firmware, history, counters
  <1>5. QED
    BY <1>1, <1>2, <1>3, <1>4

LEMMA StepKeepsBooks == BooksInv /\ [Next]_vars => BooksInv'
  <1> SUFFICES ASSUME BooksInv, [Next]_vars PROVE BooksInv'
    OBVIOUS
  <1>1. CASE Finished
    BY <1>1, ReturnKeepsBooks DEF Finished
  <1>2. CASE NothingToSubmit \/ EndBurst
    <2>1. UNCHANGED <<rings, history, counters, replies, results, status>>
      BY <1>2 DEF NothingToSubmit, EndBurst
    <2>2. pc \in {"fill", "submit"} /\ pc' = "poll"
      BY <1>2 DEF NothingToSubmit, EndBurst
    <2>3. QED
      BY <2>1, <2>2, CountKeepsBooks DEF BooksInv, TypeOK, counters
  <1>3. CASE UNCHANGED vars
    BY <1>3 DEF vars, BooksInv, TypeOK
  <1>4. QED
    BY <1>1, <1>2, <1>3, BeginKeepsBooks, StartBurstKeepsBooks, SubmitOneKeepsBooks,
       NapKeepsBooks, PollOneKeepsBooks, TakeRepliesKeepsBooks, FirmwareKeepsBooks
       DEF Next, Caller

\* The counters of a batch stay in their bounds: never more in flight than the
\* pipeline holds, never more completed than there are records, whatever the
\* firmware sends.  (The batch loops of zz9k_host.c.)
THEOREM TypeCorrect == Spec => []TypeOK
  <1>1. BooksInv => TypeOK
    BY DEF BooksInv
  <1>2. QED
    BY InitBooks, StepKeepsBooks, <1>1, PTL DEF Spec

---------------------------------------------------------------------------
\* OK means that every record has a result.

Filled == {i \in Indices : results[i] # Empty}

\* The loop counts replies, not slots; but it takes a reply only if it fills one.
SlotsInv ==
    /\ BooksInv
    /\ status # "ERROR" => completed = Cardinality(Filled)
    /\ status = "OK" => completed = Count

\* A set that a sequence lists without repetition has as many elements.
LEMMA ListedOnce ==
    ASSUME NEW len \in Nat, NEW T, NEW f \in [1..len -> T],
           \A j, k \in 1..len : f[j] = f[k] => j = k,
           \A t \in T : \E k \in 1..len : f[k] = t
    PROVE  IsFiniteSet(T) /\ Cardinality(T) = len
  <1>1. f \in Bijection(1..len, T)
    BY DEF Bijection, Injection, Surjection, IsInjective
  <1>2. IsFiniteSet(1..len) /\ Cardinality(1..len) = len
    BY FS_Interval
  <1>3. ExistsBijection(1..len, T)
    BY <1>1 DEF ExistsBijection
  <1>4. QED
    BY <1>2, <1>3, FS_Bijection

LEMMA IndicesFinite == IsFiniteSet(Indices) /\ Cardinality(Indices) = Count
  <1>1. Count \in Nat \ {0} /\ 0 \in Int /\ Count - 1 \in Int
    BY CryptoBatchAssumption
  <1>2. IsFiniteSet(0..(Count - 1))
        /\ Cardinality(0..(Count - 1)) = IF 0 > Count - 1 THEN 0 ELSE Count - 1 - 0 + 1
    BY <1>1, FS_Interval
  <1>3. QED
    BY <1>1, <1>2 DEF Indices

LEMMA NothingFilled ==
    ASSUME results = [i \in Indices |-> Empty]
    PROVE  Cardinality(Filled) = 0
  <1>1. Filled = {}
    BY DEF Filled
  <1>2. QED
    BY <1>1, FS_EmptySet

LEMMA TakeRepliesKeepsSlots == SlotsInv /\ TakeReplies => SlotsInv'
  <1> SUFFICES ASSUME SlotsInv, TakeReplies PROVE SlotsInv'
    OBVIOUS
  <1>1. BooksInv /\ BooksInv'
    BY TakeRepliesKeepsBooks DEF SlotsInv
  <1>2. CASE \E k \in DOMAIN replies : Refused(k)
    <2>1. status' = "ERROR"
      BY <1>2 DEF TakeReplies
    <2>2. QED
      BY <1>1, <2>1 DEF SlotsInv
  <1>3. CASE \A k \in DOMAIN replies : ~Refused(k)
    <2> DEFINE len == Len(replies)
               Cookies == {replies[k].cookie : k \in 1..len}
               f == [k \in 1..len |-> replies[k].cookie]
    <2>1. len \in Nat /\ DOMAIN replies = 1..len /\ \A k \in 1..len : replies[k] \in Entries
      <3>1. BooksInv => replies \in Seq(Entries)
        BY DEF BooksInv, TypeOK
      <3>2. QED
        BY <1>1, <3>1
    <2>2. \A k \in 1..len : /\ replies[k].cookie \in Indices
                          /\ results[replies[k].cookie] = Empty
                          /\ replies[k].of # Empty
      <3> TAKE k \in 1..len
      <3>1. ~Refused(k) /\ replies[k] \in Entries
        BY <1>3, <2>1
      <3>2. replies[k].of # Empty
        BY <3>1, CryptoBatchAssumption DEF Entries, Tokens, Empty, Other, Indices
      <3>3. replies[k].cookie \in Indices
        BY <3>1, CryptoBatchAssumption DEF Refused, Entries, Indices
      <3>4. QED
        BY <3>1, <3>2, <3>3 DEF Refused
    <2>3. \A j, k \in 1..len : f[j] = f[k] => j = k
      <3> SUFFICES ASSUME NEW j \in 1..len, NEW k \in 1..len, j < k,
                          replies[j].cookie = replies[k].cookie
                   PROVE  FALSE
        BY <2>1
      <3>1. j \in 1..(k - 1)
        BY <2>1
      <3>2. QED
        BY <1>3, <2>1, <3>1 DEF Refused
    <2>4. IsFiniteSet(Cookies) /\ Cardinality(Cookies) = len
      <3>1. f \in [1..len -> Cookies] /\ \A t \in Cookies : \E k \in 1..len : f[k] = t
        OBVIOUS
      <3> HIDE DEF f, Cookies, len
      <3>2. QED
        BY <2>1, <2>3, <3>1, ListedOnce
    <2>5. Filled' = Filled \cup Cookies
      <3>1. ASSUME NEW i \in Cookies PROVE i \in Filled'
        <4>1. i \in Indices /\ \E k \in DOMAIN replies : replies[k].cookie = i
          BY <2>1, <2>2
        <4>2. PICK k \in DOMAIN replies :
                replies[k].cookie = i /\ results'[i] = replies[k].of
          BY <1>1, <1>3, <4>1, Filling
        <4>3. results'[i] # Empty
          BY <2>1, <2>2, <4>2
        <4>4. QED
          BY <4>1, <4>3 DEF Filled, Empty, Indices
      <3>2. ASSUME NEW i \in Indices, i \notin Cookies PROVE results'[i] = results[i]
        <4>1. ~\E k \in DOMAIN replies : replies[k].cookie = i
          BY <2>1, <3>2
        <4>2. QED
          BY <1>1, <4>1, Filling
      <3>3. Cookies \subseteq Indices
        BY <2>2
      <3>4. Filled' = {i \in Indices : results'[i] # Empty}
        BY DEF Filled, Empty, Indices
      <3>5. \A i \in Cookies : results'[i] # Empty
        BY <3>1, <3>4
      <3>6. \A i \in Cookies : results[i] = Empty
        BY <2>2
      <3> HIDE DEF Cookies
      <3>7. QED
        BY <3>2, <3>3, <3>4, <3>5, <3>6 DEF Filled
    <2>6. Filled \cap Cookies = {}
      BY <2>2 DEF Filled
    <2>7. IsFiniteSet(Filled) /\ Cardinality(Filled) \in Nat
      <3>1. Filled \in SUBSET Indices
        BY DEF Filled
      <3>2. QED
        BY <3>1, IndicesFinite, FS_Subset, FS_CardinalityType
    <2>8. Cardinality(Filled') = Cardinality(Filled) + len
      <3> HIDE DEF Cookies, len
      <3>1. Cardinality(Filled \cup Cookies)
              = Cardinality(Filled) + Cardinality(Cookies) - Cardinality(Filled \cap Cookies)
        BY <2>4, <2>7, FS_Union
      <3>2. Cardinality(Filled \cap Cookies) = 0
        BY <2>6, FS_EmptySet
      <3>3. QED
        BY <2>1, <2>4, <2>5, <2>7, <3>1, <3>2
    <2>9. completed' = completed + len /\ status' = status
      BY <1>3 DEF TakeReplies, JustCompleted
    <2>10. status = "NONE"
      BY <1>1 DEF TakeReplies, BooksInv
    <2>11. QED
      BY <1>1, <2>8, <2>9, <2>10 DEF SlotsInv
  <1>4. QED
    BY <1>2, <1>3

LEMMA StepKeepsSlots == SlotsInv /\ [Next]_vars => SlotsInv'
  <1> SUFFICES ASSUME SlotsInv, [Next]_vars PROVE SlotsInv'
    OBVIOUS
  <1>1. BooksInv /\ BooksInv'
    BY StepKeepsBooks DEF SlotsInv
  <1>2. CASE Begin
    <2>1. results' = [i \in Indices |-> Empty] /\ completed' = 0 /\ status' = "NONE"
      BY <1>2 DEF Begin
    <2>2. Cardinality(Filled') = 0
      <3>1. Filled' = {}
        BY <2>1 DEF Filled, Indices, Empty
      <3>2. QED
        BY <3>1, FS_EmptySet
    <2>3. QED
      BY <1>1, <2>1, <2>2 DEF SlotsInv
  <1>3. CASE Finished
    <2>1. completed = Count /\ status = "NONE"
      <3>1. BooksInv => completed \in 0..Count /\ (pc # "returned" => status = "NONE")
        BY DEF BooksInv, TypeOK
      <3>2. pc = "fill" /\ completed >= Count
        BY <1>3 DEF Finished, AllCompleted
      <3>3. QED
        BY <1>1, <3>1, <3>2, CryptoBatchAssumption
    <2>2. results' = results /\ completed' = completed /\ status' = "OK"
      BY <1>3 DEF Finished, Returns, counters
    <2>3. QED
      BY <1>1, <2>1, <2>2 DEF SlotsInv, Filled, Indices, Empty
  <1>4. CASE /\ UNCHANGED <<results, completed>>
             /\ UNCHANGED status \/ (status = "NONE" /\ status' \in {"BAD_REQUEST", "TIMEOUT"})
    BY <1>1, <1>4 DEF SlotsInv, Filled, Indices, Empty
  <1>5. CASE StartBurst \/ Nap
    <2>1. status = "NONE" /\ UNCHANGED <<results, completed>>
          /\ (UNCHANGED status \/ status' \in {"BAD_REQUEST", "TIMEOUT"})
      <3>1. status = "NONE"
        BY <1>1, <1>5 DEF BooksInv, StartBurst, Nap
      <3>2. CASE StartBurst
        BY <3>1, <3>2 DEF StartBurst, Returns, counters
      <3>3. CASE Nap
        BY <3>1, <3>3 DEF Nap, Returns, counters
      <3>4. QED
        BY <1>5, <3>1, <3>2, <3>3
    <2>2. QED
      BY <1>4, <2>1
  <1>6. CASE NothingToSubmit \/ SubmitOne \/ EndBurst \/ PollOne
    BY <1>4, <1>6 DEF NothingToSubmit, SubmitOne, EndBurst, PollOne, counters
  <1>7. CASE FwTake \/ FwComplete \/ FwCompleteForeign \/ ForeignConsumes
    BY <1>4, <1>7 DEF FwTake, FwComplete, FwCompleteForeign, ForeignConsumes, firmware,
                      counters
  <1>8. CASE UNCHANGED vars
    BY <1>4, <1>8 DEF vars
  <1>9. QED
    BY <1>2, <1>3, <1>5, <1>6, <1>7, <1>8, TakeRepliesKeepsSlots DEF Next, Caller

LEMMA InitSlots == Init => SlotsInv
  <1> SUFFICES ASSUME Init PROVE SlotsInv
    OBVIOUS
  <1>1. results = [i \in Indices |-> Empty] /\ completed = 0 /\ status = "NONE"
    BY DEF Init, InitAt
  <1>2. QED
    BY <1>1, InitBooks, NothingFilled DEF SlotsInv

LEMMA OkFills == SlotsInv => OkFillsEverySlot
  <1> SUFFICES ASSUME SlotsInv, status = "OK" PROVE \A i \in Indices : results[i] # Empty
    BY DEF OkFillsEverySlot
  <1>1. Cardinality(Filled) = Cardinality(Indices) /\ Filled \in SUBSET Indices
    BY IndicesFinite DEF SlotsInv, Filled
  <1>2. Indices = Filled
    BY <1>1, IndicesFinite, FS_Subset
  <1>3. QED
    BY <1>2 DEF Filled

\* A batch that returns OK has a result for each of its records, though it only
\* counts replies and some may be those of an earlier batch.  (The batch loops of
\* zz9k_host.c.)
THEOREM OkMeansFilled == Spec => []OkFillsEverySlot
  BY InitSlots, OkFills, StepKeepsSlots, PTL DEF Spec

---------------------------------------------------------------------------
\* What other contexts do.

\* Their completions are in the ring only once one of them has been active.
ForeignInv ==
    /\ \A r \in working : r.of # Other
    /\ foreign = Foreign => /\ \A i \in DOMAIN cmpRing : cmpRing[i].of # Other
                            /\ \A i \in DOMAIN replies : replies[i].of # Other

GroundInv == SlotsInv /\ ForeignInv

LEMMA StepKeepsForeign == BooksInv /\ ForeignInv /\ [Next]_vars => ForeignInv'
  <1> SUFFICES ASSUME BooksInv, ForeignInv, [Next]_vars PROVE ForeignInv'
    OBVIOUS
  <1>1. /\ cmpRing \in Seq(Entries) /\ replies \in Seq(Entries)
        /\ working \subseteq Requests /\ foreign \in 0..Foreign /\ Foreign \in Nat
    BY CryptoBatchAssumption DEF BooksInv, TypeOK
  <1>2. CASE UNCHANGED <<cmpRing, working, foreign>> /\ replies' \in {replies, <<>>}
    BY <1>2 DEF ForeignInv
  <1>3. CASE Begin \/ TakeReplies
    BY <1>2, <1>3 DEF Begin, TakeReplies, rings
  <1>4. CASE Finished \/ StartBurst \/ NothingToSubmit \/ EndBurst \/ Nap
    BY <1>2, <1>4 DEF Finished, StartBurst, NothingToSubmit, EndBurst, Nap, Returns, rings
  <1>5. CASE SubmitOne \/ UNCHANGED vars
    BY <1>2, <1>5 DEF SubmitOne, vars
  <1>6. CASE PollOne
    <2>1. /\ cmpRing # <<>> /\ cmpRing' = Tail(cmpRing)
          /\ replies' = Append(replies, Head(cmpRing)) /\ UNCHANGED <<working, foreign>>
      BY <1>6 DEF PollOne
    <2>2. /\ \A i \in DOMAIN cmpRing' : \E j \in DOMAIN cmpRing : cmpRing'[i] = cmpRing[j]
          /\ Head(cmpRing) = cmpRing[1] /\ 1 \in DOMAIN cmpRing
      BY <1>1, <2>1
    <2>3. \A i \in DOMAIN replies' :
             \/ replies'[i] = Head(cmpRing)
             \/ i \in DOMAIN replies /\ replies'[i] = replies[i]
      <3>1. Head(cmpRing) \in Entries
        BY <1>1, <2>1
      <3>2. QED
        BY <1>1, <2>1, <3>1
    <2>4. QED
      BY <2>1, <2>2, <2>3 DEF ForeignInv
  <1>7. CASE FwTake
    BY <1>7 DEF FwTake, firmware, ForeignInv
  <1>8. CASE FwComplete
    <2>1. PICK r \in working, good \in BOOLEAN :
            /\ working' = working \ {r}
            /\ cmpRing' = Append(cmpRing, [cookie |-> r.cookie, good |-> good,
                                           of |-> r.of])
      BY <1>8 DEF FwComplete
    <2> DEFINE e == [cookie |-> r.cookie, good |-> good, of |-> r.of]
    <2>2. e \in Entries /\ e.of = r.of
      BY <1>1 DEF Requests, Entries
    <2> HIDE DEF e
    <2>3. cmpRing' = Append(cmpRing, e)
      BY <2>1 DEF e
    <2>4. \A i \in DOMAIN cmpRing' :
             cmpRing'[i] = e \/ (i \in DOMAIN cmpRing /\ cmpRing'[i] = cmpRing[i])
      BY <1>1, <2>2, <2>3
    <2>5. UNCHANGED <<foreign, replies>>
      BY <1>8 DEF FwComplete, firmware
    <2>6. QED
      BY <2>1, <2>2, <2>4, <2>5 DEF ForeignInv
  <1>9. CASE FwCompleteForeign \/ ForeignConsumes
    <2>1. foreign' # Foreign /\ working' = working
      BY <1>1, <1>9 DEF FwCompleteForeign, ForeignConsumes
    <2>2. QED
      BY <2>1 DEF ForeignInv
  <1>10. QED
    BY <1>3, <1>4, <1>5, <1>6, <1>7, <1>8, <1>9 DEF Next, Caller

LEMMA StepKeepsGround == GroundInv /\ [Next]_vars => GroundInv'
  BY StepKeepsForeign, StepKeepsSlots DEF GroundInv, SlotsInv

---------------------------------------------------------------------------
\* Results are those of their own records.

\* The requests that entries of a ring are for, without those of other contexts.
TokensOf(s) == {s[i].of : i \in DOMAIN s} \ {Other}
AtWork == {r.of : r \in working}
Out == TokensOf(reqRing) \cup AtWork \cup TokensOf(cmpRing) \cup TokensOf(replies)

Once(s) == \A i, j \in DOMAIN s : s[i].of = s[j].of => i = j \/ s[i].of = Other

\* The cookie is the index; another context's may be any.
Genuine(e) == e.of # Other => e.cookie = e.of.index
AllGenuine(s) == \A i \in DOMAIN s : Genuine(s[i])

\* A request is in one place, and once.
EntriesInv ==
    /\ AllGenuine(reqRing) /\ AllGenuine(cmpRing) /\ AllGenuine(replies)
    /\ \A r \in working : Genuine(r) /\ r.of # Other
    /\ Once(reqRing) /\ Once(cmpRing)
    /\ TokensOf(reqRing) \cap AtWork = {}
    /\ TokensOf(reqRing) \cap TokensOf(cmpRing) = {}
    /\ TokensOf(reqRing) \cap TokensOf(replies) = {}
    /\ AtWork \cap TokensOf(cmpRing) = {}
    /\ AtWork \cap TokensOf(replies) = {}
    /\ TokensOf(cmpRing) \cap TokensOf(replies) = {}

\* What is on its way was submitted by this batch, or left by an unclean one or
\* one after it; and it has not filled its slot yet.
Legitimate(t) == t.batch = batch \/ \E b \in unclean : b <= t.batch
Submitted(t) == t.batch <= batch /\ (t.batch = batch => t.index < submitted)

OutInv ==
    /\ \A t \in Out : Submitted(t) /\ Legitimate(t)
    /\ \A t \in Out : results[t.index] = t => t \in TokensOf(replies) /\ status = "ERROR"

ResultsInv ==
    /\ ResultIsOwn
    /\ \A i \in Indices : results[i] \notin {Empty, Other} => Submitted(results[i])

PhaseInv ==
    /\ replies # <<>> => pc = "poll" \/ status = "ERROR"
    /\ pc = "returned" => status # "NONE"
    /\ pc \in {"off", "idle"} => batch = 0

OwnInv == GroundInv /\ EntriesInv /\ OutInv /\ ResultsInv /\ PhaseInv

---------------------------------------------------------------------------
\* The rings as sets of requests.

LEMMA Appended ==
    ASSUME NEW S, NEW s \in Seq(S), NEW e \in S
    PROVE  /\ TokensOf(Append(s, e)) = TokensOf(s) \cup ({e.of} \ {Other})
           /\ AllGenuine(s) /\ Genuine(e) => AllGenuine(Append(s, e))
           /\ Once(s) /\ e.of \notin TokensOf(s) => Once(Append(s, e))
  <1>1. /\ Len(s) \in Nat /\ DOMAIN s = 1..Len(s)
        /\ DOMAIN Append(s, e) = 1..(Len(s) + 1)
        /\ \A i \in 1..Len(s) : Append(s, e)[i] = s[i]
        /\ Append(s, e)[Len(s) + 1] = e
    OBVIOUS
  <1>2. \A i \in 1..(Len(s) + 1) : i \in 1..Len(s) \/ i = Len(s) + 1
    BY <1>1
  <1>3. \A i \in 1..Len(s) : i \in 1..(Len(s) + 1)
    BY <1>1
  <1>4. Len(s) + 1 \in 1..(Len(s) + 1)
    BY <1>1
  <1> DEFINE a == Append(s, e)
             len == Len(s)
             m == Len(s) + 1
  <1>5. /\ DOMAIN s = 1..len /\ DOMAIN a = 1..m /\ (\A i \in 1..len : a[i] = s[i]) /\ a[m] = e
        /\ (\A i \in 1..m : i \in 1..len \/ i = m) /\ (\A i \in 1..len : i \in 1..m) /\ m \in 1..m
    BY <1>1, <1>2, <1>3, <1>4
  <1> HIDE DEF a, len, m
  <1>6. TokensOf(a) = TokensOf(s) \cup ({e.of} \ {Other})
    BY <1>5 DEF TokensOf
  <1>7. AllGenuine(s) /\ Genuine(e) => AllGenuine(a)
    BY <1>5 DEF AllGenuine
  <1>8. Once(s) /\ e.of \notin TokensOf(s) => Once(a)
    <2> SUFFICES ASSUME Once(s), e.of \notin TokensOf(s), NEW i \in 1..m, NEW j \in 1..m,
                        a[i].of = a[j].of, a[i].of # Other
                 PROVE  i = j
      BY <1>5 DEF Once
    <2>1. CASE i \in 1..len /\ j \in 1..len
      BY <1>5, <2>1 DEF Once
    <2>2. CASE i = m /\ j = m
      BY <2>2
    <2>3. CASE (i \in 1..len /\ j = m) \/ (i = m /\ j \in 1..len)
      BY <1>5, <2>3 DEF TokensOf
    <2>4. QED
      BY <1>5, <2>1, <2>2, <2>3
  <1>9. QED
    BY <1>6, <1>7, <1>8 DEF a

LEMMA Shifted ==
    ASSUME NEW S, NEW s \in Seq(S), s # <<>>
    PROVE  /\ TokensOf(Tail(s)) \subseteq TokensOf(s)
           /\ Head(s).of # Other => Head(s).of \in TokensOf(s)
           /\ Once(s) => Head(s).of \notin TokensOf(Tail(s)) /\ Once(Tail(s))
           /\ AllGenuine(s) => Genuine(Head(s)) /\ AllGenuine(Tail(s))
  <1> DEFINE t == Tail(s)
             len == Len(s)
             m == Len(s) - 1
  <1>1. /\ len \in Nat \ {0} /\ DOMAIN s = 1..len /\ DOMAIN t = 1..m
        /\ \A i \in 1..m : t[i] = s[i + 1]
        /\ Head(s) = s[1]
    OBVIOUS
  <1>2. 1 \in 1..len /\ (\A i \in 1..m : i + 1 \in 1..len /\ i + 1 # 1)
    BY <1>1
  <1>3. \A i, j \in 1..m : i + 1 = j + 1 => i = j
    BY <1>1
  <1> HIDE DEF t, len, m
  <1>4. TokensOf(t) \subseteq TokensOf(s)
    BY <1>1, <1>2 DEF TokensOf
  <1>5. Head(s).of # Other => Head(s).of \in TokensOf(s)
    BY <1>1, <1>2 DEF TokensOf
  <1>6. Once(s) => Head(s).of \notin TokensOf(t)
    BY <1>1, <1>2 DEF TokensOf, Once
  <1>7. Once(s) => Once(t)
    <2> SUFFICES ASSUME Once(s), NEW i \in 1..m, NEW j \in 1..m,
                        t[i].of = t[j].of, t[i].of # Other
                 PROVE  i = j
      BY <1>1 DEF Once
    <2>1. i + 1 = j + 1
      BY <1>1, <1>2 DEF Once
    <2>2. QED
      BY <2>1, <1>3
  <1>8. AllGenuine(s) => Genuine(Head(s)) /\ AllGenuine(t)
    BY <1>1, <1>2 DEF AllGenuine
  <1>9. QED
    BY <1>4, <1>5, <1>6, <1>7, <1>8 DEF t

LEMMA NoTokens == TokensOf(<<>>) = {} /\ AllGenuine(<<>>) /\ Once(<<>>)
  BY DEF TokensOf, AllGenuine, Once

---------------------------------------------------------------------------
\* The steps.

LEMMA Types ==
    ASSUME OwnInv
    PROVE  /\ reqRing \in Seq(Requests) /\ cmpRing \in Seq(Entries)
           /\ replies \in Seq(Entries) /\ working \subseteq Requests
           /\ batch \in Nat /\ submitted \in Nat /\ unclean \subseteq Nat
           /\ foreign \in Nat /\ Foreign \in Nat
           /\ results \in [Indices -> Tokens \cup {Empty}]
  BY CryptoBatchAssumption DEF OwnInv, GroundInv, SlotsInv, BooksInv, TypeOK

\* A token on its way names a record of some batch.
LEMMA OutTokens ==
    ASSUME OwnInv, NEW t \in Out
    PROVE  t \in [batch : 1..MaxBatches, index : Indices]
  <1>1. /\ reqRing \in Seq(Requests) /\ cmpRing \in Seq(Entries)
        /\ replies \in Seq(Entries) /\ working \subseteq Requests
    BY Types
  <1>2. t # Other
    BY DEF Out, TokensOf, AtWork, OwnInv, EntriesInv
  <1>3. CASE t \in TokensOf(reqRing)
    <2>1. PICK i \in DOMAIN reqRing : t = reqRing[i].of
      BY <1>3 DEF TokensOf
    <2>2. reqRing[i] \in Requests
      BY <1>1
    <2>3. QED
      BY <1>2, <2>1, <2>2 DEF Requests, Tokens
  <1>4. CASE t \in AtWork
    BY <1>1, <1>2, <1>4 DEF AtWork, Requests, Tokens
  <1>5. CASE t \in TokensOf(cmpRing)
    <2>1. PICK i \in DOMAIN cmpRing : t = cmpRing[i].of
      BY <1>5 DEF TokensOf
    <2>2. cmpRing[i] \in Entries
      BY <1>1
    <2>3. QED
      BY <1>2, <2>1, <2>2 DEF Entries, Tokens
  <1>6. CASE t \in TokensOf(replies)
    <2>1. PICK i \in DOMAIN replies : t = replies[i].of
      BY <1>6 DEF TokensOf
    <2>2. replies[i] \in Entries
      BY <1>1
    <2>3. QED
      BY <1>2, <2>1, <2>2 DEF Entries, Tokens
  <1>7. QED
    BY <1>3, <1>4, <1>5, <1>6 DEF Out

\* A step that moves what is on its way, or loses it.
LEMMA MoveKeepsOwn ==
    ASSUME OwnInv, GroundInv', EntriesInv', Out' \subseteq Out,
           UNCHANGED <<batch, unclean, submitted, results>>,
           foreign' \in Nat, foreign' <= foreign,
           \A t \in TokensOf(replies) : status = "ERROR" => t \notin Out' \/
                                            (t \in TokensOf(replies') /\ status' = "ERROR"),
           replies' # <<>> => pc' = "poll" \/ status' = "ERROR",
           pc' = "returned" => status' # "NONE",
           pc' \in {"off", "idle"} => batch = 0
    PROVE  OwnInv'
  <1>1. OutInv'
    <2>1. \A t \in Out' : Submitted(t)' /\ Legitimate(t)'
      BY DEF OwnInv, OutInv, Submitted, Legitimate
    <2>2. \A t \in Out' : results'[t.index] = t => t \in TokensOf(replies') /\ status' = "ERROR"
      BY DEF OwnInv, OutInv
    <2>3. QED
      BY <2>1, <2>2 DEF OutInv
  <1>2. ResultsInv'
    <2>1. foreign < Foreign => foreign' < Foreign
      BY Types
    <2>2. ResultIsOwn'
      BY <2>1 DEF OwnInv, ResultsInv, ResultIsOwn, Indices, Empty, Other
    <2>3. QED
      BY <2>2 DEF OwnInv, ResultsInv, Submitted, Indices, Empty, Other
  <1>3. PhaseInv'
    BY DEF PhaseInv
  <1>4. QED
    BY <1>1, <1>2, <1>3 DEF OwnInv

\* A step that leaves everything on its way where it is.
LEMMA StayKeepsOwn ==
    ASSUME OwnInv, GroundInv', UNCHANGED <<rings, replies, batch, unclean, submitted, results>>,
           status = "ERROR" => status' = "ERROR",
           replies # <<>> => pc' = "poll" \/ status' = "ERROR",
           pc' = "returned" => status' # "NONE",
           pc' \in {"off", "idle"} => batch = 0
    PROVE  OwnInv'
  <1>1. EntriesInv'
    <2>1. UNCHANGED <<reqRing, cmpRing, working, replies>> /\ AtWork' = AtWork
      BY DEF rings, AtWork
    <2>2. /\ AllGenuine(reqRing') /\ AllGenuine(cmpRing') /\ AllGenuine(replies')
          /\ Once(reqRing') /\ Once(cmpRing')
          /\ \A r \in working' : Genuine(r) /\ r.of # Other
      BY <2>1 DEF OwnInv, EntriesInv
    <2>3. /\ TokensOf(reqRing') \cap AtWork' = {}
          /\ TokensOf(reqRing') \cap TokensOf(cmpRing') = {}
          /\ TokensOf(reqRing') \cap TokensOf(replies') = {}
          /\ AtWork' \cap TokensOf(cmpRing') = {}
          /\ AtWork' \cap TokensOf(replies') = {}
          /\ TokensOf(cmpRing') \cap TokensOf(replies') = {}
      BY <2>1 DEF OwnInv, EntriesInv
    <2>4. QED
      BY <2>2, <2>3 DEF EntriesInv, Genuine, AllGenuine
  <1>2. Out' = Out /\ TokensOf(replies') = TokensOf(replies)
    BY DEF Out, rings, AtWork, TokensOf
  <1>3. /\ replies' = replies /\ UNCHANGED <<batch, unclean, submitted, results>>
        /\ foreign' \in Nat /\ foreign' <= foreign
    BY Types DEF rings
  <1>4. \A t \in TokensOf(replies) :
            status = "ERROR" => t \notin Out' \/ (t \in TokensOf(replies') /\ status' = "ERROR")
    BY <1>2
  <1>5. QED
    BY <1>1, <1>2, <1>3, <1>4, MoveKeepsOwn

LEMMA PollOneKeepsOwn == OwnInv /\ GroundInv' /\ PollOne => OwnInv'
  <1> SUFFICES ASSUME OwnInv, GroundInv', PollOne PROVE OwnInv'
    OBVIOUS
  <1> DEFINE e == Head(cmpRing)
  <1>1. /\ cmpRing \in Seq(Entries) /\ cmpRing # <<>> /\ replies \in Seq(Entries)
        /\ e \in Entries
    BY Types DEF PollOne
  <1>2. /\ cmpRing' = Tail(cmpRing) /\ replies' = Append(replies, e)
        /\ UNCHANGED <<reqRing, working, pc, batch, unclean, submitted, results, status>>
        /\ foreign' \in Nat /\ foreign' <= foreign
    BY Types DEF PollOne, history, counters
  <1>3. /\ TokensOf(cmpRing') \subseteq TokensOf(cmpRing)
        /\ e.of # Other => e.of \in TokensOf(cmpRing)
        /\ e.of \notin TokensOf(cmpRing') /\ Once(cmpRing')
        /\ Genuine(e) /\ AllGenuine(cmpRing')
    BY <1>1, <1>2, Shifted DEF OwnInv, EntriesInv
  <1>4. /\ TokensOf(replies') = TokensOf(replies) \cup ({e.of} \ {Other})
        /\ AllGenuine(replies')
    BY <1>1, <1>2, <1>3, Appended DEF OwnInv, EntriesInv
  <1>5. AtWork' = AtWork
    BY <1>2 DEF AtWork
  <1> HIDE DEF e
  <1>6. EntriesInv'
    <2>1. AllGenuine(reqRing') /\ Once(reqRing')
          /\ \A r \in working' : Genuine(r) /\ r.of # Other
      BY <1>2 DEF OwnInv, EntriesInv
    <2>2. /\ TokensOf(reqRing') \cap AtWork' = {}
          /\ TokensOf(reqRing') \cap TokensOf(cmpRing') = {}
          /\ TokensOf(reqRing') \cap TokensOf(replies') = {}
          /\ AtWork' \cap TokensOf(cmpRing') = {}
          /\ AtWork' \cap TokensOf(replies') = {}
          /\ TokensOf(cmpRing') \cap TokensOf(replies') = {}
      BY <1>2, <1>3, <1>4, <1>5 DEF OwnInv, EntriesInv
    <2>3. QED
      BY <1>3, <1>4, <2>1, <2>2 DEF EntriesInv, Genuine, AllGenuine
  <1>7. Out' \subseteq Out
    BY <1>2, <1>3, <1>4, <1>5 DEF Out
  <1>8. pc' = "poll" /\ status' = "NONE"
    BY <1>2 DEF PollOne, OwnInv, GroundInv, SlotsInv, BooksInv
  <1>9. status = "NONE"
    BY <1>2, <1>8
  <1>10. QED
    BY <1>2, <1>6, <1>7, <1>8, <1>9, MoveKeepsOwn

LEMMA FwTakeKeepsOwn == OwnInv /\ GroundInv' /\ FwTake => OwnInv'
  <1> SUFFICES ASSUME OwnInv, GroundInv', FwTake PROVE OwnInv'
    OBVIOUS
  <1> DEFINE e == Head(reqRing)
  <1>1. reqRing \in Seq(Requests) /\ reqRing # <<>>
    BY Types DEF FwTake
  <1>2. /\ reqRing' = Tail(reqRing)
        /\ working' = IF e.of = Other THEN working ELSE working \cup {e}
        /\ UNCHANGED <<cmpRing, pc, batch, unclean, submitted, results, status, replies>>
        /\ foreign' \in Nat /\ foreign' <= foreign
    BY Types DEF FwTake, firmware, history, counters
  <1>3. /\ TokensOf(reqRing') \subseteq TokensOf(reqRing)
        /\ e.of # Other => e.of \in TokensOf(reqRing)
        /\ e.of \notin TokensOf(reqRing') /\ Once(reqRing')
        /\ Genuine(e) /\ AllGenuine(reqRing')
    BY <1>1, <1>2, Shifted DEF OwnInv, EntriesInv
  <1> HIDE DEF e
  <1>4. AtWork' = AtWork \cup ({e.of} \ {Other})
    BY <1>2 DEF AtWork
  <1>5. EntriesInv'
    <2>1. AllGenuine(cmpRing') /\ Once(cmpRing') /\ AllGenuine(replies')
          /\ \A r \in working' : Genuine(r) /\ r.of # Other
      BY <1>2, <1>3 DEF OwnInv, EntriesInv
    <2>2. /\ TokensOf(reqRing') \cap AtWork' = {}
          /\ TokensOf(reqRing') \cap TokensOf(cmpRing') = {}
          /\ TokensOf(reqRing') \cap TokensOf(replies') = {}
          /\ AtWork' \cap TokensOf(cmpRing') = {}
          /\ AtWork' \cap TokensOf(replies') = {}
          /\ TokensOf(cmpRing') \cap TokensOf(replies') = {}
      BY <1>2, <1>3, <1>4 DEF OwnInv, EntriesInv
    <2>3. QED
      BY <1>3, <2>1, <2>2 DEF EntriesInv, Genuine, AllGenuine
  <1>6. Out' \subseteq Out
    BY <1>2, <1>3, <1>4 DEF Out
  <1>7. replies # <<>> => pc = "poll" \/ status = "ERROR"
    BY DEF OwnInv, PhaseInv
  <1>8. pc = "returned" => status # "NONE"
    BY DEF OwnInv, PhaseInv
  <1>9. pc \in {"off", "idle"} => batch = 0
    BY DEF OwnInv, PhaseInv
  <1>10. QED
    BY <1>2, <1>5, <1>6, <1>7, <1>8, <1>9, MoveKeepsOwn

LEMMA FwCompletesKeepOwn ==
    ASSUME OwnInv, GroundInv', NEW e \in Entries, cmpRing' = Append(cmpRing, e),
           Genuine(e), working' \subseteq working, reqRing' = reqRing,
           e.of # Other => e.of \in AtWork /\ e.of \notin AtWork',
           foreign' \in Nat, foreign' <= foreign, UNCHANGED firmware
    PROVE  OwnInv'
  <1>1. cmpRing \in Seq(Entries)
    BY Types
  <1>2. UNCHANGED <<pc, batch, unclean, submitted, results, status, replies>>
    BY DEF firmware, history, counters
  <1>3. e.of \notin TokensOf(cmpRing)
    BY DEF OwnInv, EntriesInv, TokensOf
  <1>4. /\ TokensOf(cmpRing') = TokensOf(cmpRing) \cup ({e.of} \ {Other})
        /\ AllGenuine(cmpRing') /\ Once(cmpRing')
    BY <1>1, <1>3, Appended DEF OwnInv, EntriesInv
  <1>5. AtWork' \subseteq AtWork
    BY DEF AtWork
  <1>6. EntriesInv'
    <2>1. AllGenuine(reqRing') /\ Once(reqRing') /\ AllGenuine(replies')
          /\ \A r \in working' : Genuine(r) /\ r.of # Other
      BY <1>2 DEF OwnInv, EntriesInv
    <2>2. /\ TokensOf(reqRing') \cap AtWork' = {}
          /\ TokensOf(reqRing') \cap TokensOf(cmpRing') = {}
          /\ TokensOf(reqRing') \cap TokensOf(replies') = {}
          /\ AtWork' \cap TokensOf(cmpRing') = {}
          /\ AtWork' \cap TokensOf(replies') = {}
          /\ TokensOf(cmpRing') \cap TokensOf(replies') = {}
      BY <1>2, <1>4, <1>5 DEF OwnInv, EntriesInv
    <2>3. QED
      BY <1>4, <2>1, <2>2 DEF EntriesInv, Genuine, AllGenuine
  <1>7. Out' \subseteq Out
    BY <1>2, <1>4, <1>5 DEF Out
  <1>8. /\ replies # <<>> => pc = "poll" \/ status = "ERROR"
        /\ pc = "returned" => status # "NONE"
        /\ pc \in {"off", "idle"} => batch = 0
    BY DEF OwnInv, PhaseInv
  <1>9. QED
    BY <1>2, <1>6, <1>7, <1>8, MoveKeepsOwn

LEMMA FirmwareKeepsOwn ==
    OwnInv /\ GroundInv' /\ (FwComplete \/ FwCompleteForeign) => OwnInv'
  <1> SUFFICES ASSUME OwnInv, GroundInv', FwComplete \/ FwCompleteForeign PROVE OwnInv'
    OBVIOUS
  <1>1. CASE FwComplete
    <2>1. PICK r \in working, good \in BOOLEAN :
            /\ working' = working \ {r}
            /\ cmpRing' = Append(cmpRing, [cookie |-> r.cookie, good |-> good,
                                           of |-> r.of])
      BY <1>1 DEF FwComplete
    <2> DEFINE e == [cookie |-> r.cookie, good |-> good, of |-> r.of]
    <2>2. working \subseteq Requests /\ Genuine(r) /\ r.of # Other
      BY Types DEF OwnInv, EntriesInv
    <2>3. e \in Entries
      BY <2>2 DEF Requests, Entries
    <2>4. Genuine(e) /\ e.of = r.of
      BY <2>2 DEF Genuine
    <2>5. r.of \in AtWork /\ r.of \notin AtWork'
      <3>1. ASSUME NEW q \in working, q.of = r.of PROVE q = r
        <4>1. q.cookie = r.cookie
          BY <2>2, <3>1 DEF OwnInv, EntriesInv, Genuine
        <4>2. q \in Requests /\ r \in Requests
          BY <2>2
        <4>3. QED
          BY <3>1, <4>1, <4>2 DEF Requests
      <3>2. QED
        BY <2>1, <3>1 DEF AtWork
    <2> HIDE DEF e
    <2>6. cmpRing' = Append(cmpRing, e)
      BY <2>1 DEF e
    <2>7. /\ working' \subseteq working /\ reqRing' = reqRing /\ UNCHANGED firmware
          /\ foreign' \in Nat /\ foreign' <= foreign
      BY <1>1, <2>1, Types DEF FwComplete
    <2>8. QED
      BY <2>3, <2>4, <2>5, <2>6, <2>7, FwCompletesKeepOwn
  <1>2. CASE FwCompleteForeign
    <2>0. PICK cookie \in 0..Count :
             cmpRing' = Append(cmpRing, [cookie |-> cookie, good |-> TRUE, of |-> Other])
      BY <1>2 DEF FwCompleteForeign
    <2> DEFINE e == [cookie |-> cookie, good |-> TRUE, of |-> Other]
    <2>1. e \in Entries
      BY CryptoBatchAssumption DEF Entries, Tokens
    <2>2. Genuine(e) /\ e.of = Other
      BY DEF Genuine
    <2> HIDE DEF e
    <2>3. /\ cmpRing' = Append(cmpRing, e) /\ working' = working /\ reqRing' = reqRing
          /\ UNCHANGED firmware /\ foreign' \in Nat /\ foreign' <= foreign
      BY <1>2, <2>0, Types DEF FwCompleteForeign, e
    <2>4. QED
      BY <2>1, <2>2, <2>3, FwCompletesKeepOwn
  <1>3. QED
    BY <1>1, <1>2

\* A completion that another context takes is lost, and answers nothing more.
LEMMA ForeignConsumesKeepsOwn == OwnInv /\ GroundInv' /\ ForeignConsumes => OwnInv'
  <1> SUFFICES ASSUME OwnInv, GroundInv', ForeignConsumes PROVE OwnInv'
    OBVIOUS
  <1>1. cmpRing \in Seq(Entries) /\ cmpRing # <<>>
    BY Types DEF ForeignConsumes
  <1>2. /\ cmpRing' = Tail(cmpRing)
        /\ UNCHANGED <<reqRing, working, pc, batch, unclean, submitted, results, status,
                       replies>>
        /\ foreign' \in Nat /\ foreign' <= foreign
    BY Types DEF ForeignConsumes, firmware, history, counters
  <1>3. /\ TokensOf(cmpRing') \subseteq TokensOf(cmpRing)
        /\ Once(cmpRing') /\ AllGenuine(cmpRing')
    BY <1>1, <1>2, Shifted DEF OwnInv, EntriesInv
  <1>4. AtWork' = AtWork
    BY <1>2 DEF AtWork
  <1>5. EntriesInv'
    <2>1. AllGenuine(reqRing') /\ Once(reqRing') /\ AllGenuine(replies')
          /\ \A r \in working' : Genuine(r) /\ r.of # Other
      BY <1>2 DEF OwnInv, EntriesInv
    <2>2. /\ TokensOf(reqRing') \cap AtWork' = {}
          /\ TokensOf(reqRing') \cap TokensOf(cmpRing') = {}
          /\ TokensOf(reqRing') \cap TokensOf(replies') = {}
          /\ AtWork' \cap TokensOf(cmpRing') = {}
          /\ AtWork' \cap TokensOf(replies') = {}
          /\ TokensOf(cmpRing') \cap TokensOf(replies') = {}
      BY <1>2, <1>3, <1>4 DEF OwnInv, EntriesInv
    <2>3. QED
      BY <1>3, <2>1, <2>2 DEF EntriesInv, Genuine, AllGenuine
  <1>6. Out' \subseteq Out
    BY <1>2, <1>3, <1>4 DEF Out
  <1>7. /\ replies # <<>> => pc = "poll" \/ status = "ERROR"
        /\ pc = "returned" => status # "NONE"
        /\ pc \in {"off", "idle"} => batch = 0
    BY DEF OwnInv, PhaseInv
  <1>8. QED
    BY <1>2, <1>5, <1>6, <1>7, MoveKeepsOwn

LEMMA SubmitOneKeepsOwn == OwnInv /\ GroundInv' /\ SubmitOne => OwnInv'
  <1> SUFFICES ASSUME OwnInv, GroundInv', SubmitOne PROVE OwnInv'
    OBVIOUS
  <1>0. PICK t, e : /\ t = [batch |-> batch, index |-> submitted]
                    /\ e = [cookie |-> CookieOf(submitted), of |-> t]
    OBVIOUS
  <1>1. /\ batch \in 1..MaxBatches /\ submitted \in Indices /\ batch \in Nat
        /\ submitted \in Nat
    <2>1. BooksInv => /\ batch \in 0..MaxBatches /\ submitted \in 0..Count
                      /\ burst \in 0..Count /\ (batch = 0 => pc \in {"off", "idle"})
      BY DEF BooksInv, TypeOK
    <2>2. pc = "submit" /\ submitted < burst
      BY DEF SubmitOne
    <2>3. BooksInv
      BY DEF OwnInv, GroundInv, SlotsInv
    <2>4. QED
      BY <2>1, <2>2, <2>3, CryptoBatchAssumption DEF Indices
  <1>2. t \in Tokens /\ t # Other /\ t # Empty /\ t.batch = batch /\ t.index = submitted
    BY <1>0, <1>1 DEF Tokens, Other, Empty
  <1>3. e \in Requests /\ Genuine(e) /\ e.of = t
    <2>1. e.of = t /\ e.cookie = submitted
      BY <1>0 DEF CookieOf
    <2>2. submitted \in 0..Count
      BY <1>1, CryptoBatchAssumption DEF Indices
    <2>3. e \in Requests
      BY <1>0, <1>2, <2>2 DEF Requests, CookieOf
    <2>4. QED
      BY <1>2, <2>1, <2>3 DEF Genuine
  <1>4. reqRing' = Append(reqRing, e) /\ submitted' = submitted + 1
        /\ UNCHANGED <<cmpRing, working, foreign, pc, batch, unclean, replies, results,
                       status>>
        /\ pc = "submit"
    BY <1>0 DEF SubmitOne, history
  <1>5. t \notin Out
    <2>1. t \in Out => t.index < submitted
      BY <1>2 DEF OwnInv, OutInv, Submitted
    <2>2. QED
      BY <1>1, <1>2, <2>1
  <1>6. t \notin TokensOf(reqRing) /\ t \notin AtWork /\ t \notin TokensOf(cmpRing)
        /\ t \notin TokensOf(replies)
    BY <1>5 DEF Out
  <1>7. reqRing \in Seq(Requests)
    BY Types
  <1>8. TokensOf(reqRing') = TokensOf(reqRing) \cup {t}
        /\ AllGenuine(reqRing') /\ Once(reqRing')
    BY <1>2, <1>3, <1>4, <1>6, <1>7, Appended DEF OwnInv, EntriesInv
  <1>9. AtWork' = AtWork
    BY <1>4 DEF AtWork
  <1>10. EntriesInv'
    <2>1. AllGenuine(cmpRing') /\ Once(cmpRing') /\ AllGenuine(replies')
          /\ \A r \in working' : Genuine(r) /\ r.of # Other
      BY <1>4 DEF OwnInv, EntriesInv
    <2>2. /\ TokensOf(reqRing') \cap AtWork' = {}
          /\ TokensOf(reqRing') \cap TokensOf(cmpRing') = {}
          /\ TokensOf(reqRing') \cap TokensOf(replies') = {}
          /\ AtWork' \cap TokensOf(cmpRing') = {}
          /\ AtWork' \cap TokensOf(replies') = {}
          /\ TokensOf(cmpRing') \cap TokensOf(replies') = {}
      BY <1>4, <1>6, <1>8, <1>9 DEF OwnInv, EntriesInv
    <2>3. QED
      BY <1>8, <2>1, <2>2 DEF EntriesInv, Genuine, AllGenuine
  <1>11. Out' = Out \cup {t}
    BY <1>4, <1>8, <1>9 DEF Out
  <1>12. \A u : Submitted(u) /\ u.index \in Nat => Submitted(u)'
    BY <1>1, <1>4 DEF Submitted
  <1>13. OutInv'
    <2>1. Submitted(t)' /\ Legitimate(t)'
      BY <1>1, <1>2, <1>4 DEF Submitted, Legitimate
    <2>2. \A u \in Out : Submitted(u)' /\ Legitimate(u)'
      <3> TAKE u \in Out
      <3>1. u.index \in Nat
        BY OutTokens DEF Indices
      <3>2. Submitted(u) /\ Legitimate(u)
        BY DEF OwnInv, OutInv
      <3>3. QED
        BY <1>4, <1>12, <3>1, <3>2 DEF Legitimate
    <2>3. results[t.index] # t
      <3>1. ASSUME results[t.index] = t PROVE FALSE
        <4>1. Submitted(t)
          BY <1>1, <1>2, <3>1 DEF OwnInv, ResultsInv
        <4>2. QED
          BY <1>1, <1>2, <4>1 DEF Submitted
      <3>2. QED
        BY <3>1
    <2>4. \A u \in Out : results'[u.index] = u => u \in TokensOf(replies') /\ status' = "ERROR"
      BY <1>4 DEF OwnInv, OutInv
    <2>5. QED
      BY <1>4, <1>11, <2>1, <2>2, <2>3, <2>4 DEF OutInv
  <1>14. ResultsInv'
    <2>1. \A i \in Indices : results[i] # Empty => results[i].index \in Nat
      BY Types DEF Tokens, Other, Indices
    <2>2. ResultIsOwn'
      BY <1>4 DEF OwnInv, ResultsInv, ResultIsOwn, Indices, Empty, Other
    <2>3. ASSUME NEW i \in Indices, results'[i] \notin {Empty, Other}
          PROVE  /\ results'[i].batch <= batch'
                 /\ results'[i].batch = batch' => results'[i].index < submitted'
      <3>1. results'[i] = results[i] /\ results[i].index \in Nat /\ Submitted(results[i])
        BY <1>4, <2>1, <2>3 DEF OwnInv, ResultsInv
      <3>2. QED
        BY <1>1, <1>4, <3>1 DEF Submitted
    <2>4. QED
      BY <2>2, <2>3 DEF ResultsInv, Submitted, Indices, Empty, Other
  <1>15. PhaseInv'
    BY <1>4 DEF OwnInv, PhaseInv
  <1>16. QED
    BY <1>10, <1>13, <1>14, <1>15 DEF OwnInv

LEMMA TakeRepliesKeepsOwn == OwnInv /\ GroundInv' /\ TakeReplies => OwnInv'
  <1> SUFFICES ASSUME OwnInv, GroundInv', TakeReplies PROVE OwnInv'
    OBVIOUS
  <1>1. UNCHANGED <<reqRing, cmpRing, working, foreign, batch, unclean, submitted>>
        /\ pc = "poll" /\ AtWork' = AtWork
    BY DEF TakeReplies, rings, history, counters, AtWork
  <1>2. \/ replies' = <<>> /\ pc' = "fill" /\ status' = status
        \/ replies' = replies /\ pc' = "returned" /\ status' = "ERROR"
    BY DEF TakeReplies
  <1>3. status = "NONE" /\ BooksInv /\ replies \in Seq(Entries)
    BY <1>1, Types DEF OwnInv, GroundInv, SlotsInv, BooksInv
  <1>4. ASSUME NEW k \in DOMAIN replies, replies[k].cookie \in Indices
        PROVE  \/ /\ replies[k].of \in TokensOf(replies)
                  /\ replies[k].of.index = replies[k].cookie
               \/ replies[k].of = Other /\ foreign < Foreign
    <2>1. Genuine(replies[k])
      BY DEF OwnInv, EntriesInv, AllGenuine
    <2>2. CASE replies[k].of # Other
      BY <2>1, <2>2 DEF Genuine, TokensOf
    <2>3. CASE replies[k].of = Other
      <3>1. foreign # Foreign
        BY <2>3 DEF OwnInv, GroundInv, ForeignInv
      <3>2. foreign \in 0..Foreign
        BY DEF OwnInv, GroundInv, SlotsInv, BooksInv, TypeOK
      <3>3. QED
        BY <2>3, <3>1, <3>2, Types
    <2>4. QED
      BY <2>2, <2>3
  <1>5. \A i \in Indices :
            \/ results'[i] = results[i]
            \/ results'[i] \in TokensOf(replies) /\ results'[i].index = i
            \/ results'[i] = Other /\ foreign < Foreign
    BY <1>3, <1>4, Filling
  <1>6. TokensOf(replies') \subseteq TokensOf(replies)
    BY <1>2, NoTokens
  <1>7. EntriesInv'
    <2>1. AllGenuine(replies')
      BY <1>2, NoTokens DEF OwnInv, EntriesInv
    <2>2. /\ AllGenuine(reqRing') /\ AllGenuine(cmpRing')
          /\ Once(reqRing') /\ Once(cmpRing')
          /\ \A r \in working' : Genuine(r) /\ r.of # Other
      BY <1>1 DEF OwnInv, EntriesInv
    <2>3. /\ TokensOf(reqRing') \cap AtWork' = {}
          /\ TokensOf(reqRing') \cap TokensOf(cmpRing') = {}
          /\ TokensOf(reqRing') \cap TokensOf(replies') = {}
          /\ AtWork' \cap TokensOf(cmpRing') = {}
          /\ AtWork' \cap TokensOf(replies') = {}
          /\ TokensOf(cmpRing') \cap TokensOf(replies') = {}
      BY <1>1, <1>6 DEF OwnInv, EntriesInv
    <2>4. QED
      BY <2>1, <2>2, <2>3 DEF EntriesInv, Genuine, AllGenuine
  <1>8. Out' \subseteq Out
    BY <1>1, <1>6 DEF Out
  <1>9. TokensOf(replies) \subseteq Out
    BY DEF Out
  <1>10. OutInv'
    <2>1. \A t \in Out : Submitted(t)' /\ Legitimate(t)'
      BY <1>1 DEF OwnInv, OutInv, Submitted, Legitimate
    <2>2. ASSUME NEW t \in Out', results'[t.index] = t
          PROVE  t \in TokensOf(replies') /\ status' = "ERROR"
      <3>1. t.index \in Indices
        BY <1>8, OutTokens
      <3>2. results[t.index] # t
        BY <1>3, <1>8 DEF OwnInv, OutInv
      <3>3. t \in TokensOf(replies)
        <4>1. t # Other
          BY <1>8, OutTokens DEF Other
        <4>2. QED
          BY <1>5, <2>2, <3>1, <3>2, <4>1
      <3>4. t \notin TokensOf(reqRing) /\ t \notin AtWork /\ t \notin TokensOf(cmpRing)
        BY <3>3 DEF OwnInv, EntriesInv
      <3>5. t \in TokensOf(replies')
        BY <1>1, <3>4 DEF Out
      <3>6. QED
        BY <1>2, <3>5, NoTokens
    <2>3. QED
      BY <1>8, <2>1, <2>2 DEF OutInv
  <1>11. ResultsInv'
    <2>1. ASSUME NEW i \in Indices, results'[i] # Empty
          PROVE  \/ /\ results'[i].batch # 0 /\ results'[i].index = i
                    /\ \/ results'[i].batch = batch
                       \/ \E b \in unclean : b <= results'[i].batch
                    /\ Submitted(results'[i])
                 \/ results'[i] = Other /\ foreign < Foreign
      <3>1. CASE results'[i] = results[i]
        BY <2>1, <3>1 DEF OwnInv, ResultsInv, ResultIsOwn, Other
      <3>2. CASE results'[i] \in TokensOf(replies) /\ results'[i].index = i
        <4>1. results'[i] \in Out
          BY <1>9, <3>2
        <4>2. results'[i].batch # 0
          BY <4>1, OutTokens
        <4>3. QED
          BY <3>2, <4>1, <4>2 DEF OwnInv, OutInv, Legitimate
      <3>3. CASE results'[i] = Other /\ foreign < Foreign
        BY <3>3
      <3>4. QED
        BY <1>5, <3>1, <3>2, <3>3
    <2>2. ResultIsOwn'
      BY <1>1, <2>1 DEF ResultIsOwn, Indices, Empty, Other
    <2>3. \A i \in Indices : results'[i] \notin {Empty, Other} => Submitted(results'[i])
      BY <2>1
    <2>4. QED
      BY <1>1, <2>2, <2>3 DEF ResultsInv, Submitted, Indices, Empty, Other
  <1>12. PhaseInv'
    BY <1>2 DEF PhaseInv
  <1>13. QED
    BY <1>7, <1>10, <1>11, <1>12 DEF OwnInv

LEMMA QuietStepKeepsOwn ==
    OwnInv /\ GroundInv' /\ (Finished \/ StartBurst \/ NothingToSubmit \/ EndBurst \/ Nap)
        => OwnInv'
  <1> SUFFICES ASSUME OwnInv, GroundInv',
                      Finished \/ StartBurst \/ NothingToSubmit \/ EndBurst \/ Nap
               PROVE  OwnInv'
    OBVIOUS
  <1>1. pc \in {"fill", "submit", "poll"}
    BY DEF Finished, StartBurst, NothingToSubmit, EndBurst, Nap
  <1>2. status = "NONE"
    <2>1. BooksInv => (pc # "returned" => status = "NONE")
      BY DEF BooksInv
    <2>2. QED
      BY <1>1, <2>1 DEF OwnInv, GroundInv, SlotsInv
  <1>3. replies = <<>>
    <2>1. pc \in {"fill", "submit"} => replies = <<>>
      BY <1>2 DEF OwnInv, PhaseInv
    <2>2. CASE Nap
      BY <2>2 DEF Nap
    <2>3. CASE Finished \/ StartBurst \/ NothingToSubmit \/ EndBurst
      BY <2>1, <2>3 DEF Finished, StartBurst, NothingToSubmit, EndBurst
    <2>4. QED
      BY <2>2, <2>3
  <1>4. /\ UNCHANGED <<rings, replies, batch, unclean, submitted, results>>
        /\ pc' \in {"fill", "submit", "poll", "returned"}
        /\ pc' = "returned" => status' # "NONE"
    <2>1. CASE Finished
      BY <2>1 DEF Finished, Returns, history, counters
    <2>2. CASE StartBurst
      BY <2>2 DEF StartBurst, Returns, history, counters
    <2>3. CASE NothingToSubmit
      BY <2>3 DEF NothingToSubmit, history, counters
    <2>4. CASE EndBurst
      BY <2>4 DEF EndBurst, history, counters
    <2>5. CASE Nap
      BY <2>5 DEF Nap, Returns, history, counters
    <2>6. QED
      BY <2>1, <2>2, <2>3, <2>4, <2>5
  <1>5. QED
    BY <1>2, <1>3, <1>4, StayKeepsOwn

\* What an ended batch left on its way has filled no slot, so a batch that ended
\* well left nothing of its own unless it took what is another's.
LEMMA BeginKeepsOwn == OwnInv /\ GroundInv' /\ Begin => OwnInv'
  <1> SUFFICES ASSUME OwnInv, GroundInv', Begin PROVE OwnInv'
    OBVIOUS
  <1>1. /\ pc \in {"idle", "returned"} /\ batch' = batch + 1
        /\ unclean' = IF \/ status \notin {"NONE", "OK"}
                         \/ \E i \in Indices : results[i] = Other
                      THEN unclean \cup {batch} ELSE unclean
        /\ results' = [i \in Indices |-> Empty] /\ replies' = <<>>
        /\ submitted' = 0 /\ status' = "NONE" /\ pc' = "fill"
        /\ UNCHANGED <<reqRing, cmpRing, working>>
    BY DEF Begin, rings
  <1>2. batch \in Nat /\ unclean \subseteq Nat
    BY Types
  <1>3. TokensOf(replies') = {} /\ AtWork' = AtWork /\ AllGenuine(replies')
    BY <1>1, NoTokens DEF AtWork
  <1>4. EntriesInv'
    <2>1. /\ AllGenuine(reqRing') /\ AllGenuine(cmpRing')
          /\ Once(reqRing') /\ Once(cmpRing')
          /\ \A r \in working' : Genuine(r) /\ r.of # Other
      BY <1>1 DEF OwnInv, EntriesInv
    <2>2. /\ TokensOf(reqRing') \cap AtWork' = {}
          /\ TokensOf(reqRing') \cap TokensOf(cmpRing') = {}
          /\ TokensOf(reqRing') \cap TokensOf(replies') = {}
          /\ AtWork' \cap TokensOf(cmpRing') = {}
          /\ AtWork' \cap TokensOf(replies') = {}
          /\ TokensOf(cmpRing') \cap TokensOf(replies') = {}
      BY <1>1, <1>3 DEF OwnInv, EntriesInv
    <2>3. QED
      BY <1>3, <2>1, <2>2 DEF EntriesInv, Genuine, AllGenuine
  <1>5. Out' \subseteq Out
    BY <1>1, <1>3 DEF Out
  <1>6. ASSUME NEW t \in Out
        PROVE  \E b \in unclean' : b <= t.batch
    <2>1. t.batch \in 1..MaxBatches /\ t.index \in Indices /\ t \in Tokens
      BY OutTokens DEF Tokens
    <2>2. t.batch <= batch /\ Legitimate(t)
      BY DEF OwnInv, OutInv, Submitted
    <2>3. CASE \E b \in unclean : b <= t.batch
      BY <1>1, <2>3
    <2>4. CASE t.batch = batch
      <3>1. batch # 0 /\ status # "NONE"
        BY <1>1, <2>1, <2>4 DEF OwnInv, PhaseInv
      <3>2. CASE status # "OK"
        <4>1. batch \in unclean'
          BY <1>1, <3>1, <3>2
        <4>2. QED
          BY <1>2, <2>4, <4>1
      <3>3. CASE batch \in unclean'
        BY <1>2, <2>1, <2>4, <3>3
      <3>4. CASE status = "OK" /\ batch \notin unclean'
        <4>0. t.index \in Indices
          BY <2>1
        <4>1. results[t.index] # Empty
          BY <4>0, <3>4, OkFills DEF OwnInv, GroundInv, OkFillsEverySlot
        <4>2. results[t.index] # t
          BY <3>4 DEF OwnInv, OutInv
        <4>3. results[t.index] # Other
          BY <1>1, <3>4, <4>0
        <4>4. /\ results[t.index] \in Tokens /\ results[t.index].index = t.index
              /\ \/ results[t.index].batch = batch
                 \/ \E b \in unclean : b <= results[t.index].batch
          BY <4>0, <4>1, <4>3, Types DEF OwnInv, ResultsInv, ResultIsOwn
        <4>5. results[t.index].batch # batch
          BY <2>1, <2>4, <4>2, <4>4 DEF Tokens, Other
        <4>6. results[t.index].batch <= batch
          BY <4>0, <4>1, <4>3 DEF OwnInv, ResultsInv, Submitted
        <4>7. PICK b \in unclean : b <= results[t.index].batch
          BY <4>4, <4>5
        <4>8. b <= batch
          <5>1. results[t.index].batch \in Nat
            BY <4>4 DEF Tokens, Other
          <5>2. QED
            BY <1>2, <4>6, <4>7, <5>1
        <4>9. QED
          BY <1>1, <2>4, <4>8
      <3>5. QED
        BY <3>2, <3>3, <3>4
    <2>5. QED
      BY <2>2, <2>3, <2>4 DEF Legitimate
  <1>7. OutInv'
    <2>1. ASSUME NEW t \in Out'
          PROVE  /\ t.batch <= batch' /\ t.batch # batch'
                 /\ \E b \in unclean' : b <= t.batch
                 /\ t.index \in Indices /\ t # Empty
      <3>1. t \in Out
        BY <1>5
      <3>2. t \in [batch : 1..MaxBatches, index : Indices]
        BY <3>1, OutTokens
      <3>3. t.batch <= batch
        BY <3>1 DEF OwnInv, OutInv, Submitted
      <3>4. t.batch \in Nat /\ t # Empty
        BY <3>2 DEF Empty
      <3>5. t.batch <= batch + 1 /\ t.batch # batch + 1
        BY <1>2, <3>3, <3>4
      <3>6. QED
        BY <1>1, <1>6, <3>1, <3>2, <3>4, <3>5
    <2>2. ASSUME NEW t \in Out' PROVE results'[t.index] # t
      BY <1>1, <2>1, <2>2
    <2>3. QED
      BY <2>1, <2>2 DEF OutInv, Submitted, Legitimate
  <1>8. ResultsInv'
    <2>1. \A i \in Indices : results'[i] = Empty
      BY <1>1
    <2>2. QED
      BY <2>1 DEF ResultsInv, ResultIsOwn, Indices, Empty
  <1>9. PhaseInv'
    BY <1>1 DEF PhaseInv
  <1>10. QED
    BY <1>4, <1>7, <1>8, <1>9 DEF OwnInv

LEMMA InitOwn == Init => OwnInv
  <1> SUFFICES ASSUME Init PROVE OwnInv
    OBVIOUS
  <1>1. /\ reqRing \in {<<>>, [i \in 1..RingSize |-> [cookie |-> Count, of |-> Other]]}
        /\ cmpRing = <<>> /\ working = {} /\ pc = "idle" /\ batch = 0
        /\ replies = <<>> /\ status = "NONE" /\ results = [i \in Indices |-> Empty]
    BY DEF Init, InitAt
  <1>2. TokensOf(reqRing) = {} /\ AllGenuine(reqRing) /\ Once(reqRing)
    <2>1. CASE reqRing = <<>>
      BY <2>1, NoTokens
    <2>2. CASE reqRing = [i \in 1..RingSize |-> [cookie |-> Count, of |-> Other]]
      BY <2>2 DEF TokensOf, AllGenuine, Once, Genuine
    <2>3. QED
      BY <1>1, <2>1, <2>2
  <1>3. /\ TokensOf(cmpRing) = {} /\ TokensOf(replies) = {} /\ AtWork = {}
        /\ AllGenuine(cmpRing) /\ AllGenuine(replies) /\ Once(cmpRing)
    BY <1>1, NoTokens DEF AtWork
  <1>4. EntriesInv
    BY <1>1, <1>2, <1>3 DEF EntriesInv
  <1>5. OutInv
    BY <1>2, <1>3 DEF OutInv, Out
  <1>6. ResultsInv
    BY <1>1 DEF ResultsInv, ResultIsOwn
  <1>7. PhaseInv
    BY <1>1 DEF PhaseInv
  <1>8. ForeignInv
    BY <1>1 DEF ForeignInv
  <1>9. QED
    BY <1>4, <1>5, <1>6, <1>7, <1>8, InitSlots DEF OwnInv, GroundInv

LEMMA StutterKeepsOwn == OwnInv /\ GroundInv' /\ UNCHANGED vars => OwnInv'
  <1> SUFFICES ASSUME OwnInv, GroundInv', UNCHANGED vars PROVE OwnInv'
    OBVIOUS
  <1>1. /\ UNCHANGED <<rings, replies, batch, unclean, submitted, results>>
        /\ pc' = pc /\ status' = status
    BY DEF vars, rings
  <1>2. /\ replies # <<>> => pc = "poll" \/ status = "ERROR"
        /\ pc = "returned" => status # "NONE"
        /\ pc \in {"off", "idle"} => batch = 0
    BY DEF OwnInv, PhaseInv
  <1>3. QED
    BY <1>1, <1>2, StayKeepsOwn

LEMMA OwnInvariant == Spec => []OwnInv
  <1>1. OwnInv /\ [Next]_vars => OwnInv'
    <2> SUFFICES ASSUME OwnInv, [Next]_vars PROVE OwnInv'
      OBVIOUS
    <2>1. GroundInv'
      BY StepKeepsGround DEF OwnInv
    <2>2. QED
      BY <2>1, BeginKeepsOwn, QuietStepKeepsOwn, SubmitOneKeepsOwn, PollOneKeepsOwn,
         TakeRepliesKeepsOwn, FwTakeKeepsOwn, FirmwareKeepsOwn, ForeignConsumesKeepsOwn,
         StutterKeepsOwn
         DEF Next, Caller
  <1>2. QED
    BY <1>1, InitOwn, PTL DEF Spec

\* A result slot holds the answer to a request for its own record: of this batch,
\* or of one no older than some unclean batch, whatever the firmware's order; or it
\* holds another context's result, and then another context was active.
\* (user_cookie and the slot test of the batch loops of zz9k_host.c.)
THEOREM ResultsAreOwn == Spec => []ResultIsOwn
  <1>1. OwnInv => ResultIsOwn
    BY DEF OwnInv, ResultsInv
  <1>2. QED
    BY <1>1, OwnInvariant, PTL

---------------------------------------------------------------------------
\* The books agree with the rings.

\* The entries of a ring that are requests of one batch.
OwnOf(s, b) == {i \in DOMAIN s : s[i].of.batch = b}
OwnCount(s, b) == Cardinality(OwnOf(s, b))

\* No batch was unclean and no other context has been active.
Undisturbed == unclean = {} /\ foreign = Foreign /\ status \in {"NONE", "OK"}

\* Then what is on its way is the batch's own, and counted.  A batch that returned
\* OK counts too: the next one starts with nothing on its way.
ExactInv ==
    /\ IsFiniteSet(working)
    /\ Undisturbed =>
         /\ batch > 0 => inFlight = OwnCount(reqRing, batch) + Cardinality(working)
                                      + OwnCount(cmpRing, batch) + OwnCount(replies, batch)
         /\ \A i \in DOMAIN cmpRing : cmpRing[i].of # Other
         /\ \A i \in DOMAIN replies : replies[i].of # Other

LEMMA OwnFinite ==
    ASSUME NEW S, NEW s \in Seq(S), NEW b
    PROVE  IsFiniteSet(OwnOf(s, b)) /\ OwnCount(s, b) \in Nat
  <1>1. DOMAIN s = 1..Len(s) /\ Len(s) \in Int /\ 1 \in Int
    OBVIOUS
  <1>2. IsFiniteSet(DOMAIN s) /\ OwnOf(s, b) \in SUBSET DOMAIN s
    BY <1>1, FS_Interval DEF OwnOf
  <1>3. QED
    BY <1>2, FS_Subset, FS_CardinalityType DEF OwnCount

LEMMA OwnAppended ==
    ASSUME NEW S, NEW s \in Seq(S), NEW e \in S, NEW b
    PROVE  OwnCount(Append(s, e), b) = IF e.of.batch = b THEN OwnCount(s, b) + 1
                                                         ELSE OwnCount(s, b)
  <1> DEFINE a == Append(s, e)
             len == Len(s)
             m == Len(s) + 1
  <1>1. /\ DOMAIN s = 1..len /\ DOMAIN a = 1..m /\ (\A i \in 1..len : a[i] = s[i]) /\ a[m] = e
        /\ (\A i \in 1..m : i \in 1..len \/ i = m) /\ (\A i \in 1..len : i \in 1..m)
        /\ m \in 1..m /\ m \notin 1..len
    <2>1. /\ Len(s) \in Nat /\ DOMAIN s = 1..Len(s)
          /\ DOMAIN Append(s, e) = 1..(Len(s) + 1)
          /\ \A i \in 1..Len(s) : Append(s, e)[i] = s[i]
          /\ Append(s, e)[Len(s) + 1] = e
      OBVIOUS
    <2>2. QED
      BY <2>1
  <1> HIDE DEF a, len, m
  <1>2. OwnOf(a, b) = IF e.of.batch = b THEN OwnOf(s, b) \cup {m} ELSE OwnOf(s, b)
    BY <1>1 DEF OwnOf
  <1>3. m \notin OwnOf(s, b)
    BY <1>1 DEF OwnOf
  <1>4. QED
    BY <1>2, <1>3, OwnFinite, FS_AddElement DEF OwnCount, a

LEMMA OwnShifted ==
    ASSUME NEW S, NEW s \in Seq(S), s # <<>>, NEW b
    PROVE  OwnCount(s, b) = IF Head(s).of.batch = b THEN OwnCount(Tail(s), b) + 1
                                                    ELSE OwnCount(Tail(s), b)
  <1> DEFINE t == Tail(s)
             len == Len(s)
             m == Len(s) - 1
             rest == OwnOf(s, b) \ {1}
             shift == [i \in OwnOf(t, b) |-> i + 1]
  <1>1. /\ len \in Nat \ {0} /\ DOMAIN s = 1..len /\ DOMAIN t = 1..m /\ t \in Seq(S)
        /\ \A i \in 1..m : t[i] = s[i + 1]
        /\ Head(s) = s[1]
    OBVIOUS
  <1>2. /\ 1 \in 1..len /\ (\A i \in 1..m : i + 1 \in 1..len /\ i + 1 # 1)
        /\ \A i \in 1..len : i # 1 => i - 1 \in 1..m /\ i = (i - 1) + 1
        /\ \A i, j \in 1..m : i + 1 = j + 1 => i = j
    BY <1>1
  <1> HIDE DEF t, len, m
  <1>3. shift \in Bijection(OwnOf(t, b), rest)
    <2>1. \A i \in OwnOf(t, b) : i + 1 \in rest
      BY <1>1, <1>2 DEF OwnOf
    <2>2. \A i, j \in OwnOf(t, b) : i + 1 = j + 1 => i = j
      BY <1>1, <1>2 DEF OwnOf
    <2>3. \A i \in rest : i - 1 \in OwnOf(t, b) /\ i = (i - 1) + 1
      BY <1>1, <1>2 DEF OwnOf
    <2>4. shift \in [OwnOf(t, b) -> rest] /\ \A i \in OwnOf(t, b) : shift[i] = i + 1
      BY <2>1
    <2> HIDE DEF rest, shift
    <2>5. QED
      BY <2>2, <2>3, <2>4 DEF Bijection, Injection, Surjection, IsInjective
  <1>4. IsFiniteSet(OwnOf(t, b)) /\ IsFiniteSet(OwnOf(s, b)) /\ OwnCount(t, b) \in Nat
    BY <1>1, OwnFinite
  <1>5. Cardinality(rest) = OwnCount(t, b)
    BY <1>3, <1>4, FS_Bijection DEF OwnCount, ExistsBijection
  <1>6. OwnOf(s, b) = IF Head(s).of.batch = b THEN rest \cup {1} ELSE rest
    BY <1>1, <1>2 DEF OwnOf
  <1>7. IsFiniteSet(rest) /\ 1 \notin rest
    BY <1>4, FS_RemoveElement
  <1>8. Cardinality(rest \cup {1}) = Cardinality(rest) + 1
    BY <1>7, FS_AddElement
  <1> HIDE DEF rest
  <1>9. QED
    BY <1>5, <1>6, <1>8 DEF OwnCount, t

LEMMA NothingOwn ==
    ASSUME NEW s, NEW b, \A i \in DOMAIN s : s[i].of.batch # b
    PROVE  OwnCount(s, b) = 0
  <1>1. OwnOf(s, b) = {}
    BY DEF OwnOf
  <1>2. QED
    BY <1>1, FS_EmptySet DEF OwnCount

LEMMA AllOwn ==
    ASSUME NEW S, NEW s \in Seq(S), NEW b, \A i \in DOMAIN s : s[i].of.batch = b
    PROVE  OwnCount(s, b) = Len(s)
  <1>1. OwnOf(s, b) = 1..Len(s) /\ Len(s) \in Nat
    BY DEF OwnOf
  <1>2. QED
    BY <1>1, FS_Interval DEF OwnCount

\* With the books undisturbed, whose entries the rings hold.
LEMMA OwnEntries ==
    ASSUME OwnInv, ExactInv, Undisturbed
    PROVE  /\ \A i \in DOMAIN cmpRing : cmpRing[i].of.batch = batch
           /\ \A i \in DOMAIN replies : replies[i].of.batch = batch
           /\ \A r \in working : r.of.batch = batch
           /\ \A i \in DOMAIN reqRing : reqRing[i].of = Other \/ reqRing[i].of.batch = batch
  <1>1. \A t \in Out : t.batch = batch
    BY DEF OwnInv, OutInv, Legitimate, Undisturbed
  <1>2. \A i \in DOMAIN cmpRing : cmpRing[i].of \in Out
    BY DEF ExactInv, Out, TokensOf
  <1>3. \A i \in DOMAIN replies : replies[i].of \in Out
    BY DEF ExactInv, Out, TokensOf
  <1>4. \A r \in working : r.of \in Out
    BY DEF Out, AtWork
  <1>5. \A i \in DOMAIN reqRing : reqRing[i].of = Other \/ reqRing[i].of \in Out
    BY DEF Out, TokensOf
  <1>6. QED
    BY <1>1, <1>2, <1>3, <1>4, <1>5

\* The numbers of the books.
LEMMA BookNumbers ==
    ASSUME OwnInv, IsFiniteSet(working)
    PROVE  /\ inFlight \in Nat /\ batch \in Nat /\ Cardinality(working) \in Nat
           /\ OwnCount(reqRing, batch) \in Nat /\ OwnCount(cmpRing, batch) \in Nat
           /\ OwnCount(replies, batch) \in Nat
  BY Types, OwnFinite, FS_CardinalityType, CryptoBatchAssumption
  DEF OwnInv, GroundInv, SlotsInv, BooksInv, TypeOK

\* A step that leaves what is on its way alone.
LEMMA StayKeepsExact ==
    ASSUME ExactInv, UNCHANGED <<rings, replies, batch, unclean, inFlight>>,
           status' \in {"NONE", "OK"} => status \in {"NONE", "OK"}
    PROVE  ExactInv'
  BY DEF ExactInv, Undisturbed, rings, OwnCount, OwnOf

LEMMA QuietStepKeepsExact ==
    ASSUME OwnInv, ExactInv,
           Finished \/ StartBurst \/ NothingToSubmit \/ EndBurst \/ Nap \/ UNCHANGED vars
    PROVE  ExactInv'
  <1>1. pc # "returned" => status = "NONE"
    BY DEF OwnInv, GroundInv, SlotsInv, BooksInv
  <1>2. CASE Finished
    BY <1>1, <1>2, StayKeepsExact DEF Finished, Returns, history, counters
  <1>3. CASE StartBurst
    BY <1>1, <1>3, StayKeepsExact DEF StartBurst, Returns, history, counters
  <1>4. CASE NothingToSubmit \/ EndBurst
    BY <1>4, StayKeepsExact DEF NothingToSubmit, EndBurst, history, counters
  <1>5. CASE Nap
    BY <1>1, <1>5, StayKeepsExact DEF Nap, Returns, history, counters
  <1>6. CASE UNCHANGED vars
    BY <1>6, StayKeepsExact DEF vars, rings
  <1>7. QED
    BY <1>2, <1>3, <1>4, <1>5, <1>6

LEMMA SubmitOneKeepsExact ==
    ASSUME OwnInv, ExactInv, SubmitOne
    PROVE  ExactInv'
  <1> DEFINE r == [cookie |-> CookieOf(submitted),
                   of |-> [batch |-> batch, index |-> submitted]]
  <1>1. /\ reqRing' = Append(reqRing, r) /\ inFlight' = inFlight + 1
        /\ UNCHANGED <<cmpRing, working, foreign, replies, batch, unclean, status>>
    BY DEF SubmitOne, history
  <1>2. r.of.batch = batch
    OBVIOUS
  <1>3. reqRing \in Seq(Requests \cup {r})
    BY Types
  <1> HIDE DEF r
  <1>4. OwnCount(reqRing', batch) = OwnCount(reqRing, batch) + 1
    BY <1>1, <1>2, <1>3, OwnAppended
  <1>5. /\ OwnCount(reqRing, batch)' = OwnCount(reqRing, batch) + 1
        /\ OwnCount(cmpRing, batch)' = OwnCount(cmpRing, batch)
        /\ OwnCount(replies, batch)' = OwnCount(replies, batch)
    BY <1>1, <1>4
  <1>6. batch > 0 /\ Undisturbed =>
           inFlight' = OwnCount(reqRing, batch)' + Cardinality(working)'
                         + OwnCount(cmpRing, batch)' + OwnCount(replies, batch)'
    <2>1. batch > 0 /\ Undisturbed =>
             inFlight = OwnCount(reqRing, batch) + Cardinality(working)
                          + OwnCount(cmpRing, batch) + OwnCount(replies, batch)
      BY DEF ExactInv
    <2>2. IsFiniteSet(working)
      BY DEF ExactInv
    <2>3. QED
      BY <1>1, <1>5, <2>1, <2>2, BookNumbers
  <1>7. QED
    BY <1>1, <1>6 DEF ExactInv, Undisturbed

LEMMA PollOneKeepsExact ==
    ASSUME OwnInv, ExactInv, PollOne
    PROVE  ExactInv'
  <1>1. /\ cmpRing # <<>> /\ cmpRing' = Tail(cmpRing)
        /\ replies' = Append(replies, Head(cmpRing))
        /\ UNCHANGED <<reqRing, working, foreign, batch, unclean, inFlight, status>>
    BY DEF PollOne, history, counters
  <1>2. SUFFICES ASSUME Undisturbed
                 PROVE  ExactInv'
    BY <1>1 DEF ExactInv, Undisturbed
  <1>3. cmpRing \in Seq(Entries) /\ replies \in Seq(Entries) /\ Head(cmpRing) \in Entries
        /\ Head(cmpRing) = cmpRing[1] /\ 1 \in DOMAIN cmpRing
    BY <1>1, Types
  <1>4. Head(cmpRing).of # Other /\ Head(cmpRing).of.batch = batch
    BY <1>2, <1>3, OwnEntries DEF ExactInv
  <1>5. /\ OwnCount(cmpRing, batch) = OwnCount(cmpRing', batch) + 1
        /\ OwnCount(replies', batch) = OwnCount(replies, batch) + 1
    BY <1>1, <1>3, <1>4, OwnShifted, OwnAppended
  <1>6. OwnCount(cmpRing', batch) \in Nat
    <2>1. Tail(cmpRing) \in Seq(Entries)
      BY <1>1, <1>3
    <2>2. QED
      BY <1>1, <2>1, OwnFinite
  <1>7. \A i \in DOMAIN cmpRing' : cmpRing'[i].of # Other
    BY <1>1, <1>2, <1>3 DEF ExactInv
  <1>8. \A i \in DOMAIN replies' : replies'[i].of # Other
    BY <1>1, <1>2, <1>3, <1>4 DEF ExactInv
  <1>9. /\ OwnCount(reqRing, batch)' = OwnCount(reqRing, batch)
        /\ OwnCount(cmpRing, batch) = OwnCount(cmpRing, batch)' + 1
        /\ OwnCount(cmpRing, batch)' \in Nat
        /\ OwnCount(replies, batch)' = OwnCount(replies, batch) + 1
    BY <1>1, <1>5, <1>6
  <1>10. batch > 0 =>
            inFlight' = OwnCount(reqRing, batch)' + Cardinality(working)'
                          + OwnCount(cmpRing, batch)' + OwnCount(replies, batch)'
    <2>1. /\ IsFiniteSet(working)
          /\ batch > 0 =>
               inFlight = OwnCount(reqRing, batch) + Cardinality(working)
                            + OwnCount(cmpRing, batch) + OwnCount(replies, batch)
      BY <1>2 DEF ExactInv
    <2>2. QED
      BY <1>1, <1>9, <2>1, BookNumbers
  <1>11. IsFiniteSet(working') /\ batch' = batch
    BY <1>1 DEF ExactInv
  <1>12. QED
    BY <1>7, <1>8, <1>10, <1>11 DEF ExactInv

LEMMA TakeRepliesKeepsExact ==
    ASSUME OwnInv, ExactInv, TakeReplies
    PROVE  ExactInv'
  <1>1. UNCHANGED <<reqRing, cmpRing, working, foreign, batch, unclean>>
    BY DEF TakeReplies, rings, history
  <1>2. CASE status' = "ERROR"
    BY <1>1, <1>2 DEF ExactInv, Undisturbed
  <1>3. CASE status' # "ERROR"
    <2>1. inFlight' = inFlight - Len(replies) /\ replies' = <<>> /\ status' = status
      BY <1>3 DEF TakeReplies, JustCompleted
    <2>2. SUFFICES ASSUME Undisturbed
                   PROVE  ExactInv'
      BY <1>1, <2>1 DEF ExactInv, Undisturbed
    <2>3. OwnCount(replies, batch) = Len(replies) /\ Len(replies) \in Nat
      BY <2>2, OwnEntries, Types, AllOwn
    <2>4. OwnCount(replies', batch) = 0
      BY <2>1, NothingOwn
    <2>5. QED
      BY <1>1, <2>1, <2>2, <2>3, <2>4, BookNumbers DEF ExactInv, OwnCount, OwnOf
  <1>4. QED
    BY <1>2, <1>3

LEMMA FwTakeKeepsExact ==
    ASSUME OwnInv, ExactInv, FwTake
    PROVE  ExactInv'
  <1>1. /\ reqRing # <<>> /\ reqRing' = Tail(reqRing)
        /\ working' = IF Head(reqRing).of = Other THEN working
                                                  ELSE working \cup {Head(reqRing)}
        /\ UNCHANGED <<cmpRing, foreign, replies, batch, unclean, inFlight, status>>
    BY DEF FwTake, firmware, history, counters
  <1>2. IsFiniteSet(working')
    BY <1>1, FS_AddElement DEF ExactInv
  <1>3. SUFFICES ASSUME Undisturbed, batch > 0
                 PROVE  ExactInv'
    BY <1>1, <1>2 DEF ExactInv, Undisturbed
  <1>4. reqRing \in Seq(Requests) /\ Head(reqRing) = reqRing[1] /\ 1 \in DOMAIN reqRing
    BY <1>1, Types
  <1>5. OwnCount(reqRing, batch) = IF Head(reqRing).of.batch = batch
                                   THEN OwnCount(reqRing', batch) + 1
                                   ELSE OwnCount(reqRing', batch)
    BY <1>1, <1>4, OwnShifted
  <1>6. OwnCount(reqRing', batch) \in Nat
    <2>1. Tail(reqRing) \in Seq(Requests)
      BY <1>1, <1>4
    <2>2. QED
      BY <1>1, <2>1, OwnFinite
  <1>7. CASE Head(reqRing).of = Other
    <2>1. Head(reqRing).of.batch # batch
      BY <1>3, <1>7 DEF Other
    <2>2. QED
      BY <1>1, <1>5, <1>7, <2>1 DEF ExactInv, Undisturbed, OwnCount, OwnOf
  <1>8. CASE Head(reqRing).of # Other
    <2>1. Head(reqRing).of.batch = batch
      BY <1>3, <1>4, <1>8, OwnEntries
    <2>2. Head(reqRing) \notin working
      <3>1. Head(reqRing).of \in TokensOf(reqRing)
        BY <1>4, <1>8 DEF TokensOf
      <3>2. QED
        BY <3>1 DEF OwnInv, EntriesInv, AtWork
    <2>3. Cardinality(working') = Cardinality(working) + 1
      BY <1>1, <1>8, <2>2, FS_AddElement DEF ExactInv
    <2>4. QED
      BY <1>1, <1>2, <1>3, <1>5, <1>6, <2>1, <2>3, BookNumbers
      DEF ExactInv, Undisturbed
  <1>9. QED
    BY <1>7, <1>8

LEMMA FirmwareKeepsExact ==
    ASSUME OwnInv, ExactInv, FwComplete \/ FwCompleteForeign \/ ForeignConsumes
    PROVE  ExactInv'
  <1>1. UNCHANGED <<reqRing, replies, batch, unclean, inFlight, status>>
    BY DEF FwComplete, FwCompleteForeign, ForeignConsumes, firmware, history, counters
  <1>2. CASE FwCompleteForeign \/ ForeignConsumes
    <2>1. foreign' # Foreign /\ working' = working
      BY <1>2 DEF FwCompleteForeign, ForeignConsumes, OwnInv, GroundInv, SlotsInv, BooksInv, TypeOK
    <2>2. QED
      BY <2>1 DEF ExactInv, Undisturbed
  <1>3. CASE FwComplete
    <2>1. PICK r \in working, good \in BOOLEAN :
             /\ working' = working \ {r} /\ foreign' = foreign
             /\ cmpRing' = Append(cmpRing, [cookie |-> r.cookie, good |-> good, of |-> r.of])
      BY <1>3 DEF FwComplete
    <2> DEFINE e == [cookie |-> r.cookie, good |-> good, of |-> r.of]
    <2>2. IsFiniteSet(working') /\ Cardinality(working') = Cardinality(working) - 1
      BY <2>1, FS_RemoveElement DEF ExactInv
    <2>3. SUFFICES ASSUME Undisturbed
                   PROVE  ExactInv'
      BY <1>1, <2>1, <2>2 DEF ExactInv, Undisturbed
    <2>4. /\ cmpRing \in Seq(Entries) /\ e \in Entries /\ e.of = r.of
          /\ r.of # Other /\ r.of.batch = batch
      <3>1. cmpRing \in Seq(Entries) /\ r \in Requests
        BY Types
      <3>2. e \in Entries
        BY <3>1 DEF Requests, Entries
      <3>3. r.of # Other
        BY DEF OwnInv, EntriesInv
      <3>4. r.of.batch = batch
        BY <2>3, OwnEntries
      <3>5. QED
        BY <3>1, <3>2, <3>3, <3>4
    <2> HIDE DEF e
    <2>5. cmpRing' = Append(cmpRing, e)
      BY <2>1 DEF e
    <2>6. OwnCount(cmpRing', batch) = OwnCount(cmpRing, batch) + 1
      BY <2>4, <2>5, OwnAppended
    <2>7. \A i \in DOMAIN cmpRing' : cmpRing'[i].of # Other
      BY <2>3, <2>4, <2>5 DEF ExactInv
    <2>8. QED
      BY <1>1, <2>2, <2>3, <2>6, <2>7, BookNumbers DEF ExactInv, OwnCount, OwnOf
  <1>4. QED
    BY <1>2, <1>3

\* A batch that ended well, with the books undisturbed, left nothing on its way.
LEMMA BeginKeepsExact ==
    ASSUME OwnInv, ExactInv, Begin
    PROVE  ExactInv'
  <1>1. /\ pc \in {"idle", "returned"} /\ batch' = batch + 1 /\ inFlight' = 0 /\ replies' = <<>>
        /\ unclean \subseteq unclean'
        /\ status \notin {"NONE", "OK"} => batch \in unclean'
        /\ UNCHANGED <<reqRing, cmpRing, working, foreign>>
    BY DEF Begin, rings
  <1>2. IsFiniteSet(working')
    BY <1>1 DEF ExactInv
  <1>3. SUFFICES ASSUME Undisturbed'
                 PROVE  ExactInv'
    BY <1>2 DEF ExactInv
  <1>4. Undisturbed
    BY <1>1, <1>3 DEF Undisturbed
  <1>5. Out = {}
    <2>1. CASE batch = 0
      <3>1. ASSUME NEW t \in Out
            PROVE  FALSE
        <4>1. t.batch = 0
          BY <1>4, <2>1 DEF OwnInv, OutInv, Legitimate, Undisturbed
        <4>2. t.batch \in 1..MaxBatches
          BY OutTokens
        <4>3. QED
          BY <4>1, <4>2
      <3>2. QED
        BY <3>1
    <2>2. CASE batch # 0
      <3>1. pc = "returned" /\ status = "OK"
        BY <1>1, <1>4, <2>2 DEF OwnInv, PhaseInv, Undisturbed
      <3>2. inFlight = 0
        BY <3>1, CryptoBatchAssumption DEF OwnInv, GroundInv, SlotsInv, BooksInv, TypeOK
      <3>3. IsFiniteSet(working) /\ batch > 0
        BY <2>2, Types DEF ExactInv
      <3>4. /\ OwnCount(reqRing, batch) = 0 /\ Cardinality(working) = 0
            /\ OwnCount(cmpRing, batch) = 0 /\ OwnCount(replies, batch) = 0
        <4>1. 0 = OwnCount(reqRing, batch) + Cardinality(working)
                    + OwnCount(cmpRing, batch) + OwnCount(replies, batch)
          BY <1>4, <3>2, <3>3 DEF ExactInv
        <4>2. QED
          BY <3>3, <4>1, BookNumbers
      <3>5. working = {} /\ OwnOf(reqRing, batch) = {} /\ OwnOf(cmpRing, batch) = {}
            /\ OwnOf(replies, batch) = {}
        BY <3>3, <3>4, Types, OwnFinite, FS_EmptySet DEF OwnCount
      <3>6. \A t \in Out : t.batch = batch
        BY <1>4 DEF OwnInv, OutInv, Legitimate, Undisturbed
      <3>7. ASSUME NEW t \in Out
            PROVE  FALSE
        <4>1. t.batch = batch
          BY <3>6
        <4>2. QED
          BY <3>5, <4>1 DEF Out, TokensOf, AtWork, OwnOf
      <3>8. QED
        BY <3>7
    <2>3. QED
      BY <2>1, <2>2
  <1>6. working = {} /\ \A i \in DOMAIN reqRing : reqRing[i].of = Other
    BY <1>5 DEF Out, TokensOf, AtWork
  <1>7. DOMAIN cmpRing = {}
    <2>1. \A i \in DOMAIN cmpRing : cmpRing[i].of \in TokensOf(cmpRing)
      BY <1>4 DEF ExactInv, TokensOf
    <2>2. QED
      BY <1>5, <2>1 DEF Out
  <1>8. batch' # 0 /\ Other.batch = 0
    BY <1>1, Types DEF Other
  <1>9. /\ OwnCount(reqRing', batch') = 0 /\ OwnCount(cmpRing', batch') = 0
         /\ OwnCount(replies', batch') = 0 /\ Cardinality(working') = 0
    <2>1. \A i \in DOMAIN reqRing : reqRing[i].of.batch # batch'
      BY <1>6, <1>8
    <2>2. OwnCount(reqRing, batch') = 0 /\ OwnCount(cmpRing, batch') = 0
          /\ OwnCount(<<>>, batch') = 0
      BY <1>7, <2>1, NothingOwn
    <2>3. QED
      BY <1>1, <1>6, <2>2, FS_EmptySet
  <1>10. QED
    BY <1>1, <1>2, <1>7, <1>9 DEF ExactInv

LEMMA InitExact == Init => ExactInv
  <1> SUFFICES ASSUME Init
               PROVE  ExactInv
    OBVIOUS
  <1>1. working = {} /\ cmpRing = <<>> /\ replies = <<>> /\ batch = 0
    BY DEF Init, InitAt
  <1>2. QED
    BY <1>1, FS_EmptySet DEF ExactInv

\* As long as every batch ended well and no other context has been active,
\* what the loop believes in flight is what is on its way, for any ring size, depth
\* of the pipeline and number of records.
THEOREM BooksAreRight == Spec => []InFlightExact
  <1>1. OwnInv /\ ExactInv /\ [Next]_vars => ExactInv'
    BY QuietStepKeepsExact, SubmitOneKeepsExact, PollOneKeepsExact, TakeRepliesKeepsExact,
       FwTakeKeepsExact, FirmwareKeepsExact, BeginKeepsExact DEF Next, Caller
  <1>2. OwnInv /\ ExactInv => InFlightExact
    <2> SUFFICES ASSUME OwnInv, ExactInv, batch > 0, unclean = {}, pc # "returned",
                        foreign = Foreign
                 PROVE  inFlight = Cardinality(OwnIn(reqRing)) + Cardinality(working)
                                     + Cardinality(OwnIn(cmpRing)) + Cardinality(OwnIn(replies))
      BY DEF InFlightExact
    <2>1. Undisturbed
      BY DEF Undisturbed, OwnInv, GroundInv, SlotsInv, BooksInv
    <2>2. QED
      BY <2>1 DEF ExactInv, OwnCount, OwnOf, OwnIn
  <1>3. QED
    BY <1>1, <1>2, InitExact, OwnInvariant, PTL DEF Spec

---------------------------------------------------------------------------
\* The provider's offload layer.  MCCrypto runs it beside the batch and shares
\* nothing with it; its steps are those of Offload, instantiated once by MCCrypto
\* (Offloads) and once, with its proofs, here (OP).

OP == INSTANCE OffloadProofs WITH pc <- provider, RingSize <- InboxSize

LEMMA OffloadAssumed == OP!OffloadAssumption
  BY ProviderAssumption DEF Offloads!OffloadAssumption, OP!OffloadAssumption

LEMMA SameFunctions ==
    /\ \A S : Offloads!Cardinality(S) = OP!Cardinality(S)
    /\ \A S : Offloads!Min(S) = OP!Min(S)
    /\ \A s : Offloads!ToSet(s) = OP!ToSet(s)
  <1>1. ASSUME NEW S PROVE Offloads!Cardinality(S) = OP!Cardinality(S)
    BY Zenon DEF Offloads!Cardinality, OP!Cardinality
  <1>2. ASSUME NEW S PROVE Offloads!Min(S) = OP!Min(S)
    BY Zenon DEF Offloads!Min, OP!Min
  <1>3. ASSUME NEW s PROVE Offloads!ToSet(s) = OP!ToSet(s)
    BY DEF Offloads!ToSet, OP!ToSet
  <1>4. QED
    BY <1>1, <1>2, <1>3

\* What the operations need, and the calls they are made of.
LEMMA SameOperators ==
    /\ Offloads!Roles = OP!Roles /\ Offloads!RoleSet = OP!RoleSet
    /\ Offloads!NoBuffer = OP!NoBuffer /\ Offloads!NoOp = OP!NoOp /\ Offloads!Ops = OP!Ops
    /\ \A o : Offloads!Needs(o) = OP!Needs(o)
    /\ \A o : Offloads!Used(o) = OP!Used(o)
    /\ \A o : Offloads!Inputs(o) = OP!Inputs(o)
    /\ Offloads!Wanted = OP!Wanted /\ Offloads!LastBuffer = OP!LastBuffer
    /\ Offloads!NoAnswer = OP!NoAnswer /\ Offloads!Value = OP!Value
    /\ Offloads!Overwritten <=> OP!Overwritten
  <1>1. /\ Offloads!Roles = OP!Roles /\ Offloads!NoBuffer = OP!NoBuffer
        /\ Offloads!NoOp = OP!NoOp /\ Offloads!NoAnswer = OP!NoAnswer
    BY DEF Offloads!Roles, OP!Roles, Offloads!NoBuffer, OP!NoBuffer, Offloads!NoOp, OP!NoOp,
           Offloads!NoAnswer, OP!NoAnswer, Offloads!Answer, OP!Answer
  <1>2. Offloads!RoleSet = OP!RoleSet
    BY <1>1 DEF Offloads!RoleSet, OP!RoleSet
  <1>3. Offloads!Ops = OP!Ops
    BY DEF Offloads!Ops, OP!Ops
  <1>4. ASSUME NEW o PROVE Offloads!Needs(o) = OP!Needs(o)
    BY Zenon DEF Offloads!Needs, OP!Needs
  <1>5. ASSUME NEW o
        PROVE  Offloads!Used(o) = OP!Used(o) /\ Offloads!Inputs(o) = OP!Inputs(o)
    BY <1>4 DEF Offloads!Used, OP!Used, Offloads!Inputs, OP!Inputs
  <1>6. Offloads!Role = OP!Role /\ Offloads!Need = OP!Need
    BY <1>4 DEF Offloads!Role, OP!Role, Offloads!Need, OP!Need
  <1>7. Offloads!Wanted = OP!Wanted /\ Offloads!LastBuffer = OP!LastBuffer
    BY <1>4, <1>6 DEF Offloads!Wanted, OP!Wanted, Offloads!LastBuffer, OP!LastBuffer
  <1>8. Offloads!Value = OP!Value
    BY <1>5 DEF Offloads!Value, OP!Value
  <1>9. Offloads!Overwritten <=> OP!Overwritten
    BY <1>5 DEF Offloads!Overwritten, OP!Overwritten
  <1>10. QED
    BY <1>1, <1>2, <1>3, <1>4, <1>5, <1>7, <1>8, <1>9

LEMMA SameCalls ==
    /\ \A request, then : Offloads!Call(request, then) <=> OP!Call(request, then)
    /\ \A kind, handles, out :
          Offloads!Request(kind, handles, out) = OP!Request(kind, handles, out)
    /\ \A h : Offloads!Refused(h) = OP!Refused(h)
    /\ \A h : Offloads!UnusableIsFreed(h) <=> OP!UnusableIsFreed(h)
    /\ \A i, code, value : Offloads!Deliver(i, code, value) <=> OP!Deliver(i, code, value)
  <1>1. \A request, then : Offloads!Call(request, then) <=> OP!Call(request, then)
    BY DEF Offloads!Call, OP!Call, Offloads!NoAnswer, OP!NoAnswer, Offloads!Answer, OP!Answer
  <1>2. \A kind, handles, out :
           Offloads!Request(kind, handles, out) = OP!Request(kind, handles, out)
    BY DEF Offloads!Request, OP!Request
  <1>3. \A h : Offloads!Refused(h) = OP!Refused(h)
    BY DEF Offloads!Refused, OP!Refused
  <1>4. \A h : Offloads!UnusableIsFreed(h) <=> OP!UnusableIsFreed(h)
    BY <1>1, <1>2, <1>3 DEF Offloads!UnusableIsFreed, OP!UnusableIsFreed
  <1>5. \A i, code, value :
           Offloads!Deliver(i, code, value) <=> OP!Deliver(i, code, value)
    BY DEF Offloads!Deliver, OP!Deliver, Offloads!Others, OP!Others, Offloads!Answer, OP!Answer
  <1>6. QED
    BY <1>1, <1>2, <1>3, <1>4, <1>5

LEMMA SameEnsure ==
    \/ Offloads!Open \/ Offloads!EnsureHas \/ Offloads!EnsureGrow
    \/ Offloads!EnsureRefresh \/ Offloads!EnsureUnsupported \/ Offloads!EnsureAlloc
    \/ Offloads!AllocFails \/ Offloads!AllocTakes \/ Offloads!AllocUnusable
    \/ Offloads!TakeReply \/ Offloads!GiveUp
    => OP!Host
  <1> USE DEF Offloads!scratch, OP!scratch, Offloads!card, OP!card
  <1>1. Offloads!Open => OP!Open
    BY DEF Offloads!Open, OP!Open
  <1>2. Offloads!EnsureHas => OP!EnsureHas
    BY SameOperators DEF Offloads!EnsureHas, OP!EnsureHas
  <1>3. Offloads!EnsureGrow => OP!EnsureGrow
    BY SameOperators, SameCalls DEF Offloads!EnsureGrow, OP!EnsureGrow
  <1>4. Offloads!EnsureRefresh => OP!EnsureRefresh
    BY SameOperators DEF Offloads!EnsureRefresh, OP!EnsureRefresh
  <1>5. Offloads!EnsureUnsupported => OP!EnsureUnsupported
    BY SameOperators DEF Offloads!EnsureUnsupported, OP!EnsureUnsupported
  <1>6. Offloads!EnsureAlloc => OP!EnsureAlloc
    BY SameOperators, SameCalls DEF Offloads!EnsureAlloc, OP!EnsureAlloc
  <1>7. Offloads!AllocFails => OP!AllocFails
    BY DEF Offloads!AllocFails, OP!AllocFails
  <1>8. Offloads!AllocTakes => OP!AllocTakes
    BY SameOperators, SameCalls DEF Offloads!AllocTakes, OP!AllocTakes
  <1>9. Offloads!AllocUnusable => OP!AllocUnusable
    BY SameOperators, SameCalls DEF Offloads!AllocUnusable, OP!AllocUnusable
  <1>10. Offloads!TakeReply => OP!TakeReply
    BY SameOperators DEF Offloads!TakeReply, OP!TakeReply
  <1>11. Offloads!GiveUp => OP!GiveUp
    BY SameOperators DEF Offloads!GiveUp, OP!GiveUp, Offloads!Answer, OP!Answer
  <1>12. QED
    BY <1>1, <1>2, <1>3, <1>4, <1>5, <1>6, <1>7, <1>8, <1>9, <1>10, <1>11 DEF OP!Host

LEMMA SameOperations ==
    \/ Offloads!Begin \/ Offloads!Fill \/ Offloads!Run \/ Offloads!RunAgain
    \/ Offloads!CopyOut \/ Offloads!Fallback \/ Offloads!Close \/ Offloads!CloseFrees
    \/ Offloads!CloseSkips \/ Offloads!Closed
    => OP!Host
  <1> USE DEF Offloads!scratch, OP!scratch, Offloads!card, OP!card
  <1>1. Offloads!Begin => OP!Begin
    BY SameOperators DEF Offloads!Begin, OP!Begin
  <1>2. Offloads!Fill => OP!Fill
    BY SameOperators DEF Offloads!Fill, OP!Fill
  <1>3. Offloads!Run => OP!Run
    BY SameOperators, SameCalls DEF Offloads!Run, OP!Run
  <1>4. Offloads!RunAgain => OP!RunAgain
    BY DEF Offloads!RunAgain, OP!RunAgain
  <1>5. Offloads!CopyOut => OP!CopyOut
    BY SameOperators DEF Offloads!CopyOut, OP!CopyOut, Offloads!Succeeded, OP!Succeeded
  <1>6. Offloads!Fallback => OP!Fallback
    BY DEF Offloads!Fallback, OP!Fallback, Offloads!Succeeded, OP!Succeeded
  <1>7. Offloads!Close => OP!Close
    BY SameOperators DEF Offloads!Close, OP!Close
  <1>8. Offloads!CloseFrees => OP!CloseFrees
    BY SameOperators, SameCalls DEF Offloads!CloseFrees, OP!CloseFrees,
           Offloads!AllRoles, OP!AllRoles
  <1>9. Offloads!CloseSkips => OP!CloseSkips
    BY SameOperators DEF Offloads!CloseSkips, OP!CloseSkips, Offloads!AllRoles,
           OP!AllRoles
  <1>10. Offloads!Closed => OP!Closed
    BY SameOperators DEF Offloads!Closed, OP!Closed, Offloads!AllRoles, OP!AllRoles
  <1>11. QED
    BY <1>1, <1>2, <1>3, <1>4, <1>5, <1>6, <1>7, <1>8, <1>9, <1>10 DEF OP!Host

LEMMA SameCard == Offloads!CardExecutes => OP!CardExecutes
  <1>1. ASSUME NEW i, Offloads!CardAllocates(i) PROVE OP!CardAllocates(i)
    <2>1. Offloads!FreeHandles = OP!FreeHandles
      BY DEF Offloads!FreeHandles, OP!FreeHandles
    <2>2. Offloads!Min(Offloads!FreeHandles) = OP!Min(OP!FreeHandles)
      BY <2>1, SameFunctions
    <2>3. QED
      BY <1>1, <2>1, <2>2, SameCalls DEF Offloads!CardAllocates, OP!CardAllocates
  <1>2. ASSUME NEW i, Offloads!CardFrees(i) PROVE OP!CardFrees(i)
    BY <1>2, SameFunctions, SameCalls DEF Offloads!CardFrees, OP!CardFrees
  <1>3. ASSUME NEW i, Offloads!CardComputes(i) PROVE OP!CardComputes(i)
    <2>1. \A h : Offloads!Computed(h) = OP!Computed(h)
      BY SameFunctions DEF Offloads!Computed, OP!Computed
    <2>2. QED
      BY <1>3, <2>1, SameFunctions, SameCalls DEF Offloads!CardComputes, OP!CardComputes
  <1>4. QED
    BY <1>1, <1>2, <1>3 DEF Offloads!CardExecutes, OP!CardExecutes, Offloads!scratch, OP!scratch

LEMMA SameNext == Offloads!Next => OP!Next
  <1>1. Offloads!Host => OP!Host
    BY SameEnsure, SameOperations DEF Offloads!Host
  <1>2. QED
    BY <1>1, SameCard DEF Offloads!Next, OP!Next

LEMMA MCStepIs == [MCNext]_<<vars, offloadVars>> => OP!Next \/ UNCHANGED OP!vars
  <1>1. UNCHANGED offloadVars => UNCHANGED OP!vars
    BY DEF offloadVars, OP!vars
  <1>2. QED
    BY <1>1, SameNext DEF MCNext

LEMMA MCInitIs == MCInit => \E place \in OP!Starts : OP!InitAt(place)
  <1>1. \A place : Offloads!InitAt(place) => OP!InitAt(place)
    BY SameOperators DEF Offloads!InitAt, OP!InitAt
  <1>2. QED
    BY <1>1 DEF MCInit, Offloads!Init, OP!Starts

LEMMA OffloadMemoryInit == MCInit => OP!MemoryInv
  BY MCInitIs, OffloadAssumed, OP!MemoryInit

LEMMA OffloadMemoryStep ==
    OP!MemoryInv /\ [MCNext]_<<vars, offloadVars>> => OP!MemoryInv'
  BY MCStepIs, OffloadAssumed, OP!MemoryStep

LEMMA OffloadResultInit == MCInit => OP!ResultInv
  BY MCInitIs, OP!ResultInit

LEMMA OffloadResultStep ==
    OP!MemoryInv /\ OP!ResultInv /\ [MCNext]_<<vars, offloadVars>>
    => OP!ResultInv'
  BY MCStepIs, OffloadAssumed, OP!ResultStep

\* No block of card memory is lost but by a call that timed out or was refused,
\* and a scratch buffer's block is there until the buffer is forgotten
\* (zz9k_offload_ensure, zz9k_offload_close, zz9k_alloc_shared).
THEOREM OffloadBlocksAreAccounted == MCSpec => []BlocksAccounted
  <1>1. OP!MemoryInv => BlocksAccounted
    <2>1. OP!MemoryInv => OP!BlocksAccounted
      BY DEF OP!MemoryInv, OP!BlockInv
    <2>2. /\ Offloads!Named = OP!Named /\ Offloads!Freeing = OP!Freeing
          /\ Offloads!InReply = OP!InReply
      BY SameFunctions, SameOperators
         DEF Offloads!Named, OP!Named, Offloads!Freeing, OP!Freeing,
             Offloads!InReply, OP!InReply
    <2>3. OP!BlocksAccounted => BlocksAccounted
      BY <2>2, SameOperators
         DEF BlocksAccounted, Offloads!BlocksAccounted, OP!BlocksAccounted
    <2>4. QED
      BY <2>1, <2>3
  <1>2. QED
    BY <1>1, OffloadMemoryInit, OffloadMemoryStep, PTL DEF MCSpec

\* What an operation returns is computed from the inputs it passed, although
\* requests that timed out read and write the same scratch buffers in any order,
\* unless one of those wrote over an input after it was filled or over the output
\* after it was computed (zz9k_offload_run and its callers).
THEOREM OffloadResultsAreOwn == MCSpec => []OffloadResultIsOwn
  <1>1. OP!ResultInv => OffloadResultIsOwn
    BY DEF OP!ResultInv, OffloadResultIsOwn, Offloads!OffloadResultIsOwn,
           OP!OffloadResultIsOwn
  <1>2. OP!MemoryInv /\ OP!ResultInv /\ [MCNext]_<<vars, offloadVars>>
            => (OP!MemoryInv /\ OP!ResultInv)'
    BY OffloadMemoryStep, OffloadResultStep
  <1>3. MCInit => OP!MemoryInv /\ OP!ResultInv
    BY OffloadMemoryInit, OffloadResultInit
  <1>4. QED
    BY <1>1, <1>2, <1>3, PTL DEF MCSpec
=============================================================================
