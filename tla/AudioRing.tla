----------------------------- MODULE AudioRing -----------------------------
(***************************************************************************)
(* The direct-ring plane of the audio fabric (include/zz9k/audio.h, the    *)
(* session calls of host/src/zz9k_host.c and the feeding loop of           *)
(* tools/zz9k-fabriclease.c): a producer task leases the slot, copies PCM  *)
(* into a ring in card memory and publishes its write cursor in one        *)
(* control line; the firmware takes whole periods and returns ring credit  *)
(* in the other.  The two never lock: each line has one writer and is a    *)
(* seqlock, whose word-by-word updates and reads are separate steps here.  *)
(*                                                                         *)
(* One slot; clients use it one after the other.  The unit of a cursor is  *)
(* abstract (a frame, a quarter period).  A 64-bit cursor is two words of  *)
(* base CursorBase.  The heartbeat is not kept: the firmware may revoke a  *)
(* lease at any time.  A ring cell holds the ghost [gen, pos], the lease   *)
(* and stream position of the PCM last copied there.  Local variables go   *)
(* back to their initial value when they are dead.                         *)
(*                                                                         *)
(* Bound: a reader is never overtaken by SeqLimit \div 2 publications of    *)
(* the line during one snapshot (2^31 on the card).                        *)
(***************************************************************************)
EXTENDS Naturals

CONSTANTS
    Clients,        \* producer tasks
    Nobody,         \* no holder
    Capacity,       \* ring_capacity
    Period,         \* period_bytes
    CursorBase,     \* 2^32: base of the two words of a cursor
    SeqLimit,       \* 2^32: the sequence word wraps here
    FirstSeq,       \* sequence word earlier leases left in both lines
    Target,         \* what a client feeds (a number of periods)
    Chunk,          \* the most it stages at once
    CreditRetries,  \* retries of one zz9k_audio_ring_take_credits
    RetryLimit,     \* RETRY results in a row before a client gives up
    WaitLimit,      \* waits for credit before a client gives up
    HeartbeatWaits, \* a waiting client republishes every so many waits
    MaxGen,         \* bound: leases granted
    ReuseWhileHeld  \* whether the slot of a revoked lease may be granted
                    \* again before its last holder has noticed

ASSUME AudioRingAssumption ==
    /\ Nobody \notin Clients
    /\ {Capacity, Period, CursorBase, SeqLimit, Target, Chunk, RetryLimit,
        WaitLimit, HeartbeatWaits, MaxGen} \subseteq Nat \ {0}
    /\ CreditRetries \in Nat
    /\ FirstSeq \in 0..(SeqLimit - 1) /\ FirstSeq % 2 = 0
    /\ Capacity % Period = 0 /\ SeqLimit % 2 = 0 /\ CursorBase > 1
    /\ ReuseWhileHeld \in BOOLEAN

VARIABLES
    pLine,   \* producer line [seq, gen, hi, lo]
    fLine,   \* firmware line [seq, gen, hi, lo, status]
    ring,    \* what each ring cell holds
    \* the slot, in the firmware
    gen,     \* generation of the last lease
    holder,  \* client whose lease is active
    fpc,     \* where the firmware's tick is
    fSnap,   \* its snapshot of the producer line
    adopted, \* write cursor it took from the last stable snapshot
    played,  \* its consumed cursor
    fOut,    \* status it is publishing
    releases,\* generations of ZZ9K_OP_AUDIO_RING_RELEASE calls in flight
    \* each client's zz9k_audio_ring_session_* and feeding loop
    pc,      \* where it is
    after,   \* where it goes after the publish or credit read it is in
    lease,   \* grant.generation, 0 when the session is not mapped
    write,   \* write_cursor
    credit,  \* consumed_cursor
    snap,    \* its snapshot of the firmware line, and the even word it
             \* publishes next
    tries,   \* attempts of this take_credits
    retries, \* credit_retries
    waits,   \* wait_stretch
    fed,     \* fed
    result   \* how the session ended

slot    == <<gen, holder, fpc, fSnap, adopted, played, fOut, releases>>
cursors == <<lease, write, credit>>
loop    == <<tries, retries, waits, fed, result>>
vars == <<pLine, fLine, ring, gen, holder, fpc, fSnap, adopted, played, fOut,
          releases, pc, after, lease, write, credit, snap, tries, retries, waits, fed,
          result>>

---------------------------------------------------------------------------
Hi(cursor) == cursor \div CursorBase
Lo(cursor) == cursor % CursorBase
Cursor(s)  == s.hi * CursorBase + s.lo

\* Faulty variants: a read counts as stable whatever happened to the sequence
\* word, or although a write is in flight.
AlwaysStable(before, now) == TRUE
StableIgnoringParity(before, now) == before = now

Stable(before, now) == before = now /\ before % 2 = 0

\* Faulty variant: from an odd word the next even one is not strictly newer.
NextEvenKeepsParity(seq) == (seq + 2) % SeqLimit

\* The next even sequence word, also from an odd one left by a crash.
NextEven(seq) == (((seq + 2) \div 2) * 2) % SeqLimit

DistanceValid(w, c) == w >= c /\ w - c <= Capacity

Outstanding(c) == write[c] - credit[c]

\* Faulty variant: the whole ring is free, outstanding or not.
FreeBytesIgnoringCredit(c) == Capacity

FreeBytes(c) == Capacity - Outstanding(c)

\* Faulty variant: the period being played counts as played.
AllPlayedButOne(c) == Outstanding(c) <= Period

AllPlayed(c) == Outstanding(c) = 0

MinOf(a, b) == IF a < b THEN a ELSE b

---------------------------------------------------------------------------
NoPcm   == [gen |-> 0, pos |-> 0]
NoPLine == [seq |-> 0, gen |-> 0, hi |-> 0, lo |-> 0]
NoFLine == [seq |-> 0, gen |-> 0, hi |-> 0, lo |-> 0, status |-> "OK"]

\* No lease granted yet, with every client in the given place.
InitAt(place) ==
    /\ pLine = [NoPLine EXCEPT !.seq = FirstSeq]
    /\ fLine = [NoFLine EXCEPT !.seq = FirstSeq]
    /\ ring = [i \in 0..(Capacity - 1) |-> NoPcm]
    /\ gen = 0 /\ holder = Nobody
    /\ fpc = "idle" /\ fSnap = NoPLine
    /\ adopted = 0 /\ played = 0 /\ fOut = "OK"
    /\ releases = {}
    /\ pc = [c \in Clients |-> place]
    /\ after = [c \in Clients |-> "out"]
    /\ lease = [c \in Clients |-> 0]
    /\ write = [c \in Clients |-> 0]
    /\ credit = [c \in Clients |-> 0]
    /\ snap = [c \in Clients |-> NoFLine]
    /\ tries = [c \in Clients |-> 0]
    /\ retries = [c \in Clients |-> 0]
    /\ waits = [c \in Clients |-> 0]
    /\ fed = [c \in Clients |-> 0]
    /\ result = [c \in Clients |-> "NONE"]

Init == InitAt("out")

Goto(c, where) == pc' = [pc EXCEPT ![c] = where]

\* Enter zz9k_audio_ring_publish or zz9k_audio_ring_take_credits.
Call(c, what, return) == Goto(c, what) /\ after' = [after EXCEPT ![c] = return]

\* Bound: no further publication when the word would come back to the one a
\* reader has noted at the start of the snapshot it is taking.
Reading == {"get_words", "get_lo", "get_seq"}

ProducerMayPublish == fpc \in Reading => NextEven(pLine.seq) # fSnap.seq

FirmwareMayPublish ==
    \A c \in Clients : pc[c] \in Reading => NextEven(fLine.seq) # snap[c].seq

\* zz9k_audio_ring_session_begin with a granted slot: zeroed session, first
\* publication, one credit read whose outcome is ignored.  The firmware has
\* started the lease: fresh generation, consumed cursor 0 in its line.  The
\* ghosts of earlier leases' PCM are forgotten: all are equally stale.
SessionBegin(c) ==
    /\ pc[c] = "out"
    /\ holder = Nobody /\ fpc = "idle" /\ gen < MaxGen
    /\ ReuseWhileHeld \/ \A d \in Clients : lease[d] = 0
    /\ FirmwareMayPublish
    /\ gen' = gen + 1 /\ holder' = c /\ adopted' = 0 /\ played' = 0
    /\ ring' = [i \in DOMAIN ring |-> NoPcm]
    /\ fLine' = [seq |-> NextEven(fLine.seq), gen |-> gen + 1, hi |-> 0,
                 lo |-> 0, status |-> "OK"]
    /\ lease' = [lease EXCEPT ![c] = gen + 1]
    /\ write' = [write EXCEPT ![c] = 0]
    /\ credit' = [credit EXCEPT ![c] = 0]
    /\ Call(c, "publish", "first_credit")
    /\ UNCHANGED <<pLine, fpc, fSnap, fOut, releases, snap, loop>>

---------------------------------------------------------------------------
\* zz9k_audio_ring_producer_publish, word by word.

PublishOdd(c) ==
    /\ pc[c] = "publish"
    /\ ProducerMayPublish
    /\ snap' = [snap EXCEPT ![c].seq = NextEven(pLine.seq)]
    /\ pLine' = [pLine EXCEPT !.seq = NextEven(pLine.seq) + 1]
    /\ Goto(c, "put_hi")
    /\ UNCHANGED <<fLine, ring, slot, after, cursors, loop>>

PublishGenerationHi(c) ==
    /\ pc[c] = "put_hi"
    /\ pLine' = [pLine EXCEPT !.gen = lease[c], !.hi = Hi(write[c])]
    /\ Goto(c, "put_lo")
    /\ UNCHANGED <<fLine, ring, slot, after, cursors, snap, loop>>

PublishCursorLo(c) ==
    /\ pc[c] = "put_lo"
    /\ pLine' = [pLine EXCEPT !.lo = Lo(write[c])]
    /\ Goto(c, "put_even")
    /\ UNCHANGED <<fLine, ring, slot, after, cursors, snap, loop>>

PublishEven(c) ==
    /\ pc[c] = "put_even"
    /\ pLine' = [pLine EXCEPT !.seq = snap[c].seq]
    /\ IF after[c] = "first_credit" THEN Call(c, "credit", "first_credit")
                                    ELSE Goto(c, after[c]) /\ UNCHANGED after
    /\ snap' = [snap EXCEPT ![c] = NoFLine]
    /\ UNCHANGED <<fLine, ring, slot, cursors, loop>>

ForgetLocals(c) ==
    /\ lease' = [lease EXCEPT ![c] = 0]
    /\ write' = [write EXCEPT ![c] = 0] /\ credit' = [credit EXCEPT ![c] = 0]
    /\ snap' = [snap EXCEPT ![c] = NoFLine]
    /\ after' = [after EXCEPT ![c] = "out"] /\ result' = [result EXCEPT ![c] = "NONE"]
    /\ tries' = [tries EXCEPT ![c] = 0] /\ retries' = [retries EXCEPT ![c] = 0]
    /\ waits' = [waits EXCEPT ![c] = 0] /\ fed' = [fed EXCEPT ![c] = 0]

\* A task that dies leaves the line as it is, mid-update or not.
Crash(c) ==
    /\ pc[c] \notin {"out", "done", "dead"}
    /\ Goto(c, "dead")
    /\ ForgetLocals(c)
    /\ UNCHANGED <<pLine, fLine, ring, slot>>

---------------------------------------------------------------------------
\* zz9k_audio_ring_firmware_snapshot, word by word ...

CreditSequence(c) ==
    /\ pc[c] = "credit"
    /\ snap' = [snap EXCEPT ![c].seq = fLine.seq]
    /\ Goto(c, "get_words")
    /\ UNCHANGED <<pLine, fLine, ring, slot, after, cursors, loop>>

CreditGenerationHi(c) ==
    /\ pc[c] = "get_words"
    /\ snap' = [snap EXCEPT ![c].gen = fLine.gen, ![c].hi = fLine.hi]
    /\ Goto(c, "get_lo")
    /\ UNCHANGED <<pLine, fLine, ring, slot, after, cursors, loop>>

CreditLoStatus(c) ==
    /\ pc[c] = "get_lo"
    /\ snap' = [snap EXCEPT ![c].lo = fLine.lo, ![c].status = fLine.status]
    /\ Goto(c, "get_seq")
    /\ UNCHANGED <<pLine, fLine, ring, slot, after, cursors, loop>>

\* Faulty variant: credit of whatever lease the line describes is adopted.
SnapshotGoodAnyLease(c) == /\ snap[c].status = "OK"
                           /\ DistanceValid(write[c], Cursor(snap[c]))

\* ... and zz9k_audio_ring_take_credits: adopt, refuse or retry, and the
\* feeding loop's answer to each.
SnapshotGood(c) == /\ snap[c].gen = lease[c]
                   /\ snap[c].status = "OK"
                   /\ DistanceValid(write[c], Cursor(snap[c]))

Finish(c, how) == /\ Goto(c, "end")
                  /\ result' = [result EXCEPT ![c] = how]

CreditTaken(c) ==
    /\ pc[c] = "get_seq"
    /\ Stable(snap[c].seq, fLine.seq)
    /\ SnapshotGood(c)
    /\ credit' = [credit EXCEPT ![c] = Cursor(snap[c])]
    /\ tries' = [tries EXCEPT ![c] = 0]
    /\ retries' = [retries EXCEPT ![c] = 0]
    /\ Goto(c, IF after[c] = "first_credit" THEN "loop" ELSE "feed")
    /\ snap' = [snap EXCEPT ![c] = NoFLine]
    /\ UNCHANGED <<pLine, fLine, ring, slot, after, lease, write, waits, fed,
                   result>>

CreditRevoked(c) ==
    /\ pc[c] = "get_seq"
    /\ Stable(snap[c].seq, fLine.seq)
    /\ ~SnapshotGood(c)
    /\ tries' = [tries EXCEPT ![c] = 0]
    /\ IF after[c] = "first_credit" THEN Goto(c, "loop") /\ UNCHANGED result
                                    ELSE Finish(c, "BAD_HANDLE")
    /\ snap' = [snap EXCEPT ![c] = NoFLine]
    /\ UNCHANGED <<pLine, fLine, ring, slot, after, cursors, retries, waits, fed>>

\* Faulty variant: torn reads are not counted.
TornReadsNotCounted(c) == retries[c]

TornReads(c) == retries[c] + 1

CreditTorn(c) ==
    /\ pc[c] = "get_seq"
    /\ ~Stable(snap[c].seq, fLine.seq)
    /\ \/ /\ tries[c] < CreditRetries
          /\ tries' = [tries EXCEPT ![c] = tries[c] + 1]
          /\ Goto(c, "credit")
          /\ UNCHANGED <<retries, result>>
       \/ /\ tries[c] >= CreditRetries
          /\ tries' = [tries EXCEPT ![c] = 0]
          /\ IF after[c] = "first_credit"
             THEN Goto(c, "loop") /\ UNCHANGED <<retries, result>>
             ELSE IF TornReads(c) > RetryLimit
             THEN Finish(c, "TIMEOUT") /\ UNCHANGED retries
             ELSE /\ retries' = [retries EXCEPT ![c] = TornReads(c)]
                  /\ Goto(c, "loop") /\ UNCHANGED result
    /\ snap' = [snap EXCEPT ![c] = NoFLine]
    /\ UNCHANGED <<pLine, fLine, ring, slot, after, cursors, waits, fed>>

---------------------------------------------------------------------------
\* zz9k_fabriclease_session: the credit-paced feed, then the drain.

LoopAgain(c) ==
    /\ pc[c] = "loop"
    /\ \/ Call(c, "credit", "loop") /\ UNCHANGED result
       \/ Finish(c, "CANCELLED") /\ UNCHANGED after
    /\ UNCHANGED <<pLine, fLine, ring, slot, cursors, snap, tries, retries,
                   waits, fed>>

Required(c) == MinOf(MinOf(Chunk, Capacity), Target - fed[c])

\* No room for the next chunk, or not everything played yet: wait, and keep
\* the lease alive.
WaitForCredit(c) ==
    /\ pc[c] = "feed"
    /\ IF fed[c] < Target THEN FreeBytes(c) < Required(c) ELSE ~AllPlayed(c)
    /\ waits' = [waits EXCEPT ![c] = waits[c] + 1]
    /\ IF waits[c] + 1 > WaitLimit
       THEN Finish(c, "TIMEOUT") /\ UNCHANGED after
       ELSE /\ IF (waits[c] + 1) % HeartbeatWaits = 0
               THEN Call(c, "publish", "loop")
               ELSE Goto(c, "loop") /\ UNCHANGED after
            /\ UNCHANGED result
    /\ UNCHANGED <<pLine, fLine, ring, slot, cursors, snap, tries, retries, fed>>

\* zz9k_audio_ring_write, the part before the end of the ring ...
WriteFirst(c) ==
    /\ pc[c] = "feed"
    /\ fed[c] < Target
    /\ FreeBytes(c) >= Required(c)
    /\ waits' = [waits EXCEPT ![c] = 0]
    /\ LET n == MinOf(Required(c), FreeBytes(c))
           offset == write[c] % Capacity
       IN ring' = [i \in DOMAIN ring |->
                     IF i >= offset /\ i < offset + n
                     THEN [gen |-> lease[c], pos |-> write[c] + (i - offset)]
                     ELSE ring[i]]
    /\ Goto(c, "wrap")
    /\ UNCHANGED <<pLine, fLine, slot, after, cursors, snap, tries, retries,
                   fed, result>>

\* ... the part that wraps to its start, and the local cursor.
WriteWrapped(c) ==
    /\ pc[c] = "wrap"
    /\ LET n == MinOf(Required(c), FreeBytes(c))
           first == MinOf(n, Capacity - (write[c] % Capacity))
       IN /\ ring' = [i \in DOMAIN ring |->
                        IF i < n - first
                        THEN [gen |-> lease[c], pos |-> write[c] + (first + i)]
                        ELSE ring[i]]
          /\ write' = [write EXCEPT ![c] = write[c] + n]
          /\ fed' = [fed EXCEPT ![c] = fed[c] + n]
    /\ Call(c, "publish", "loop")
    /\ UNCHANGED <<pLine, fLine, slot, lease, credit, snap, tries, retries,
                   waits, result>>

Drained(c) ==
    /\ pc[c] = "feed"
    /\ fed[c] >= Target
    /\ AllPlayed(c)
    /\ Finish(c, "OK")
    /\ UNCHANGED <<pLine, fLine, ring, slot, after, cursors, snap, tries,
                   retries, waits, fed>>

\* Faulty variant: the slot is released under the generation it has now.
ReleaseTokenFromLine(c) == fLine.gen

ReleaseToken(c) == lease[c]

\* zz9k_audio_ring_session_end: the session is zeroed, then the release is
\* called with the generation.  The call may time out and be served late.
SessionEnd(c) ==
    /\ pc[c] = "end"
    /\ ForgetLocals(c)
    /\ releases' = releases \cup {ReleaseToken(c)}
    /\ Goto(c, "done")
    /\ UNCHANGED <<pLine, fLine, ring, gen, holder, fpc, fSnap, adopted, played,
                   fOut>>

---------------------------------------------------------------------------
\* The firmware, modelled from audio.h's line helpers and from the mock of
\* tests/audio_ring_client_test.c.  One tick: snapshot the producer line ...

fwRest == <<pLine, ring, gen, pc, after, cursors, snap, loop, releases>>

FwSequence ==
    /\ fpc = "idle" /\ holder # Nobody
    /\ fSnap' = [NoPLine EXCEPT !.seq = pLine.seq]
    /\ fpc' = "get_words"
    /\ UNCHANGED <<fwRest, fLine, holder, adopted, played, fOut>>

FwGenerationHi ==
    /\ fpc = "get_words"
    /\ fSnap' = [fSnap EXCEPT !.gen = pLine.gen, !.hi = pLine.hi]
    /\ fpc' = "get_lo"
    /\ UNCHANGED <<fwRest, fLine, holder, adopted, played, fOut>>

FwLo ==
    /\ fpc = "get_lo"
    /\ fSnap' = [fSnap EXCEPT !.lo = pLine.lo]
    /\ fpc' = "get_seq"
    /\ UNCHANGED <<fwRest, fLine, holder, adopted, played, fOut>>

\* ... skip a torn read, a foreign generation or a slot released meanwhile;
\* otherwise check the distance, take at most one whole period and publish.
FwAdopt ==
    /\ fpc = "get_seq"
    /\ IF ~Stable(fSnap.seq, pLine.seq) \/ fSnap.gen # gen \/ holder = Nobody
       THEN /\ fpc' = "idle"
            /\ UNCHANGED <<holder, adopted, played, fOut>>
       ELSE /\ fpc' = "put_odd"
            /\ IF DistanceValid(Cursor(fSnap), played)
               THEN /\ adopted' = Cursor(fSnap)
                    /\ played' = IF Cursor(fSnap) - played >= Period
                                 THEN played + Period ELSE played
                    /\ fOut' = "OK"
                    /\ UNCHANGED holder
               ELSE /\ fOut' = "FAULT_CURSOR" /\ holder' = Nobody
                    /\ UNCHANGED <<adopted, played>>
    /\ fSnap' = NoPLine
    /\ UNCHANGED <<fwRest, fLine>>

\* The lease dies: heartbeat expiry.
FwRevoke ==
    /\ fpc = "idle" /\ holder # Nobody
    /\ fOut' = "REVOKED"
    /\ holder' = Nobody
    /\ fpc' = "put_odd"
    /\ UNCHANGED <<fwRest, fLine, fSnap, adopted, played>>

\* A release of a stale generation releases nothing.
FwRelease ==
    \E g \in releases :
        /\ releases' = releases \ {g}
        /\ holder' = IF gen = g THEN Nobody ELSE holder
        /\ UNCHANGED <<pLine, fLine, ring, gen, fpc, fSnap, adopted, played,
                       fOut, pc, after, cursors, snap, loop>>

\* zz9k_audio_ring_firmware_publish, word by word.
FwPublishOdd ==
    /\ fpc = "put_odd"
    /\ FirmwareMayPublish
    /\ fLine' = [fLine EXCEPT !.seq = NextEven(fLine.seq) + 1]
    /\ fpc' = "put_hi"
    /\ UNCHANGED <<fwRest, holder, fSnap, adopted, played, fOut>>

FwPublishHi ==
    /\ fpc = "put_hi"
    /\ fLine' = [fLine EXCEPT !.gen = gen, !.hi = Hi(played)]
    /\ fpc' = "put_lo"
    /\ UNCHANGED <<fwRest, holder, fSnap, adopted, played, fOut>>

FwPublishLo ==
    /\ fpc = "put_lo"
    /\ fLine' = [fLine EXCEPT !.lo = Lo(played), !.status = fOut]
    /\ fpc' = "put_even"
    /\ UNCHANGED <<fwRest, holder, fSnap, adopted, played, fOut>>

FwPublishEven ==
    /\ fpc = "put_even"
    /\ fLine' = [fLine EXCEPT !.seq = fLine.seq - 1]
    /\ fpc' = "idle" /\ fOut' = "OK"
    /\ UNCHANGED <<fwRest, holder, fSnap, adopted, played>>

---------------------------------------------------------------------------
ClientStep(c) ==
    \/ PublishOdd(c) \/ PublishGenerationHi(c) \/ PublishCursorLo(c)
    \/ PublishEven(c)
    \/ CreditSequence(c) \/ CreditGenerationHi(c) \/ CreditLoStatus(c)
    \/ CreditTaken(c) \/ CreditRevoked(c) \/ CreditTorn(c)
    \/ LoopAgain(c) \/ WaitForCredit(c) \/ WriteFirst(c) \/ WriteWrapped(c)
    \/ Drained(c) \/ SessionEnd(c)

FwStep == \/ FwSequence \/ FwGenerationHi \/ FwLo \/ FwAdopt
          \/ FwPublishOdd \/ FwPublishHi \/ FwPublishLo \/ FwPublishEven

Next == \/ \E c \in Clients : SessionBegin(c) \/ ClientStep(c) \/ Crash(c)
        \/ FwStep
        \/ FwRevoke
        \/ FwRelease

Spec == Init /\ [][Next]_vars

\* Producer tasks run; nothing is assumed of the firmware.
Fairness == \A c \in Clients : WF_vars(ClientStep(c))

FairSpec == Spec /\ Fairness

---------------------------------------------------------------------------
Line == [seq : 0..(SeqLimit - 1), gen : 0..MaxGen, hi : Nat, lo : 0..(CursorBase - 1)]
FLine == [seq : 0..(SeqLimit - 1), gen : 0..MaxGen, hi : Nat, lo : 0..(CursorBase - 1),
          status : {"OK", "REVOKED", "FAULT_CURSOR"}]

TypeOK ==
    /\ pLine \in Line /\ fSnap \in Line /\ fLine \in FLine
    /\ ring \in [0..(Capacity - 1) -> [gen : 0..MaxGen, pos : Nat]]
    /\ gen \in 0..MaxGen /\ holder \in Clients \cup {Nobody}
    /\ fpc \in {"idle", "get_words", "get_lo", "get_seq", "put_odd", "put_hi",
                "put_lo", "put_even"}
    /\ adopted \in Nat /\ played \in Nat
    /\ fOut \in {"OK", "REVOKED", "FAULT_CURSOR"} /\ releases \subseteq 1..MaxGen
    /\ pc \in [Clients -> {"out", "publish", "put_hi", "put_lo",
                           "put_even", "credit", "get_words", "get_lo",
                           "get_seq", "loop", "feed", "wrap", "end", "done",
                           "dead"}]
    /\ after \in [Clients -> {"out", "first_credit", "loop"}]
    /\ lease \in [Clients -> 0..MaxGen]
    /\ write \in [Clients -> Nat] /\ credit \in [Clients -> Nat]
    /\ snap \in [Clients -> FLine]
    /\ tries \in [Clients -> Nat] /\ retries \in [Clients -> Nat]
    /\ waits \in [Clients -> Nat] /\ fed \in [Clients -> Nat]
    /\ result \in [Clients -> {"NONE", "OK", "BAD_HANDLE", "TIMEOUT", "CANCELLED"}]

\* The cursors of a live lease never cross: credit the client believes in <=
\* what the firmware consumed <= what it adopted <= what the client staged <=
\* credit + ring size.  A torn read of either line would break the chain.
CursorChain ==
    \A c \in Clients : (holder = c /\ lease[c] = gen) =>
        /\ credit[c] <= played
        /\ played <= adopted
        /\ adopted <= write[c]
        /\ write[c] <= credit[c] + Capacity

\* Every position between the firmware's consumed cursor and the write cursor
\* it adopted holds the PCM this lease staged for that position: published
\* means written, and nothing unplayed is overwritten.
PublishedPcmIntact ==
    holder # Nobody =>
        \A p \in played..(adopted - 1) :
            ring[p % Capacity] = [gen |-> gen, pos |-> p]

\* A producer that respects its credit is never faulted for its cursor, over
\* any interleaving of the word-by-word updates and after any crash of an
\* earlier holder.
NoSpuriousFault == fOut # "FAULT_CURSOR"

\* A client that reports success had everything it fed played.
DrainedMeansPlayed ==
    [][\A c \in Clients : (result'[c] = "OK" /\ result[c] # "OK")
            => gen = lease[c] /\ played = Target]_vars

\* Once the slot is leased again, its earlier holder gets no more credit: what
\* the new lease plays is not mistaken for its own PCM.
NoCreditFromLaterLease ==
    [][\A c \in Clients : lease[c] \notin {0, gen} /\ lease'[c] = lease[c]
            => credit'[c] = credit[c]]_vars

\* Release is bound to the generation: ending or losing an old lease never
\* takes the slot from the client that holds it now.
OnlyOwnLeaseEnds ==
    [][\A c \in Clients : (holder = c /\ holder' # c)
            => \/ pc[c] \in {"done", "dead"}
               \/ fpc = "get_seq" /\ fOut' = "FAULT_CURSOR"
               \/ fpc = "idle" /\ fpc' = "put_odd" /\ fOut' = "REVOKED"]_vars

\* Whatever the firmware does, a session comes to its end and is unmapped.
SessionsEnd ==
    \A c \in Clients : pc[c] # "out" ~> pc[c] \in {"done", "dead"}
=============================================================================
