-------------------------- MODULE AudioRingProofs --------------------------
(***************************************************************************)
(* For any ring and period size, any number of producers and leases and    *)
(* any interleaving of the word-by-word updates and reads of the two       *)
(* control lines: what the seqlocks let through is whole, the cursors of a *)
(* lease never cross, and the firmware plays only what was staged.         *)
(*                                                                         *)
(* The first half holds also when the slot of a revoked lease is granted   *)
(* again at once; the second half needs that its holder has noticed.       *)
(*                                                                         *)
(* At the end what the modules of streamed decoding and of films prove is  *)
(* carried over to MCAudio, which runs them beside the rings.              *)
(***************************************************************************)
EXTENDS MCAudio, Integers, TLAPS

\* Places of a client in a session, those of a producer line mid-update, and
\* those of a firmware line mid-update.
InSession   == {"publish", "put_hi", "put_lo", "put_even", "credit",
                "get_words", "get_lo", "get_seq", "loop", "feed", "wrap", "end"}
Places      == InSession \cup {"out", "done", "dead"}
Putting     == {"put_hi", "put_lo", "put_even"}

\* A lease is held by one client, and a release in flight is of a lease that
\* its client has given up.
LeaseInv ==
    /\ \A c \in Clients : lease[c] # 0 <=> pc[c] \in InSession
    /\ \A c \in Clients : pc[c] \in InSession => after[c] # "out"
    /\ \A c \in Clients : lease[c] <= gen
    /\ \A c, d \in Clients : lease[c] # 0 /\ lease[c] = lease[d] => c = d
    /\ \A c \in Clients : holder = c => lease[c] = gen \/ pc[c] \in {"done", "dead"}
    /\ \A g \in releases : g <= gen /\ \A c \in Clients : lease[c] # g

\* Between the two parts of a write there is still room for the second.
WriteInv ==
    \A c \in Clients :
        pc[c] = "wrap" => fed[c] < Target /\ FreeBytes(c) >= Required(c)

\* The firmware line is of the last lease; at rest its cursor is one the
\* firmware has reached, and whoever reads it takes the words of one
\* publication or sees that the sequence word has moved.
FirmwareLineOK ==
    /\ fLine.gen = gen
    /\ fLine.seq % 2 = IF fpc \in Putting THEN 1 ELSE 0
    /\ fpc \in {"put_lo", "put_even"} => fLine.hi = Hi(played)
    /\ fpc = "put_even" => fLine.lo = Lo(played)
    /\ fpc \notin Putting => Cursor(fLine) <= played

CreditReadOK(c) ==
    pc[c] \in Reading =>
      /\ fpc \in Putting => snap[c].seq # fLine.seq - 1
      /\ Stable(snap[c].seq, fLine.seq) =>
           /\ pc[c] # "get_words" => snap[c].gen = fLine.gen /\ snap[c].hi = fLine.hi
           /\ pc[c] = "get_seq" =>
                snap[c].lo = fLine.lo /\ snap[c].status = fLine.status

FirmwareLineInv == FirmwareLineOK /\ \A c \in Clients : CreditReadOK(c)

\* The same for the producer line, whose update a dead client may have left
\* unfinished, and its one reader.
ProducerPuts(c) ==
    /\ pc[c] \in Putting => /\ snap[c].seq % 2 = 0
                            /\ pLine.seq = snap[c].seq + 1
                            /\ fpc \in Reading => snap[c].seq # fSnap.seq
    /\ pc[c] \in {"put_lo", "put_even"} => /\ pLine.gen = lease[c]
                                           /\ pLine.hi = Hi(write[c])
    /\ pc[c] = "put_even" => pLine.lo = Lo(write[c])

FirmwareReadOK ==
    fpc \in Reading /\ Stable(fSnap.seq, pLine.seq) =>
        /\ fpc # "get_words" => fSnap.gen = pLine.gen /\ fSnap.hi = pLine.hi
        /\ fpc = "get_seq" => fSnap.lo = pLine.lo

ProducerLineInv ==
    /\ pLine.gen <= gen
    /\ \A c \in Clients : ProducerPuts(c)
    /\ FirmwareReadOK

\* Whoever is in a session has the last lease granted.
OneSession == /\ \A c \in Clients : lease[c] # 0 => lease[c] = gen
              /\ holder # Nobody => gen # 0

\* The producer line is at rest and of this lease.
Published == pLine.seq % 2 = 0 /\ pLine.gen = gen

\* How the cursors of a lease are ordered, its holder alive or not.
CursorInv ==
    /\ played <= adopted
    /\ Published => /\ adopted <= Cursor(pLine)
                    /\ Cursor(pLine) <= played + Capacity
    /\ \A c \in Clients :
        lease[c] # 0 =>
          /\ credit[c] <= played
          /\ adopted <= write[c] /\ write[c] <= credit[c] + Capacity
          /\ Published => Cursor(pLine) <= write[c]
          /\ fed[c] = write[c] /\ fed[c] <= Target
    /\ \A c \in Clients : pc[c] = "out" => fed[c] = 0

\* The ring holds this lease's PCM for the positions from .. to - 1.
Holds(from, to) ==
    \A p \in from..(to - 1) : ring[p % Capacity] = [gen |-> gen, pos |-> p]

\* What zz9k_audio_ring_write stages, and how much of it before the end of the
\* ring.
Staged(c)      == MinOf(Required(c), FreeBytes(c))
StagedFirst(c) == MinOf(Staged(c), Capacity - (write[c] % Capacity))

\* Nothing unplayed is missing from the ring: up to what the firmware adopted,
\* to what it can adopt next, and to what the client believes it staged.
PcmInv ==
    /\ Holds(played, adopted)
    /\ Published => Holds(played, Cursor(pLine))
    /\ \A c \in Clients :
        /\ lease[c] # 0 => Holds(played, write[c])
        /\ pc[c] = "wrap" => Holds(write[c], write[c] + StagedFirst(c))

\* What holds whether or not the slot is granted again at once, and the rest.
LineInv == TypeOK /\ LeaseInv /\ WriteInv /\ FirmwareLineInv
RingInv == LineInv /\ ProducerLineInv /\ OneSession /\ CursorInv /\ PcmInv
           /\ NoSpuriousFault

---------------------------------------------------------------------------
\* Division, cursors in two words, and sequence words.

LEMMA DivMod ==
    ASSUME NEW x \in Nat, NEW n \in Nat \ {0}
    PROVE  /\ x \div n \in Nat /\ x % n \in 0..(n - 1)
           /\ x = n * (x \div n) + (x % n)
  <1>1. x \div n \in Nat /\ x % n \in 0..(n - 1)
    OBVIOUS
  <1>2. x = n * (x \div n) + (x % n)
    OBVIOUS
  <1>3. QED
    BY <1>1, <1>2

LEMMA SameQuotient ==
    ASSUME NEW n \in Nat \ {0}, NEW k \in Int, NEW j \in Int,
           n * k < n * j + n, n * j < n * k + n
    PROVE  k = j
  OBVIOUS

\* A position and the ring cell it goes to.
LEMMA ModIsRest ==
    ASSUME NEW n \in Nat \ {0}, NEW k \in Nat, NEW r \in 0..(n - 1)
    PROVE  (n * k + r) % n = r
  <1> DEFINE x == n * k + r
  <1>1. x \in Nat
    OBVIOUS
  <1>2. x = n * (x \div n) + (x % n) /\ x % n \in 0..(n - 1) /\ x \div n \in Nat
    BY <1>1, DivMod
  <1> HIDE DEF x
  <1>3. x = n * k + r
    BY DEF x
  <1>4. x \div n = k
    BY <1>2, <1>3, SameQuotient
  <1>5. n * (x \div n) = n * k
    BY <1>4
  <1>6. QED
    BY <1>2, <1>3, <1>5 DEF x

\* Two positions less than a ring apart go to different cells.
LEMMA CellsDiffer ==
    ASSUME NEW n \in Nat \ {0}, NEW p \in Nat, NEW q \in Nat, p < q, q < p + n
    PROVE  p % n # q % n
  <1> SUFFICES ASSUME p % n = q % n PROVE FALSE
    OBVIOUS
  <1>1. /\ p = n * (p \div n) + (p % n) /\ q = n * (q \div n) + (q % n)
        /\ p % n \in 0..(n - 1) /\ p \div n \in Nat /\ q \div n \in Nat
    BY DivMod
  <1>2. p \div n = q \div n
    <2> DEFINE j == n * (p \div n)
               k == n * (q \div n)
    <2>1. j < k + n /\ k < j + n
      BY <1>1
    <2>2. QED
      BY <2>1, <1>1, SameQuotient
  <1>3. QED
    BY <1>1, <1>2

LEMMA WordsOfCursor ==
    ASSUME NEW x \in Nat, NEW line, line.hi = Hi(x), line.lo = Lo(x)
    PROVE  Hi(x) \in Nat /\ Lo(x) \in 0..(CursorBase - 1) /\ Cursor(line) = x
  <1>1. CursorBase \in Nat \ {0}
    BY AudioRingAssumption
  <1>2. /\ x \div CursorBase \in Nat /\ x % CursorBase \in 0..(CursorBase - 1)
        /\ x = CursorBase * (x \div CursorBase) + (x % CursorBase)
    BY <1>1, DivMod
  <1>3. CursorBase * (x \div CursorBase) = (x \div CursorBase) * CursorBase
    BY <1>1, <1>2
  <1>4. QED
    BY <1>2, <1>3 DEF Hi, Lo, Cursor

LEMMA WordsInRange ==
    ASSUME NEW x \in Nat
    PROVE  Hi(x) \in Nat /\ Lo(x) \in 0..(CursorBase - 1)
  BY DivMod, AudioRingAssumption DEF Hi, Lo

LEMMA CursorInRange ==
    ASSUME NEW line, line.hi \in Nat, line.lo \in 0..(CursorBase - 1)
    PROVE  Cursor(line) \in Nat
  <1>1. CursorBase \in Nat
    BY AudioRingAssumption
  <1>2. line.hi * CursorBase \in Nat
    BY <1>1
  <1>3. QED
    BY <1>1, <1>2 DEF Cursor

LEMMA NextEvenIsEven ==
    ASSUME NEW s \in 0..(SeqLimit - 1)
    PROVE  /\ NextEven(s) \in 0..(SeqLimit - 2)
           /\ NextEven(s) % 2 = 0 /\ (NextEven(s) + 1) % 2 = 1
  <1>1. SeqLimit \in Nat \ {0} /\ SeqLimit % 2 = 0
    BY AudioRingAssumption
  <1> DEFINE e == ((s + 2) \div 2) * 2
  <1>2. e \in Nat /\ e % 2 = 0 /\ e <= s + 2
    BY <1>1
  <1> HIDE DEF e
  <1>3. e <= SeqLimit
    BY <1>1, <1>2
  <1>4. NextEven(s) = e % SeqLimit
    BY DEF NextEven, e
  <1>5. CASE e < SeqLimit
    <2>1. e % SeqLimit = e
      <3>1. (SeqLimit * 0 + e) % SeqLimit = e
        BY <1>1, <1>2, <1>5, ModIsRest
      <3>2. SeqLimit * 0 + e = e
        BY <1>1, <1>2
      <3>3. QED
        BY <3>1, <3>2
    <2>2. e <= SeqLimit - 2
      BY <1>1, <1>2, <1>5
    <2>3. QED
      BY <1>1, <1>2, <1>4, <2>1, <2>2
  <1>6. CASE e = SeqLimit
    <2>1. e % SeqLimit = 0
      <3>1. (SeqLimit * 1 + 0) % SeqLimit = 0
        BY <1>1, ModIsRest
      <3>2. SeqLimit * 1 + 0 = e
        BY <1>1, <1>6
      <3>3. QED
        BY <3>1, <3>2
    <2>2. SeqLimit >= 2
      BY <1>1
    <2>3. QED
      BY <1>1, <1>4, <2>1, <2>2
  <1>7. QED
    BY <1>2, <1>3, <1>5, <1>6, <1>1

LEMMA Numbers ==
    /\ Capacity \in Nat \ {0} /\ Period \in Nat \ {0} /\ CursorBase \in Nat \ {0}
    /\ SeqLimit \in Nat \ {0} /\ Target \in Nat \ {0} /\ Chunk \in Nat \ {0}
    /\ MaxGen \in Nat \ {0} /\ Nobody \notin Clients
  BY AudioRingAssumption

LEMMA NoLineInRange == NoPLine \in Line /\ NoFLine \in FLine
  BY Numbers DEF NoPLine, NoFLine, Line, FLine

---------------------------------------------------------------------------
\* Type correctness.

LEMMA InitType == Init => TypeOK
  <1> SUFFICES ASSUME Init PROVE TypeOK
    OBVIOUS
  <1>1. 0 \in 0..MaxGen /\ 0 \in 0..(CursorBase - 1) /\ FirstSeq \in 0..(SeqLimit - 1)
        /\ 0 \in 0..(SeqLimit - 1)
    BY AudioRingAssumption
  <1>2. /\ pLine \in Line /\ fSnap \in Line /\ fLine \in FLine
        /\ snap \in [Clients -> FLine]
    BY <1>1 DEF Init, InitAt, NoPLine, NoFLine, Line, FLine
  <1>3. ring \in [0..(Capacity - 1) -> [gen : 0..MaxGen, pos : Nat]]
    BY <1>1 DEF Init, InitAt, NoPcm
  <1>4. QED
    BY <1>1, <1>2, <1>3 DEF Init, InitAt, TypeOK

LEMMA BeginKeepsType ==
    ASSUME TypeOK, LeaseInv, NEW c \in Clients, SessionBegin(c)
    PROVE  TypeOK'
  <1>1. gen' \in 0..MaxGen
    BY Numbers DEF TypeOK, SessionBegin
  <1>2. fLine' \in FLine
    <2>1. NextEven(fLine.seq) \in 0..(SeqLimit - 1)
      <3>1. fLine.seq \in 0..(SeqLimit - 1)
        BY DEF TypeOK, FLine
      <3>2. QED
        BY <3>1, NextEvenIsEven, Numbers
    <2>2. QED
      BY <1>1, <2>1, Numbers DEF SessionBegin, FLine
  <1>3. ring' \in [0..(Capacity - 1) -> [gen : 0..MaxGen, pos : Nat]]
    BY Numbers DEF TypeOK, SessionBegin, NoPcm
  <1>4. lease' \in [Clients -> 0..MaxGen]
    BY <1>1 DEF TypeOK, SessionBegin
  <1>5. QED
    BY <1>1, <1>2, <1>3, <1>4 DEF TypeOK, SessionBegin, Call, Goto, loop

LEMMA PublishKeepsType ==
    ASSUME TypeOK, LeaseInv, NEW c \in Clients,
           \/ PublishOdd(c) \/ PublishGenerationHi(c) \/ PublishCursorLo(c)
           \/ PublishEven(c)
    PROVE  TypeOK'
  <1>1. CASE PublishOdd(c)
    <2>1. NextEven(pLine.seq) \in 0..(SeqLimit - 1) /\ NextEven(pLine.seq) + 1 \in 0..(SeqLimit - 1)
      <3>1. pLine.seq \in 0..(SeqLimit - 1)
        BY DEF TypeOK, Line
      <3>2. QED
        BY <3>1, NextEvenIsEven, Numbers
    <2>2. pLine' \in Line /\ snap' \in [Clients -> FLine]
      BY ZenonT(30), <1>1, <2>1 DEF PublishOdd, TypeOK, Line, FLine
    <2>3. QED
      BY <1>1, <2>2 DEF PublishOdd, TypeOK, Goto, slot, cursors, loop
  <1>2. CASE PublishGenerationHi(c)
    <2>1. pLine' \in Line
      BY <1>2, WordsInRange DEF PublishGenerationHi, TypeOK, Line
    <2>2. QED
      BY <1>2, <2>1 DEF PublishGenerationHi, TypeOK, Goto, slot, cursors, loop
  <1>3. CASE PublishCursorLo(c)
    <2>1. pLine' \in Line
      BY <1>3, WordsInRange DEF PublishCursorLo, TypeOK, Line
    <2>2. QED
      BY <1>3, <2>1 DEF PublishCursorLo, TypeOK, Goto, slot, cursors, loop
  <1>4. CASE PublishEven(c)
    <2>1. pLine' \in Line
      BY <1>4 DEF PublishEven, TypeOK, Line, FLine
    <2>2. snap' \in [Clients -> FLine]
      BY <1>4, NoLineInRange DEF PublishEven, TypeOK
    <2>3. pc' \in [Clients -> {"out", "publish", "put_hi", "put_lo",
                           "put_even", "credit", "get_words", "get_lo",
                           "get_seq", "loop", "feed", "wrap", "end", "done",
                           "dead"}] /\ after' \in [Clients -> {"out", "first_credit", "loop"}]
      BY <1>4 DEF PublishEven, TypeOK, Goto, Call
    <2>4. QED
      BY <1>4, <2>1, <2>2, <2>3 DEF PublishEven, TypeOK, slot, cursors, loop
  <1>5. QED
    BY <1>1, <1>2, <1>3, <1>4

LEMMA CreditKeepsType ==
    ASSUME TypeOK, LeaseInv, NEW c \in Clients,
           \/ CreditSequence(c) \/ CreditGenerationHi(c) \/ CreditLoStatus(c)
           \/ CreditTaken(c) \/ CreditRevoked(c) \/ CreditTorn(c)
    PROVE  TypeOK'
  <1>1. CASE CreditSequence(c) \/ CreditGenerationHi(c) \/ CreditLoStatus(c)
    <2>1. snap' \in [Clients -> FLine]
      <3>1. \/ snap' = [snap EXCEPT ![c].seq = fLine.seq]
            \/ snap' = [snap EXCEPT ![c].gen = fLine.gen, ![c].hi = fLine.hi]
            \/ snap' = [snap EXCEPT ![c].lo = fLine.lo, ![c].status = fLine.status]
        BY <1>1 DEF CreditSequence, CreditGenerationHi, CreditLoStatus
      <3>2. fLine \in FLine /\ snap \in [Clients -> FLine]
        BY DEF TypeOK
      <3>3. QED
        BY <3>1, <3>2 DEF FLine
    <2>2. QED
      BY <1>1, <2>1 DEF CreditSequence, CreditGenerationHi, CreditLoStatus, TypeOK, Goto,
                        slot, cursors, loop
  <1>2. CASE CreditTaken(c) \/ CreditRevoked(c) \/ CreditTorn(c)
    <2>1. snap' \in [Clients -> FLine]
      BY <1>2, NoLineInRange DEF CreditTaken, CreditRevoked, CreditTorn, TypeOK
    <2>2. Cursor(snap[c]) \in Nat
      BY CursorInRange DEF TypeOK, FLine
    <2>3. CASE CreditTaken(c)
      BY <2>1, <2>2, <2>3 DEF CreditTaken, TypeOK, Goto, slot
    <2>4. CASE CreditRevoked(c)
      BY <2>1, <2>4 DEF CreditRevoked, TypeOK, Goto, Finish, slot, cursors
    <2>5. CASE CreditTorn(c)
      <3>1. /\ retries' \in [Clients -> Nat] /\ tries' \in [Clients -> Nat]
            /\ result' \in [Clients -> {"NONE", "OK", "BAD_HANDLE", "TIMEOUT", "CANCELLED"}]
        <4>1. /\ \/ retries' = retries
                 \/ retries' = [retries EXCEPT ![c] = retries[c] + 1]
              /\ \/ tries' = [tries EXCEPT ![c] = tries[c] + 1]
                 \/ tries' = [tries EXCEPT ![c] = 0]
              /\ result' = result \/ result' = [result EXCEPT ![c] = "TIMEOUT"]
          BY <2>5 DEF CreditTorn, Finish, TornReads
        <4>2. /\ retries \in [Clients -> Nat] /\ tries \in [Clients -> Nat]
              /\ result \in [Clients -> {"NONE", "OK", "BAD_HANDLE", "TIMEOUT", "CANCELLED"}]
          BY DEF TypeOK
        <4>3. QED
          BY <4>1, <4>2
      <3>2. \E where \in {"credit", "loop", "end"} : pc' = [pc EXCEPT ![c] = where]
        BY <2>5 DEF CreditTorn, Goto, Finish
      <3>3. QED
        BY SMTT(30), <2>1, <2>5, <3>1, <3>2 DEF CreditTorn, TypeOK, slot, cursors
    <2>6. QED
      BY <1>2, <2>3, <2>4, <2>5
  <1>3. QED
    BY <1>1, <1>2

LEMMA LoopKeepsType ==
    ASSUME TypeOK, LeaseInv, WriteInv, NEW c \in Clients,
           \/ LoopAgain(c) \/ WaitForCredit(c) \/ WriteFirst(c) \/ WriteWrapped(c)
           \/ Drained(c) \/ SessionEnd(c) \/ Crash(c)
    PROVE  TypeOK'
  <1>1. CASE LoopAgain(c) \/ Drained(c)
    BY <1>1 DEF LoopAgain, Drained, TypeOK, Call, Goto, Finish, slot, cursors
  <1>2. CASE WaitForCredit(c)
    <2>1. /\ \/ pc' = [pc EXCEPT ![c] = "end"] \/ pc' = [pc EXCEPT ![c] = "publish"]
             \/ pc' = [pc EXCEPT ![c] = "loop"]
          /\ after' = after \/ after' = [after EXCEPT ![c] = "loop"]
          /\ result' = result \/ result' = [result EXCEPT ![c] = "TIMEOUT"]
          /\ waits' = [waits EXCEPT ![c] = waits[c] + 1]
      BY <1>2 DEF WaitForCredit, Goto, Finish, Call
    <2>2. /\ pc' \in [Clients -> Places] /\ waits' \in [Clients -> Nat]
          /\ after' \in [Clients -> {"out", "first_credit", "loop"}]
          /\ result' \in [Clients -> {"NONE", "OK", "BAD_HANDLE", "TIMEOUT", "CANCELLED"}]
      <3>1. /\ pc \in [Clients -> Places] /\ waits \in [Clients -> Nat]
            /\ after \in [Clients -> {"out", "first_credit", "loop"}]
            /\ result \in [Clients -> {"NONE", "OK", "BAD_HANDLE", "TIMEOUT", "CANCELLED"}]
        BY DEF TypeOK, Places, InSession
      <3>2. {"end", "publish", "loop"} \subseteq Places
        BY DEF Places, InSession
      <3>3. pc' \in [Clients -> Places]
        BY <2>1, <3>1, <3>2
      <3>4. QED
        BY <2>1, <3>1, <3>3
    <2>3. QED
      BY <1>2, <2>2 DEF WaitForCredit, TypeOK, slot, cursors, Places, InSession
  <1>3. CASE WriteFirst(c)
    <2>1. ring' \in [0..(Capacity - 1) -> [gen : 0..MaxGen, pos : Nat]]
      <3> DEFINE at == write[c] % Capacity
                 n == MinOf(Required(c), FreeBytes(c))
      <3>1. ring' = [i \in DOMAIN ring |->
                       IF i >= at /\ i < at + n
                       THEN [gen |-> lease[c], pos |-> write[c] + (i - at)]
                       ELSE ring[i]]
        BY <1>3 DEF WriteFirst
      <3>2. at \in Nat /\ write[c] \in Nat /\ lease[c] \in 0..MaxGen
        <4>1. write[c] \in Nat /\ lease[c] \in 0..MaxGen
          BY DEF TypeOK
        <4>2. Capacity \in Nat \ {0}
          BY Numbers
        <4>3. write[c] % Capacity \in 0..(Capacity - 1)
          BY <4>1, <4>2, DivMod
        <4>4. QED
          BY <4>1, <4>2, <4>3
      <3>3. /\ DOMAIN ring = 0..(Capacity - 1)
            /\ \A i \in 0..(Capacity - 1) : ring[i] \in [gen : 0..MaxGen, pos : Nat]
        BY DEF TypeOK
      <3> HIDE DEF at, n
      <3>4. ASSUME NEW i \in 0..(Capacity - 1), i >= at
            PROVE  [gen |-> lease[c], pos |-> write[c] + (i - at)]
                     \in [gen : 0..MaxGen, pos : Nat]
        BY <3>2, <3>4, Numbers
      <3>5. QED
        BY <3>1, <3>3, <3>4
    <2>2. QED
      BY <1>3, <2>1 DEF WriteFirst, TypeOK, Goto, slot, cursors
  <1>4. CASE WriteWrapped(c)
    <2> DEFINE n == MinOf(Required(c), FreeBytes(c))
               first == MinOf(n, Capacity - (write[c] % Capacity))
    <2>1. /\ ring' = [i \in DOMAIN ring |->
                        IF i < n - first
                        THEN [gen |-> lease[c], pos |-> write[c] + (first + i)]
                        ELSE ring[i]]
          /\ write' = [write EXCEPT ![c] = write[c] + n]
          /\ fed' = [fed EXCEPT ![c] = fed[c] + n]
      BY <1>4 DEF WriteWrapped
    <2>2. n \in Nat /\ first \in Nat
      <3>1. fed[c] < Target /\ FreeBytes(c) >= Required(c)
        BY <1>4 DEF WriteWrapped, WriteInv
      <3>2. fed[c] \in Nat /\ write[c] \in Nat /\ credit[c] \in Nat
        BY DEF TypeOK
      <3>3. Required(c) \in Nat
        BY <3>1, <3>2, Numbers DEF Required, MinOf
      <3>4. FreeBytes(c) \in Int
        BY <3>2, Numbers DEF FreeBytes, Outstanding
      <3>5. n \in Nat
        BY <3>1, <3>3, <3>4 DEF MinOf
      <3>6. write[c] % Capacity \in 0..(Capacity - 1)
        BY <3>2, DivMod, Numbers
      <3>7. QED
        BY <3>5, <3>6, Numbers DEF MinOf
    <2>3. ring' \in [0..(Capacity - 1) -> [gen : 0..MaxGen, pos : Nat]]
      <3>2. write[c] \in Nat /\ lease[c] \in 0..MaxGen
        BY DEF TypeOK
      <3>3. /\ DOMAIN ring = 0..(Capacity - 1)
            /\ \A i \in 0..(Capacity - 1) : ring[i] \in [gen : 0..MaxGen, pos : Nat]
        BY DEF TypeOK
      <3> HIDE DEF n, first
      <3>4. ASSUME NEW i \in 0..(Capacity - 1)
            PROVE  [gen |-> lease[c], pos |-> write[c] + (first + i)]
                     \in [gen : 0..MaxGen, pos : Nat]
        BY <2>2, <3>2, Numbers
      <3>5. QED
        BY <2>1, <3>3, <3>4
    <2>4. write' \in [Clients -> Nat] /\ fed' \in [Clients -> Nat]
      <3>1. write \in [Clients -> Nat] /\ fed \in [Clients -> Nat]
        BY DEF TypeOK
      <3> HIDE DEF n, first
      <3>2. QED
        BY <2>1, <2>2, <3>1
    <2>5. QED
      BY <1>4, <2>3, <2>4 DEF WriteWrapped, TypeOK, Call, Goto, slot
  <1>5. CASE SessionEnd(c) \/ Crash(c)
    <2>1. /\ lease' \in [Clients -> 0..MaxGen] /\ snap' \in [Clients -> FLine]
      <3>1. /\ lease' = [lease EXCEPT ![c] = 0]
            /\ snap' = [snap EXCEPT ![c] = NoFLine]
        BY <1>5 DEF SessionEnd, Crash, ForgetLocals
      <3>2. QED
        BY SMTT(30), <3>1, NoLineInRange, Numbers DEF TypeOK
    <2>4. /\ write' \in [Clients -> Nat] /\ credit' \in [Clients -> Nat]
          /\ after' \in [Clients -> {"out", "first_credit", "loop"}]
          /\ tries' \in [Clients -> Nat] /\ retries' \in [Clients -> Nat]
          /\ waits' \in [Clients -> Nat] /\ fed' \in [Clients -> Nat]
          /\ result' \in [Clients -> {"NONE", "OK", "BAD_HANDLE", "TIMEOUT", "CANCELLED"}]
      <3>1. /\ write' = [write EXCEPT ![c] = 0] /\ credit' = [credit EXCEPT ![c] = 0]
            /\ after' = [after EXCEPT ![c] = "out"]
            /\ tries' = [tries EXCEPT ![c] = 0] /\ retries' = [retries EXCEPT ![c] = 0]
            /\ waits' = [waits EXCEPT ![c] = 0] /\ fed' = [fed EXCEPT ![c] = 0]
            /\ result' = [result EXCEPT ![c] = "NONE"]
        BY <1>5 DEF SessionEnd, Crash, ForgetLocals
      <3>2. QED
        BY <3>1 DEF TypeOK
    <2>2. releases' \subseteq 1..MaxGen
      <3>1. lease[c] \in 0..MaxGen /\ (pc[c] = "end" => lease[c] # 0)
        BY DEF TypeOK, LeaseInv, InSession
      <3>2. \/ releases' = releases
            \/ pc[c] = "end" /\ releases' = releases \cup {lease[c]}
        BY <1>5 DEF SessionEnd, Crash, ReleaseToken, slot
      <3>3. releases \subseteq 1..MaxGen
        BY DEF TypeOK
      <3>4. pc[c] = "end" => lease[c] \in 1..MaxGen
        BY <3>1
      <3>5. QED
        BY <3>2, <3>3, <3>4
    <2>3. QED
      BY <1>5, <2>1, <2>2, <2>4 DEF SessionEnd, Crash, TypeOK, Goto, slot
  <1>6. QED
    BY <1>1, <1>2, <1>3, <1>4, <1>5

LEMMA FirmwareKeepsType ==
    ASSUME TypeOK, FirmwareLineInv, FwStep \/ FwRevoke \/ FwRelease
    PROVE  TypeOK'
  <1>1. CASE FwSequence \/ FwGenerationHi \/ FwLo
    <2>1. fSnap' \in Line
      <3>1. pLine \in Line /\ fSnap \in Line
        BY DEF TypeOK
      <3>2. \/ fSnap' = [NoPLine EXCEPT !.seq = pLine.seq]
            \/ fSnap' = [fSnap EXCEPT !.gen = pLine.gen, !.hi = pLine.hi]
            \/ fSnap' = [fSnap EXCEPT !.lo = pLine.lo]
        BY <1>1 DEF FwSequence, FwGenerationHi, FwLo
      <3>3. QED
        BY <3>1, <3>2, NoLineInRange DEF Line
    <2>2. QED
      BY <1>1, <2>1 DEF FwSequence, FwGenerationHi, FwLo, fwRest, TypeOK, cursors, loop
  <1>2. CASE FwAdopt
    <2>1. Cursor(fSnap) \in Nat /\ fSnap' \in Line
      BY <1>2, CursorInRange, NoLineInRange DEF FwAdopt, TypeOK, Line
    <2>2. /\ fpc' = "idle" \/ fpc' = "put_odd"
          /\ holder' = holder \/ holder' = Nobody
          /\ adopted' = adopted \/ adopted' = Cursor(fSnap)
          /\ played' = played \/ played' = played + Period
          /\ fOut' = fOut \/ fOut' = "OK" \/ fOut' = "FAULT_CURSOR"
      BY <1>2 DEF FwAdopt
    <2>3. adopted' \in Nat /\ played' \in Nat
      BY SMTT(30), <2>1, <2>2, Numbers DEF TypeOK
    <2>4. QED
      BY <1>2, <2>1, <2>2, <2>3 DEF FwAdopt, fwRest, TypeOK, cursors, loop
  <1>3. CASE FwRevoke
    BY <1>3 DEF FwRevoke, fwRest, TypeOK, cursors, loop
  <1>4. CASE FwRelease
    <2>1. holder' \in Clients \cup {Nobody} /\ releases' \subseteq releases
      BY <1>4 DEF FwRelease, TypeOK
    <2>2. QED
      BY <1>4, <2>1 DEF FwRelease, TypeOK, cursors, loop
  <1>5. CASE FwPublishOdd \/ FwPublishHi \/ FwPublishLo \/ FwPublishEven
    <2>1. fLine' \in FLine
      <3>1. fLine \in FLine /\ gen \in 0..MaxGen /\ played \in Nat
            /\ fOut \in {"OK", "REVOKED", "FAULT_CURSOR"}
        BY DEF TypeOK
      <3>2. /\ NextEven(fLine.seq) \in Nat /\ NextEven(fLine.seq) <= SeqLimit - 2
            /\ Hi(played) \in Nat /\ Lo(played) \in 0..(CursorBase - 1)
        BY <3>1, NextEvenIsEven, WordsInRange DEF FLine
      <3>3. CASE FwPublishOdd
        BY <3>1, <3>2, <3>3, Numbers DEF FwPublishOdd, FLine
      <3>4. CASE FwPublishHi \/ FwPublishLo
        BY <3>1, <3>2, <3>4 DEF FwPublishHi, FwPublishLo, FLine
      <3>5. CASE FwPublishEven
        <4>1. fLine.seq - 1 \in 0..(SeqLimit - 1)
          <5>1. fLine.seq % 2 = 1
            BY <3>5 DEF FwPublishEven, FirmwareLineInv, FirmwareLineOK, Putting
          <5>2. fLine.seq \in 0..(SeqLimit - 1)
            BY <3>1 DEF FLine
          <5>3. QED
            BY <5>1, <5>2, Numbers
        <4>2. QED
          BY <3>1, <3>5, <4>1 DEF FwPublishEven, FLine
      <3>6. QED
        BY <1>5, <3>3, <3>4, <3>5
    <2>2. QED
      BY <1>5, <2>1 DEF FwPublishOdd, FwPublishHi, FwPublishLo, FwPublishEven, fwRest,
                        TypeOK, cursors, loop
  <1>6. QED
    BY <1>1, <1>2, <1>3, <1>4, <1>5 DEF FwStep

---------------------------------------------------------------------------
\* Leases, and the room between the two parts of a write.

LEMMA InitLease == Init => LeaseInv /\ WriteInv
  BY Numbers DEF Init, InitAt, LeaseInv, WriteInv, InSession

LEMMA BeginKeepsLease ==
    ASSUME TypeOK, LeaseInv, NEW c \in Clients, SessionBegin(c)
    PROVE  LeaseInv'
  <1>1. /\ lease' = [lease EXCEPT ![c] = gen + 1] /\ gen' = gen + 1 /\ holder' = c
        /\ pc' = [pc EXCEPT ![c] = "publish"] /\ releases' = releases
    BY DEF SessionBegin, Call, Goto
  <1>2. /\ gen \in Nat /\ lease \in [Clients -> Nat] /\ releases \subseteq Nat
        /\ pc \in [Clients -> Places]
    BY DEF TypeOK, Places, InSession
  <1>3. \A d \in Clients : /\ lease'[d] = IF d = c THEN gen + 1 ELSE lease[d]
                           /\ pc'[d] = IF d = c THEN "publish" ELSE pc[d]
    BY <1>1, <1>2
  <1>4. \A d \in Clients : lease[d] # gen + 1 /\ lease'[d] <= gen'
    BY <1>1, <1>2, <1>3 DEF LeaseInv
  <1>5. \A d \in Clients : lease'[d] # 0 <=> pc'[d] \in InSession
    BY <1>2, <1>3 DEF LeaseInv, InSession
  <1>10. \A d \in Clients : pc'[d] \in InSession => after'[d] # "out"
    <2>1. \A d \in Clients : after'[d] = IF d = c THEN "first_credit" ELSE after[d]
      BY DEF SessionBegin, Call, TypeOK
    <2>2. QED
      BY <1>3, <2>1 DEF LeaseInv
  <1>6. \A d, e \in Clients : lease'[d] # 0 /\ lease'[d] = lease'[e] => d = e
    BY <1>3, <1>4 DEF LeaseInv
  <1>7. \A d \in Clients : holder' = d => lease'[d] = gen'
    BY <1>1, <1>3
  <1>8. \A g \in releases' : g <= gen' /\ \A d \in Clients : lease'[d] # g
    BY <1>1, <1>2, <1>3 DEF LeaseInv
  <1>9. QED
    BY <1>4, <1>5, <1>6, <1>7, <1>8, <1>10 DEF LeaseInv

\* A step of a client within its session.
LEMMA MoveKeepsLease ==
    ASSUME TypeOK, LeaseInv, NEW c \in Clients, NEW to \in InSession,
           pc[c] \in InSession, pc' = [pc EXCEPT ![c] = to],
           UNCHANGED <<lease, gen, holder, releases>>,
           after' = after \/ \E place \in {"first_credit", "loop"} :
                                after' = [after EXCEPT ![c] = place]
    PROVE  LeaseInv'
  <1>1. \A d \in Clients : pc'[d] = IF d = c THEN to ELSE pc[d]
    BY DEF TypeOK
  <1>2. \A d \in Clients : lease'[d] # 0 <=> pc'[d] \in InSession
    BY <1>1 DEF LeaseInv
  <1>3. \A d \in Clients : holder' = d => lease'[d] = gen' \/ pc'[d] \in {"done", "dead"}
    BY <1>1 DEF LeaseInv, InSession
  <1>4. \A d \in Clients : pc'[d] \in InSession => after'[d] # "out"
    <2>1. \A d \in Clients : after[d] # "out" => after'[d] # "out"
      BY DEF TypeOK
    <2>2. QED
      BY <1>1, <2>1 DEF LeaseInv
  <1>5. QED
    BY <1>2, <1>3, <1>4 DEF LeaseInv

\* The end of a session, called or not.
LEMMA EndKeepsLease ==
    ASSUME TypeOK, LeaseInv, NEW c \in Clients, SessionEnd(c) \/ Crash(c)
    PROVE  LeaseInv'
  <1>1. /\ lease' = [lease EXCEPT ![c] = 0] /\ gen' = gen /\ holder' = holder
        /\ pc' = [pc EXCEPT ![c] = "done"] \/ pc' = [pc EXCEPT ![c] = "dead"]
        /\ releases' = releases \/ releases' = releases \cup {lease[c]}
        /\ pc[c] \notin {"out", "done", "dead"}
    BY DEF SessionEnd, Crash, ForgetLocals, Goto, ReleaseToken, slot
  <1>2. /\ gen \in Nat /\ lease \in [Clients -> Nat] /\ pc \in [Clients -> Places]
    BY DEF TypeOK, Places, InSession
  <1>3. \A d \in Clients : /\ lease'[d] = IF d = c THEN 0 ELSE lease[d]
                           /\ d # c => pc'[d] = pc[d]
                           /\ d = c => pc'[d] \in {"done", "dead"}
    BY <1>1, <1>2
  <1>4. lease[c] # 0
    BY <1>1, <1>2 DEF LeaseInv, Places
  <1>5. \A d \in Clients : lease'[d] # 0 <=> pc'[d] \in InSession
    BY <1>3 DEF LeaseInv, InSession
  <1>6. \A d \in Clients : lease'[d] <= gen'
    BY <1>1, <1>2, <1>3 DEF LeaseInv
  <1>7. \A d, e \in Clients : lease'[d] # 0 /\ lease'[d] = lease'[e] => d = e
    BY <1>3 DEF LeaseInv
  <1>8. \A d \in Clients : holder' = d => lease'[d] = gen' \/ pc'[d] \in {"done", "dead"}
    BY <1>1, <1>3 DEF LeaseInv
  <1>9. \A g \in releases' : g <= gen' /\ \A d \in Clients : lease'[d] # g
    <2>1. \A g \in releases : g # 0 /\ g <= gen /\ \A d \in Clients : lease[d] # g
      BY DEF LeaseInv, TypeOK
    <2>2. lease[c] <= gen /\ \A d \in Clients : d # c => lease[d] # lease[c]
      BY <1>4 DEF LeaseInv
    <2>3. QED
      BY <1>1, <1>3, <1>4, <2>1, <2>2
  <1>10. \A d \in Clients : pc'[d] \in InSession => after'[d] # "out"
    <2>1. \A d \in Clients : d # c => after'[d] = after[d]
      BY DEF SessionEnd, Crash, ForgetLocals, TypeOK
    <2>2. QED
      BY <1>3, <2>1 DEF LeaseInv, InSession
  <1>11. QED
    BY <1>5, <1>6, <1>7, <1>8, <1>9, <1>10 DEF LeaseInv

LEMMA FirmwareKeepsLease ==
    ASSUME TypeOK, LeaseInv, FwStep \/ FwRevoke \/ FwRelease
    PROVE  LeaseInv'
  <1>1. /\ UNCHANGED <<lease, gen, pc, after>> /\ releases' \subseteq releases
        /\ holder' = holder \/ holder' = Nobody
    BY DEF FwStep, FwRevoke, FwRelease, FwSequence, FwGenerationHi, FwLo, FwAdopt,
           FwPublishOdd, FwPublishHi, FwPublishLo, FwPublishEven, fwRest, cursors
  <1>2. Nobody \notin Clients
    BY Numbers
  <1>3. QED
    BY <1>1, <1>2 DEF LeaseInv

LEMMA ClientKeepsLease ==
    ASSUME TypeOK, LeaseInv, NEW c \in Clients, ClientStep(c)
    PROVE  LeaseInv'
  <1>1. CASE SessionEnd(c)
    BY <1>1, EndKeepsLease
  <1>2. CASE \/ PublishOdd(c) \/ PublishGenerationHi(c) \/ PublishCursorLo(c)
             \/ CreditSequence(c) \/ CreditGenerationHi(c) \/ CreditLoStatus(c)
             \/ CreditTaken(c) \/ CreditRevoked(c) \/ CreditTorn(c)
             \/ LoopAgain(c) \/ WaitForCredit(c) \/ WriteFirst(c) \/ WriteWrapped(c)
             \/ Drained(c)
    <2>1. \E to \in InSession : pc' = [pc EXCEPT ![c] = to]
      BY <1>2 DEF PublishOdd, PublishGenerationHi, PublishCursorLo, CreditSequence,
        CreditGenerationHi, CreditLoStatus, CreditTaken, CreditRevoked, CreditTorn,
        LoopAgain, WaitForCredit, WriteFirst, WriteWrapped, Drained, Goto, Call, Finish,
        InSession
    <2>2. pc[c] \in InSession /\ UNCHANGED <<lease, gen, holder, releases>>
      BY <1>2 DEF PublishOdd, PublishGenerationHi, PublishCursorLo, CreditSequence,
        CreditGenerationHi, CreditLoStatus, CreditTaken, CreditRevoked, CreditTorn,
        LoopAgain, WaitForCredit, WriteFirst, WriteWrapped, Drained, InSession, slot, cursors
    <2>3. after' = after \/ after' = [after EXCEPT ![c] = "loop"]
      BY <1>2 DEF PublishOdd, PublishGenerationHi, PublishCursorLo, CreditSequence,
        CreditGenerationHi, CreditLoStatus, CreditTaken, CreditRevoked, CreditTorn,
        LoopAgain, WaitForCredit, WriteFirst, WriteWrapped, Drained, Call
    <2>4. QED
      BY <2>1, <2>2, <2>3, MoveKeepsLease
  <1>3. CASE PublishEven(c)
    <2>1. pc[c] = "put_even" /\ UNCHANGED <<lease, gen, holder, releases>>
      BY <1>3 DEF PublishEven, slot, cursors
    <2>2. after[c] \in {"first_credit", "loop"}
      BY <2>1 DEF LeaseInv, TypeOK, InSession
    <2>3. /\ pc' = [pc EXCEPT ![c] = "credit"] \/ pc' = [pc EXCEPT ![c] = "loop"]
          /\ after' = after \/ after' = [after EXCEPT ![c] = "first_credit"]
      BY <1>3, <2>2 DEF PublishEven, Goto, Call
    <2>4. QED
      BY <2>1, <2>3, MoveKeepsLease DEF InSession
  <1>4. QED
    BY <1>1, <1>2, <1>3 DEF ClientStep

\* A client's step changes no local variable of another.
LEMMA OthersStay ==
    ASSUME TypeOK, NEW c \in Clients, SessionBegin(c) \/ ClientStep(c) \/ Crash(c),
           NEW d \in Clients, d # c
    PROVE  /\ pc'[d] = pc[d] /\ lease'[d] = lease[d] /\ snap'[d] = snap[d]
           /\ write'[d] = write[d] /\ credit'[d] = credit[d] /\ fed'[d] = fed[d]
           /\ result'[d] = result[d]
  <1>1. /\ pc'[d] = pc[d] /\ lease'[d] = lease[d]
    BY DEF TypeOK, SessionBegin, Crash, ClientStep, PublishOdd, PublishGenerationHi,
      PublishCursorLo, PublishEven, CreditSequence, CreditGenerationHi, CreditLoStatus,
      CreditTaken, CreditRevoked, CreditTorn, LoopAgain, WaitForCredit, WriteFirst,
      WriteWrapped, Drained, SessionEnd, Goto, Call, Finish, ForgetLocals, cursors
  <1>2. snap'[d] = snap[d]
    BY DEF TypeOK, SessionBegin, Crash, ClientStep, PublishOdd, PublishGenerationHi,
      PublishCursorLo, PublishEven, CreditSequence, CreditGenerationHi, CreditLoStatus,
      CreditTaken, CreditRevoked, CreditTorn, LoopAgain, WaitForCredit, WriteFirst,
      WriteWrapped, Drained, SessionEnd, ForgetLocals
  <1>3. write'[d] = write[d] /\ credit'[d] = credit[d]
    BY DEF TypeOK, SessionBegin, Crash, ClientStep, PublishOdd, PublishGenerationHi,
      PublishCursorLo, PublishEven, CreditSequence, CreditGenerationHi, CreditLoStatus,
      CreditTaken, CreditRevoked, CreditTorn, LoopAgain, WaitForCredit, WriteFirst,
      WriteWrapped, Drained, SessionEnd, ForgetLocals, cursors
  <1>4. fed'[d] = fed[d] /\ result'[d] = result[d]
    BY DEF TypeOK, SessionBegin, Crash, ClientStep, PublishOdd, PublishGenerationHi,
      PublishCursorLo, PublishEven, CreditSequence, CreditGenerationHi, CreditLoStatus,
      CreditTaken, CreditRevoked, CreditTorn, LoopAgain, WaitForCredit, WriteFirst,
      WriteWrapped, Drained, SessionEnd, Finish, ForgetLocals, loop
  <1>5. QED
    BY <1>1, <1>2, <1>3, <1>4

LEMMA ClientKeepsWrite ==
    ASSUME TypeOK, LeaseInv, WriteInv, NEW c \in Clients,
           SessionBegin(c) \/ ClientStep(c) \/ Crash(c)
    PROVE  WriteInv'
  <1>1. ASSUME NEW d \in Clients, d # c, pc'[d] = "wrap"
        PROVE  fed'[d] < Target /\ FreeBytes(d)' >= Required(d)'
    BY <1>1, OthersStay DEF WriteInv, FreeBytes, Outstanding, Required
  <1>2. ASSUME pc'[c] = "wrap"
        PROVE  fed'[c] < Target /\ FreeBytes(c)' >= Required(c)'
    <2>1. WriteFirst(c)
      <3>1. pc \in [Clients -> Places] /\ after[c] # "wrap"
        BY DEF TypeOK, Places, InSession
      <3>2. QED
        BY <1>2, <3>1 DEF SessionBegin, Crash, ClientStep, PublishOdd, PublishGenerationHi,
          PublishCursorLo, PublishEven, CreditSequence, CreditGenerationHi, CreditLoStatus,
          CreditTaken, CreditRevoked, CreditTorn, LoopAgain, WaitForCredit,
          WriteWrapped, Drained, SessionEnd, Goto, Call, Finish
    <2>2. QED
      BY <2>1 DEF WriteFirst, FreeBytes, Outstanding, Required, cursors
  <1>3. QED
    BY <1>1, <1>2 DEF WriteInv

LEMMA FirmwareKeepsWrite ==
    ASSUME WriteInv, FwStep \/ FwRevoke \/ FwRelease
    PROVE  WriteInv'
  <1>1. UNCHANGED <<pc, write, credit, fed>>
    BY DEF FwStep, FwRevoke, FwRelease, FwSequence, FwGenerationHi, FwLo, FwAdopt,
           FwPublishOdd, FwPublishHi, FwPublishLo, FwPublishEven, fwRest, cursors, loop
  <1>2. QED
    BY <1>1 DEF WriteInv, FreeBytes, Outstanding, Required

---------------------------------------------------------------------------
\* The firmware line and its readers.

LEMMA InitFirmwareLine == Init => FirmwareLineInv
  <1> SUFFICES ASSUME Init PROVE FirmwareLineInv
    OBVIOUS
  <1>1. fLine.seq = FirstSeq /\ FirstSeq % 2 = 0 /\ fLine.gen = 0 /\ fLine.hi = 0 /\ fLine.lo = 0
    BY AudioRingAssumption DEF Init, InitAt, NoFLine
  <1>2. Cursor(fLine) = 0
    BY <1>1, Numbers DEF Cursor
  <1>3. QED
    BY <1>1, <1>2 DEF Init, InitAt, FirmwareLineInv, FirmwareLineOK, CreditReadOK, Putting,
                      Reading

LEMMA BeginKeepsFirmwareLine ==
    ASSUME TypeOK, FirmwareLineInv, NEW c \in Clients, SessionBegin(c)
    PROVE  FirmwareLineInv'
  <1>1. fLine.seq \in 0..(SeqLimit - 1)
    BY DEF TypeOK, FLine
  <1>2. /\ fLine'.seq = NextEven(fLine.seq) /\ NextEven(fLine.seq) % 2 = 0
        /\ fLine'.gen = gen' /\ fLine'.hi = 0 /\ fLine'.lo = 0 /\ played' = 0
        /\ fpc' = fpc /\ fpc = "idle"
    BY <1>1, NextEvenIsEven DEF SessionBegin
  <1>3. Cursor(fLine)' = 0
    BY <1>2, Numbers DEF Cursor
  <1>4. FirmwareLineOK'
    BY <1>2, <1>3 DEF FirmwareLineOK, Putting
  <1>5. pc'[c] = "publish"
    BY DEF SessionBegin, Call, Goto, TypeOK
  <1>6. ASSUME NEW d \in Clients, d # c PROVE CreditReadOK(d)'
    <2>1. pc'[d] = pc[d] /\ snap'[d] = snap[d]
      BY <1>6, OthersStay
    <2>2. pc[d] \in Reading => snap[d].seq # fLine'.seq
      BY <1>2 DEF SessionBegin, FirmwareMayPublish
    <2>3. QED
      BY <1>2, <2>1, <2>2 DEF CreditReadOK, Stable, Putting
  <1>7. QED
    BY <1>4, <1>5, <1>6 DEF FirmwareLineInv, CreditReadOK, Reading

\* A client reads the line and never writes it.
LEMMA ClientKeepsFirmwareLine ==
    ASSUME TypeOK, LeaseInv, FirmwareLineInv, NEW c \in Clients, ClientStep(c) \/ Crash(c)
    PROVE  FirmwareLineInv'
  <1>1. UNCHANGED <<fLine, gen, fpc, played>>
    BY DEF Crash, ClientStep, PublishOdd, PublishGenerationHi, PublishCursorLo, PublishEven,
      CreditSequence, CreditGenerationHi, CreditLoStatus, CreditTaken, CreditRevoked,
      CreditTorn, LoopAgain, WaitForCredit, WriteFirst, WriteWrapped, Drained, SessionEnd,
      slot
  <1>2. FirmwareLineOK'
    BY <1>1 DEF FirmwareLineInv, FirmwareLineOK, Cursor
  <1>3. ASSUME NEW d \in Clients, d # c PROVE CreditReadOK(d)'
    BY <1>1, <1>3, OthersStay DEF FirmwareLineInv, CreditReadOK
  <1>4. CreditReadOK(c)'
    <2>1. snap[c] \in FLine /\ snap \in [Clients -> FLine] /\ fLine \in FLine
      BY DEF TypeOK
    <2>2. CASE CreditSequence(c)
      <3>1. /\ pc'[c] = "get_words" /\ snap'[c].seq = fLine.seq
        BY <2>1, <2>2 DEF CreditSequence, Goto, TypeOK
      <3>2. fLine.seq # fLine.seq - 1
        BY <2>1 DEF FLine
      <3>3. QED
        BY <1>1, <3>1, <3>2 DEF CreditReadOK
    <2>3. CASE CreditGenerationHi(c)
      <3>1. /\ pc'[c] = "get_lo" /\ pc[c] = "get_words" /\ snap'[c].seq = snap[c].seq
            /\ snap'[c].gen = fLine.gen /\ snap'[c].hi = fLine.hi
        BY <2>1, <2>3 DEF CreditGenerationHi, Goto, TypeOK, FLine
      <3>2. QED
        BY <1>1, <3>1 DEF FirmwareLineInv, CreditReadOK, Reading
    <2>4. CASE CreditLoStatus(c)
      <3>1. /\ pc'[c] = "get_seq" /\ pc[c] = "get_lo" /\ snap'[c].seq = snap[c].seq
            /\ snap'[c].gen = snap[c].gen /\ snap'[c].hi = snap[c].hi
            /\ snap'[c].lo = fLine.lo /\ snap'[c].status = fLine.status
        BY <2>1, <2>4 DEF CreditLoStatus, Goto, TypeOK, FLine
      <3>2. QED
        BY <1>1, <3>1 DEF FirmwareLineInv, CreditReadOK, Reading
    <2>5. CASE ~CreditSequence(c) /\ ~CreditGenerationHi(c) /\ ~CreditLoStatus(c)
      <3>1. pc \in [Clients -> Places] /\ after[c] \notin Reading
        BY DEF TypeOK, Places, InSession, Reading
      <3>2. pc'[c] \notin Reading
        BY <2>5, <3>1 DEF Crash, ClientStep, PublishOdd, PublishGenerationHi,
          PublishCursorLo, PublishEven, CreditTaken, CreditRevoked, CreditTorn, LoopAgain,
          WaitForCredit, WriteFirst, WriteWrapped, Drained, SessionEnd, Goto, Call, Finish,
          Reading
      <3>3. QED
        BY <3>2 DEF CreditReadOK
    <2>6. QED
      BY <2>2, <2>3, <2>4, <2>5
  <1>5. QED
    BY <1>2, <1>3, <1>4 DEF FirmwareLineInv

LEMMA FirmwareKeepsFirmwareLine ==
    ASSUME TypeOK, FirmwareLineInv, FwStep \/ FwRevoke \/ FwRelease
    PROVE  FirmwareLineInv'
  <1>1. /\ UNCHANGED <<pc, snap, gen>> /\ fLine \in FLine /\ played \in Nat
        /\ fLine.seq \in 0..(SeqLimit - 1)
    BY DEF FwStep, FwRevoke, FwRelease, FwSequence, FwGenerationHi, FwLo, FwAdopt,
           FwPublishOdd, FwPublishHi, FwPublishLo, FwPublishEven, fwRest, TypeOK, FLine
  <1>2. CASE FwSequence \/ FwGenerationHi \/ FwLo \/ FwRevoke \/ FwRelease
    <2>1. /\ UNCHANGED <<fLine, played>>
          /\ fpc' \in Putting <=> fpc \in Putting
          /\ fpc' = fpc \/ fpc' \notin Putting
      BY <1>2 DEF FwSequence, FwGenerationHi, FwLo, FwRevoke, FwRelease, Putting
    <2>2. FirmwareLineOK'
      BY <1>1, <2>1 DEF FirmwareLineInv, FirmwareLineOK, Cursor, Putting
    <2>3. \A c \in Clients : CreditReadOK(c)'
      BY <1>1, <2>1 DEF FirmwareLineInv, CreditReadOK
    <2>4. QED
      BY <2>2, <2>3 DEF FirmwareLineInv
  <1>3. CASE FwAdopt
    <2>1. /\ fLine' = fLine /\ fpc = "get_seq" /\ fpc' \in {"idle", "put_odd"}
          /\ played' = played \/ played' = played + Period
      BY <1>3 DEF FwAdopt
    <2>2. Cursor(fLine) \in Nat /\ Cursor(fLine)' = Cursor(fLine)
      BY <1>1, <2>1, CursorInRange DEF FLine, Cursor
    <2>3. FirmwareLineOK'
      BY <1>1, <2>1, <2>2, Numbers DEF FirmwareLineInv, FirmwareLineOK, Putting
    <2>4. \A c \in Clients : CreditReadOK(c)'
      BY <1>1, <2>1 DEF FirmwareLineInv, CreditReadOK, Putting
    <2>5. QED
      BY <2>3, <2>4 DEF FirmwareLineInv
  <1>4. CASE FwPublishOdd
    <2>1. /\ fLine'.seq = NextEven(fLine.seq) + 1 /\ fLine'.gen = fLine.gen
          /\ fpc' = "put_hi" /\ played' = played /\ NextEven(fLine.seq) \in Nat
          /\ (NextEven(fLine.seq) + 1) % 2 = 1
      BY <1>1, <1>4, NextEvenIsEven DEF FwPublishOdd, FLine
    <2>2. FirmwareLineOK'
      BY <1>1, <2>1 DEF FirmwareLineInv, FirmwareLineOK, Putting
    <2>3. ASSUME NEW c \in Clients PROVE CreditReadOK(c)'
      <3>1. pc[c] \in Reading => snap[c].seq # fLine'.seq - 1
        BY <1>4, <2>1 DEF FwPublishOdd, FirmwareMayPublish
      <3>2. QED
        BY <1>1, <2>1, <3>1 DEF CreditReadOK, Stable
    <2>4. QED
      BY <2>2, <2>3 DEF FirmwareLineInv
  <1>5. CASE FwPublishHi \/ FwPublishLo
    <2>1. /\ fLine'.seq = fLine.seq /\ fLine'.gen = gen /\ played' = played
          /\ fpc \in Putting /\ fpc' \in Putting
          /\ fpc' = "put_lo" => fLine'.hi = Hi(played)
          /\ fpc' = "put_even" => /\ fLine'.hi = fLine.hi /\ fLine'.lo = Lo(played)
                                  /\ fpc = "put_lo"
      BY <1>1, <1>5 DEF FwPublishHi, FwPublishLo, FLine, Putting, FirmwareLineInv,
                        FirmwareLineOK
    <2>2. FirmwareLineOK'
      BY <1>1, <2>1 DEF FirmwareLineInv, FirmwareLineOK, Putting
    <2>3. fLine.seq % 2 = 1
      BY <2>1 DEF FirmwareLineInv, FirmwareLineOK
    <2>4. ASSUME NEW c \in Clients PROVE CreditReadOK(c)'
      <3>1. CreditReadOK(c)
        BY DEF FirmwareLineInv
      <3>2. QED
        BY <1>1, <2>1, <2>3, <3>1 DEF CreditReadOK, Stable
    <2>5. QED
      BY <2>2, <2>4 DEF FirmwareLineInv
  <1>6. CASE FwPublishEven
    <2>1. /\ fpc = "put_even" /\ fLine.seq % 2 = 1 /\ fLine.hi = Hi(played)
          /\ fLine.lo = Lo(played) /\ fLine.gen = gen
      BY <1>6 DEF FwPublishEven, FirmwareLineInv, FirmwareLineOK, Putting
    <2>2. /\ fLine'.seq = fLine.seq - 1 /\ fLine'.gen = gen /\ fLine'.hi = Hi(played)
          /\ fLine'.lo = Lo(played) /\ fpc' = "idle" /\ played' = played
      BY <1>1, <1>6, <2>1 DEF FwPublishEven, FLine
    <2>3. fLine'.seq % 2 = 0
      BY <1>1, <2>1, <2>2
    <2>4. Cursor(fLine)' = played
      BY <1>1, <2>2, WordsOfCursor DEF Cursor
    <2>5. FirmwareLineOK'
      BY <1>1, <2>2, <2>3, <2>4 DEF FirmwareLineOK, Putting
    <2>6. ASSUME NEW c \in Clients PROVE CreditReadOK(c)'
      <3>1. pc[c] \in Reading => snap[c].seq # fLine'.seq
        BY <2>1, <2>2 DEF FirmwareLineInv, CreditReadOK, Putting
      <3>2. QED
        BY <1>1, <2>2, <3>1 DEF CreditReadOK, Stable, Putting
    <2>7. QED
      BY <2>5, <2>6 DEF FirmwareLineInv
  <1>7. QED
    BY <1>2, <1>3, <1>4, <1>5, <1>6 DEF FwStep

---------------------------------------------------------------------------
\* What holds even when the slot is granted again at once.

LEMMA LineInvStep == LineInv /\ [Next]_vars => LineInv'
  <1> SUFFICES ASSUME LineInv, [Next]_vars PROVE LineInv'
    OBVIOUS
  <1>1. TypeOK /\ LeaseInv /\ WriteInv /\ FirmwareLineInv
    BY DEF LineInv
  <1>2. ASSUME NEW c \in Clients, SessionBegin(c) \/ ClientStep(c) \/ Crash(c)
        PROVE  LineInv'
    <2>1. TypeOK'
      BY <1>1, <1>2, BeginKeepsType, PublishKeepsType, CreditKeepsType, LoopKeepsType
      DEF ClientStep
    <2>2. LeaseInv'
      BY <1>1, <1>2, BeginKeepsLease, ClientKeepsLease, EndKeepsLease
    <2>3. WriteInv'
      BY <1>1, <1>2, ClientKeepsWrite
    <2>4. FirmwareLineInv'
      BY <1>1, <1>2, BeginKeepsFirmwareLine, ClientKeepsFirmwareLine
    <2>5. QED
      BY <2>1, <2>2, <2>3, <2>4 DEF LineInv
  <1>3. CASE FwStep \/ FwRevoke \/ FwRelease
    BY <1>1, <1>3, FirmwareKeepsType, FirmwareKeepsLease, FirmwareKeepsWrite,
       FirmwareKeepsFirmwareLine DEF LineInv
  <1>4. CASE UNCHANGED vars
    <2>1. TypeOK' /\ LeaseInv'
      BY <1>1, <1>4 DEF vars, TypeOK, LeaseInv
    <2>2. WriteInv' /\ FirmwareLineInv'
      BY <1>1, <1>4 DEF vars, WriteInv, FreeBytes, Outstanding, Required, FirmwareLineInv,
                        FirmwareLineOK, CreditReadOK, Cursor
    <2>3. QED
      BY <2>1, <2>2 DEF LineInv
  <1>5. QED
    BY <1>2, <1>3, <1>4 DEF Next

LEMMA LineInvariant == Spec => []LineInv
  <1>1. Init => LineInv
    BY InitType, InitLease, InitFirmwareLine DEF LineInv
  <1>2. QED
    BY <1>1, LineInvStep, PTL DEF Spec

\* Every variable has its type: cursors are never negative, sequence words stay
\* in their width, a release in flight names a lease that was granted.
THEOREM TypeCorrect == Spec => []TypeOK
  <1>1. LineInv => TypeOK
    BY DEF LineInv
  <1>2. QED
    BY <1>1, LineInvariant, PTL

\* A credit read that is adopted is of the reader's own lease: once
\* zz9k_audio_ring_take_credits sees the slot with another generation, nothing
\* the firmware says is taken for the old lease, however the words it reads are
\* interleaved with publications.
THEOREM CreditIsOfOwnLease == Spec => NoCreditFromLaterLease
  <1> DEFINE Kept == \A c \in Clients : lease[c] \notin {0, gen} /\ lease'[c] = lease[c]
                        => credit'[c] = credit[c]
  <1>1. LineInv /\ [Next]_vars => [Kept]_vars
    <2> SUFFICES ASSUME LineInv, Next PROVE Kept
      BY DEF vars
    <2> SUFFICES ASSUME NEW c \in Clients, lease[c] # 0, lease[c] # gen,
                        lease'[c] = lease[c]
                 PROVE  credit'[c] = credit[c]
      OBVIOUS
    <2>1. TypeOK /\ FirmwareLineInv
      BY DEF LineInv
    <2>2. CASE FwStep \/ FwRevoke \/ FwRelease
      BY <2>2 DEF FwStep, FwRevoke, FwRelease, FwSequence, FwGenerationHi, FwLo, FwAdopt,
        FwPublishOdd, FwPublishHi, FwPublishLo, FwPublishEven, fwRest, cursors
    <2>3. ASSUME NEW d \in Clients, SessionBegin(d) \/ ClientStep(d) \/ Crash(d)
          PROVE  credit'[c] = credit[c]
      <3>1. CASE d # c
        BY <2>1, <2>3, <3>1, OthersStay
      <3>2. CASE d = c /\ (SessionBegin(c) \/ SessionEnd(c) \/ Crash(c))
        <4>1. lease'[c] \in {0, gen + 1}
          BY <2>1, <3>2 DEF SessionBegin, SessionEnd, Crash, ForgetLocals, TypeOK
        <4>2. lease[c] <= gen /\ gen \in Nat
          BY DEF LineInv, LeaseInv, TypeOK
        <4>3. QED
          BY <4>1, <4>2
      <3>3. CASE d = c /\ CreditTaken(c)
        <4>1. snap[c].gen = lease[c] /\ snap[c].gen = fLine.gen /\ fLine.gen = gen
          BY <2>1, <3>3 DEF CreditTaken, SnapshotGood, FirmwareLineInv, FirmwareLineOK,
                            CreditReadOK, Reading
        <4>2. QED
          BY <4>1
      <3>4. CASE d = c /\ ClientStep(c) /\ ~CreditTaken(c) /\ ~SessionEnd(c)
        BY <3>4 DEF ClientStep, PublishOdd, PublishGenerationHi, PublishCursorLo,
          PublishEven, CreditSequence, CreditGenerationHi, CreditLoStatus, CreditRevoked,
          CreditTorn, LoopAgain, WaitForCredit, WriteFirst, WriteWrapped, Drained, cursors
      <3>5. QED
        BY <2>3, <3>1, <3>2, <3>3, <3>4
    <2>4. QED
      BY <2>2, <2>3 DEF Next
  <1>2. QED
    BY <1>1, LineInvariant, PTL DEF Spec, NoCreditFromLaterLease

\* zz9k_audio_ring_session_end releases its own generation, and a release that is
\* served late finds either its own lease or nothing to release: a live holder
\* loses the slot only to the firmware's own checks.
THEOREM LateReleaseIsHarmless == Spec => OnlyOwnLeaseEnds
  <1> DEFINE Own(c) == (holder = c /\ holder' # c)
                        => \/ pc[c] \in {"done", "dead"}
                           \/ fpc = "get_seq" /\ fOut' = "FAULT_CURSOR"
                           \/ fpc = "idle" /\ fpc' = "put_odd" /\ fOut' = "REVOKED"
  <1>1. LineInv /\ [Next]_vars => [\A c \in Clients : Own(c)]_vars
    <2> SUFFICES ASSUME LineInv, Next, NEW c \in Clients, holder = c, holder' # c
                 PROVE  Own(c)
      BY DEF vars
    <2>1. Nobody # c
      BY Numbers
    <2>2. ASSUME NEW d \in Clients, SessionBegin(d) \/ ClientStep(d) \/ Crash(d)
          PROVE  FALSE
      BY <2>1, <2>2 DEF SessionBegin, ClientStep, Crash, PublishOdd, PublishGenerationHi,
        PublishCursorLo, PublishEven, CreditSequence, CreditGenerationHi, CreditLoStatus,
        CreditTaken, CreditRevoked, CreditTorn, LoopAgain, WaitForCredit, WriteFirst,
        WriteWrapped, Drained, SessionEnd, slot
    <2>3. CASE FwStep
      BY <2>3 DEF FwStep, FwSequence, FwGenerationHi, FwLo, FwAdopt, FwPublishOdd,
        FwPublishHi, FwPublishLo, FwPublishEven
    <2>4. CASE FwRevoke
      BY <2>4 DEF FwRevoke
    <2>5. CASE FwRelease
      BY <2>5 DEF FwRelease, LineInv, LeaseInv
    <2>6. QED
      BY <2>2, <2>3, <2>4, <2>5 DEF Next
  <1>2. QED
    BY <1>1, LineInvariant, PTL DEF Spec, OnlyOwnLeaseEnds

---------------------------------------------------------------------------
\* One session at a time: the producer line and its reader.

LEMMA OneClient ==
    ASSUME TypeOK, LeaseInv, OneSession, NEW c \in Clients, pc[c] \in InSession,
           NEW d \in Clients, d # c
    PROVE  pc[d] \notin InSession
  BY DEF LeaseInv, OneSession

LEMMA BeginKeepsOneSession ==
    ASSUME TypeOK, ~ReuseWhileHeld, NEW c \in Clients, SessionBegin(c)
    PROVE  /\ OneSession'
           /\ \A d \in Clients : lease[d] = 0 /\ (d # c => lease'[d] = 0)
  BY Numbers DEF SessionBegin, OneSession, TypeOK

LEMMA ClientKeepsOneSession ==
    ASSUME TypeOK, OneSession, NEW c \in Clients, ClientStep(c) \/ Crash(c)
    PROVE  OneSession'
  <1>1. /\ gen' = gen /\ holder' = holder
        /\ lease' = lease \/ lease' = [lease EXCEPT ![c] = 0]
    BY DEF Crash, ClientStep, PublishOdd, PublishGenerationHi, PublishCursorLo, PublishEven,
      CreditSequence, CreditGenerationHi, CreditLoStatus, CreditTaken, CreditRevoked,
      CreditTorn, LoopAgain, WaitForCredit, WriteFirst, WriteWrapped, Drained, SessionEnd,
      ForgetLocals, slot, cursors
  <1>2. QED
    BY <1>1 DEF OneSession, TypeOK

LEMMA BeginKeepsProducerLine ==
    ASSUME LineInv, ProducerLineInv, ~ReuseWhileHeld, NEW c \in Clients, SessionBegin(c)
    PROVE  ProducerLineInv'
  <1>1. /\ pLine' = pLine /\ fpc' = fpc /\ fpc = "idle" /\ gen' = gen + 1
        /\ gen \in Nat /\ pLine.gen \in Nat
    BY DEF SessionBegin, LineInv, TypeOK, Line
  <1>2. pc'[c] = "publish"
    BY DEF SessionBegin, Call, Goto, LineInv, TypeOK
  <1>3. ASSUME NEW d \in Clients, d # c PROVE pc'[d] \notin Putting
    <2>1. lease[d] = 0
      BY BeginKeepsOneSession DEF LineInv
    <2>2. pc'[d] = pc[d]
      BY <1>3, OthersStay DEF LineInv
    <2>3. QED
      BY <2>1, <2>2 DEF LineInv, LeaseInv, InSession, Putting
  <1>4. \A d \in Clients : ProducerPuts(d)'
    BY <1>2, <1>3 DEF ProducerPuts, Putting
  <1>5. pLine'.gen <= gen'
    BY <1>1 DEF ProducerLineInv
  <1>6. FirmwareReadOK'
    BY <1>1 DEF FirmwareReadOK, Reading
  <1>7. QED
    BY <1>4, <1>5, <1>6 DEF ProducerLineInv

\* The four steps of a publication.
LEMMA PublishKeepsProducerLine ==
    ASSUME LineInv, OneSession, ProducerLineInv, NEW c \in Clients,
           \/ PublishOdd(c) \/ PublishGenerationHi(c) \/ PublishCursorLo(c)
           \/ PublishEven(c)
    PROVE  ProducerLineInv'
  <1>1. /\ UNCHANGED <<gen, fpc, fSnap, lease, write>>
        /\ pc[c] \in InSession
    BY DEF PublishOdd, PublishGenerationHi, PublishCursorLo, PublishEven, slot, cursors,
           InSession
  <1>2. /\ TypeOK /\ LeaseInv /\ pLine \in Line /\ snap[c] \in FLine
        /\ snap \in [Clients -> FLine]
        /\ pc \in [Clients -> Places] /\ lease[c] <= gen
    BY DEF LineInv, TypeOK, LeaseInv, Places, InSession
  <1>3. \A d \in Clients \ {c} : ProducerPuts(d)'
    <2> TAKE d \in Clients \ {c}
    <2>1. pc'[d] = pc[d]
      BY <1>2, OthersStay DEF ClientStep
    <2>2. pc'[d] \notin Putting
      BY <1>1, <1>2, <2>1, OneClient DEF Putting, InSession
    <2>3. QED
      BY <2>2 DEF ProducerPuts, Putting
  <1>4. pLine.gen <= gen /\ ProducerPuts(c) /\ FirmwareReadOK
    BY DEF ProducerLineInv
  <1>5. CASE PublishOdd(c)
    <2> DEFINE even == NextEven(pLine.seq)
    <2>1. /\ pLine'.seq = even + 1 /\ pLine'.gen = pLine.gen /\ snap'[c].seq = even
          /\ pc'[c] = "put_hi"
      BY <1>2, <1>5 DEF PublishOdd, Goto, Line, FLine
    <2>2. even \in Nat /\ even % 2 = 0 /\ (even + 1) % 2 = 1
      BY <1>2, NextEvenIsEven DEF Line
    <2>3. fpc \in Reading => even # fSnap.seq
      BY <1>5 DEF PublishOdd, ProducerMayPublish
    <2> HIDE DEF even
    <2>4. ProducerPuts(c)'
      BY <1>1, <2>1, <2>2, <2>3 DEF ProducerPuts
    <2>5. FirmwareReadOK'
      BY <2>1, <2>2 DEF FirmwareReadOK, Stable
    <2>6. QED
      BY <1>1, <1>3, <1>4, <2>1, <2>4, <2>5 DEF ProducerLineInv
  <1>6. CASE PublishGenerationHi(c) \/ PublishCursorLo(c)
    <2>1. /\ pLine'.seq = pLine.seq /\ snap' = snap /\ pc[c] \in Putting
          /\ pc'[c] = "put_lo" => /\ pLine'.gen = lease[c]
                                  /\ pLine'.hi = Hi(write[c])
          /\ pc'[c] = "put_even" => /\ pLine'.gen = pLine.gen /\ pLine'.hi = pLine.hi
                                    /\ pLine'.lo = Lo(write[c]) /\ pc[c] = "put_lo"
          /\ pc'[c] \in {"put_lo", "put_even"}
      BY <1>2, <1>6 DEF PublishGenerationHi, PublishCursorLo, Goto, Line, Putting
    <2>2. pLine.seq % 2 = 1
      BY <1>2, <1>4, <2>1 DEF ProducerPuts, FLine
    <2>3. ProducerPuts(c)'
      BY <1>1, <1>4, <2>1 DEF ProducerPuts, Putting
    <2>4. FirmwareReadOK'
      BY <1>1, <1>4, <2>1, <2>2 DEF FirmwareReadOK, Stable
    <2>5. pLine'.gen <= gen'
      BY <1>1, <1>2, <1>4, <2>1
    <2>6. QED
      BY <1>3, <2>3, <2>4, <2>5 DEF ProducerLineInv
  <1>7. CASE PublishEven(c)
    <2>1. /\ pLine'.seq = snap[c].seq /\ pLine'.gen = pLine.gen /\ pc[c] = "put_even"
      BY <1>2, <1>7 DEF PublishEven, Line
    <2>2. pc'[c] \notin Putting
      BY <1>2, <1>7 DEF PublishEven, Call, Goto, Putting, TypeOK
    <2>3. fpc \in Reading => snap[c].seq # fSnap.seq
      BY <1>4, <2>1 DEF ProducerPuts, Putting
    <2>4. FirmwareReadOK'
      BY <1>1, <2>1, <2>3 DEF FirmwareReadOK, Stable
    <2>5. ProducerPuts(c)'
      BY <2>2 DEF ProducerPuts, Putting
    <2>6. QED
      BY <1>1, <1>3, <1>4, <2>1, <2>4, <2>5 DEF ProducerLineInv
  <1>8. QED
    BY <1>5, <1>6, <1>7

\* Any other step of a client leaves the line alone.
LEMMA OtherKeepsProducerLine ==
    ASSUME LineInv, OneSession, ProducerLineInv, NEW c \in Clients,
           ClientStep(c) \/ Crash(c),
           ~PublishOdd(c) /\ ~PublishGenerationHi(c) /\ ~PublishCursorLo(c)
           /\ ~PublishEven(c)
    PROVE  ProducerLineInv' /\ UNCHANGED <<pLine, gen, adopted, played, fOut, holder>>
  <1>1. UNCHANGED <<pLine, gen, fpc, fSnap, adopted, played, fOut, holder>>
    BY DEF Crash, ClientStep, CreditSequence, CreditGenerationHi, CreditLoStatus,
      CreditTaken, CreditRevoked, CreditTorn, LoopAgain, WaitForCredit, WriteFirst,
      WriteWrapped, Drained, SessionEnd, slot
  <1>2. TypeOK /\ pc \in [Clients -> Places]
    BY DEF LineInv, TypeOK, Places, InSession
  <1>3. pc'[c] \notin Putting
    BY <1>2 DEF Crash, ClientStep, CreditSequence, CreditGenerationHi, CreditLoStatus,
      CreditTaken, CreditRevoked, CreditTorn, LoopAgain, WaitForCredit, WriteFirst,
      WriteWrapped, Drained, SessionEnd, Goto, Call, Finish, Putting
  <1>4. \A d \in Clients : ProducerPuts(d)'
    <2> TAKE d \in Clients
    <2>1. CASE d = c
      BY <1>3, <2>1 DEF ProducerPuts, Putting
    <2>2. CASE d # c
      BY <1>1, <1>2, <2>2, OthersStay DEF ProducerLineInv, ProducerPuts
    <2>3. QED
      BY <2>1, <2>2
  <1>5. FirmwareReadOK' /\ pLine'.gen <= gen'
    BY <1>1 DEF ProducerLineInv, FirmwareReadOK
  <1>6. QED
    BY <1>1, <1>4, <1>5 DEF ProducerLineInv

\* The firmware reads the line and never writes it.
LEMMA FirmwareKeepsProducerLine ==
    ASSUME LineInv, ProducerLineInv, FwStep \/ FwRevoke \/ FwRelease
    PROVE  ProducerLineInv'
  <1>1. /\ UNCHANGED <<pLine, gen, pc, snap, lease, write>>
        /\ pLine \in Line /\ fSnap \in Line
    BY DEF FwStep, FwRevoke, FwRelease, FwSequence, FwGenerationHi, FwLo, FwAdopt,
           FwPublishOdd, FwPublishHi, FwPublishLo, FwPublishEven, fwRest, cursors, LineInv,
           TypeOK
  <1>2. CASE FwSequence
    <2>1. fSnap'.seq = pLine.seq /\ fpc' = "get_words"
      BY <1>1, <1>2 DEF FwSequence, NoPLine
    <2>2. ASSUME NEW c \in Clients PROVE ProducerPuts(c)'
      <3>1. pc[c] \in Putting => snap[c].seq # pLine.seq
        BY SMTT(30), <1>1 DEF ProducerLineInv, ProducerPuts, LineInv, TypeOK, FLine
      <3>2. QED
        BY <1>1, <2>1, <3>1 DEF ProducerLineInv, ProducerPuts
    <2>3. QED
      BY <1>1, <2>1, <2>2 DEF ProducerLineInv, FirmwareReadOK
  <1>3. CASE FwGenerationHi \/ FwLo
    <2>1. /\ fSnap'.seq = fSnap.seq /\ fpc \in Reading
          /\ fpc' \in {"get_lo", "get_seq"}
          /\ fpc' = "get_lo" => fSnap'.gen = pLine.gen /\ fSnap'.hi = pLine.hi
          /\ fpc' = "get_seq" => /\ fSnap'.gen = fSnap.gen /\ fSnap'.hi = fSnap.hi
                                 /\ fSnap'.lo = pLine.lo /\ fpc = "get_lo"
      BY <1>1, <1>3 DEF FwGenerationHi, FwLo, Line, Reading
    <2>2. ASSUME NEW c \in Clients PROVE ProducerPuts(c)'
      BY <1>1, <2>1 DEF ProducerLineInv, ProducerPuts
    <2>3. FirmwareReadOK'
      BY <1>1, <2>1 DEF ProducerLineInv, FirmwareReadOK
    <2>4. QED
      BY <1>1, <2>2, <2>3 DEF ProducerLineInv
  <1>4. CASE ~FwSequence /\ ~FwGenerationHi /\ ~FwLo
    <2>1. fpc' \notin Reading \/ (fpc' = fpc /\ fSnap' = fSnap)
      BY <1>4 DEF FwStep, FwRevoke, FwRelease, FwAdopt, FwPublishOdd, FwPublishHi,
                  FwPublishLo, FwPublishEven, Reading
    <2>2. ASSUME NEW c \in Clients PROVE ProducerPuts(c)'
      BY <1>1, <2>1 DEF ProducerLineInv, ProducerPuts
    <2>3. FirmwareReadOK'
      BY <1>1, <2>1 DEF ProducerLineInv, FirmwareReadOK
    <2>4. QED
      BY <1>1, <2>2, <2>3 DEF ProducerLineInv
  <1>5. QED
    BY <1>2, <1>3, <1>4

---------------------------------------------------------------------------
\* The cursors of a lease.

LEMMA InitRing == Init => ProducerLineInv /\ OneSession /\ CursorInv /\ PcmInv /\ NoSpuriousFault
  <1> SUFFICES ASSUME Init
               PROVE  ProducerLineInv /\ OneSession /\ CursorInv /\ PcmInv /\ NoSpuriousFault
    OBVIOUS
  <1>1. Cursor(pLine) = 0 /\ pLine.gen = 0
    BY Numbers DEF Init, InitAt, NoPLine, Cursor
  <1>2. ProducerLineInv /\ OneSession /\ NoSpuriousFault
    BY <1>1 DEF Init, InitAt, ProducerLineInv, ProducerPuts, FirmwareReadOK, OneSession,
                NoSpuriousFault, Putting, Reading
  <1>3. CursorInv
    BY <1>1, Numbers DEF Init, InitAt, CursorInv
  <1>4. PcmInv
    BY <1>1 DEF Init, InitAt, PcmInv, Holds
  <1>5. QED
    BY <1>2, <1>3, <1>4

LEMMA CursorTypes ==
    ASSUME TypeOK
    PROVE  /\ played \in Nat /\ adopted \in Nat /\ gen \in Nat
           /\ Cursor(pLine) \in Nat /\ Cursor(fLine) \in Nat
           /\ \A c \in Clients : /\ write[c] \in Nat /\ credit[c] \in Nat
                                 /\ fed[c] \in Nat /\ lease[c] \in Nat
                                 /\ Cursor(snap[c]) \in Nat
  <1>1. pLine \in Line /\ fLine \in FLine /\ \A c \in Clients : snap[c] \in FLine
    BY DEF TypeOK
  <1>2. /\ Cursor(pLine) \in Nat /\ Cursor(fLine) \in Nat
        /\ \A c \in Clients : Cursor(snap[c]) \in Nat
    BY <1>1, CursorInRange DEF Line, FLine
  <1>3. QED
    BY <1>2 DEF TypeOK

\* A new lease starts at 0, and the line still tells of an older one.
LEMMA BeginKeepsRing ==
    ASSUME LineInv, ProducerLineInv, CursorInv, ~ReuseWhileHeld,
           NEW c \in Clients, SessionBegin(c)
    PROVE  CursorInv' /\ PcmInv'
  <1>1. TypeOK /\ pLine.gen \in Nat /\ gen \in Nat
    <2>1. TypeOK /\ pLine \in Line /\ gen \in 0..MaxGen
      BY DEF LineInv, TypeOK
    <2>2. QED
      BY <2>1 DEF Line
  <1>2. /\ played' = 0 /\ adopted' = 0 /\ pLine' = pLine /\ gen' = gen + 1
        /\ fed' = fed /\ pc[c] = "out"
    BY DEF SessionBegin, loop
  <1>3. ~Published'
    BY <1>1, <1>2 DEF ProducerLineInv, Published
  <1>4. write'[c] = 0 /\ credit'[c] = 0 /\ fed'[c] = 0 /\ pc'[c] = "publish"
    BY <1>2 DEF SessionBegin, Call, Goto, LineInv, TypeOK, CursorInv
  <1>5. \A d \in Clients : d # c => lease'[d] = 0 /\ pc'[d] = pc[d]
    BY <1>1, BeginKeepsOneSession, OthersStay
  <1>6. CursorInv'
    BY <1>2, <1>3, <1>4, <1>5, Numbers DEF CursorInv
  <1>7. \A d \in Clients : pc'[d] # "wrap"
    <2>1. \A d \in Clients : lease[d] = 0
      BY <1>1, BeginKeepsOneSession
    <2>2. QED
      BY <1>4, <1>5, <2>1 DEF LineInv, LeaseInv, InSession
  <1>8. PcmInv'
    BY <1>2, <1>3, <1>4, <1>5, <1>7 DEF PcmInv, Holds
  <1>9. QED
    BY <1>6, <1>8

\* While a line is being put nothing is published; then the write cursor is.
LEMMA PublishKeepsRing ==
    ASSUME LineInv, ProducerLineInv, OneSession, CursorInv, PcmInv, NEW c \in Clients,
           \/ PublishOdd(c) \/ PublishGenerationHi(c) \/ PublishCursorLo(c)
           \/ PublishEven(c)
    PROVE  CursorInv' /\ PcmInv'
  <1>1. /\ TypeOK /\ pLine \in Line /\ snap[c] \in FLine /\ pc \in [Clients -> Places]
        /\ ProducerPuts(c)
    BY DEF LineInv, TypeOK, Places, InSession, ProducerLineInv
  <1>2. /\ UNCHANGED <<ring, gen, played, adopted, lease, write, credit, fed>>
        /\ pc[c] \in InSession
    BY DEF PublishOdd, PublishGenerationHi, PublishCursorLo, PublishEven, slot, cursors,
           loop, InSession
  <1>3. pc'[c] \notin {"wrap", "out"}
    BY <1>1, <1>2 DEF PublishOdd, PublishGenerationHi, PublishCursorLo, PublishEven, Goto,
                      Call, LineInv, TypeOK, LeaseInv
  <1>4. \A d \in Clients : d # c => pc'[d] = pc[d]
    BY <1>1, OthersStay DEF ClientStep
  <1>5. CASE ~PublishEven(c)
    <2>1. pLine'.seq % 2 = 1
      <3>1. CASE PublishOdd(c)
        BY <1>1, <3>1, NextEvenIsEven DEF PublishOdd, Line
      <3>2. CASE PublishGenerationHi(c) \/ PublishCursorLo(c)
        <4>1. pLine'.seq = pLine.seq /\ pc[c] \in Putting
          BY <1>1, <3>2 DEF PublishGenerationHi, PublishCursorLo, Line, Putting
        <4>2. snap[c].seq \in Nat /\ snap[c].seq % 2 = 0 /\ pLine.seq = snap[c].seq + 1
          BY <1>1, <4>1 DEF ProducerPuts, FLine
        <4>3. QED
          BY <4>1, <4>2
      <3>3. QED
        BY <1>5, <3>1, <3>2
    <2>2. ~Published'
      BY <2>1 DEF Published
    <2>3. QED
      BY <1>2, <1>3, <1>4, <2>2 DEF CursorInv, PcmInv, Holds, StagedFirst, Staged, Required,
                                    FreeBytes, Outstanding
  <1>6. CASE PublishEven(c)
    <2>1. /\ pLine'.hi = Hi(write[c]) /\ pLine'.lo = Lo(write[c]) /\ write[c] \in Nat
      BY <1>1, <1>6 DEF PublishEven, Line, ProducerPuts, TypeOK
    <2>2. Cursor(pLine)' = write[c]
      BY <2>1, WordsOfCursor DEF Cursor
    <2>3. lease[c] # 0 /\ \A d \in Clients : d # c => lease[d] = 0
      BY <1>1, <1>2, OneClient DEF LineInv, LeaseInv
    <2>4. /\ adopted <= write[c] /\ write[c] <= played + Capacity /\ Holds(played, write[c])
      BY <1>1, <2>3, Numbers, CursorTypes DEF CursorInv, PcmInv
    <2>5. CursorInv'
      BY <1>1, <1>2, <1>3, <1>4, <2>2, <2>3, <2>4, CursorTypes DEF CursorInv
    <2>6. PcmInv'
      BY <1>2, <1>3, <1>4, <2>2, <2>4 DEF PcmInv, Holds, StagedFirst, Staged, Required,
                                          FreeBytes, Outstanding
    <2>7. QED
      BY <2>5, <2>6
  <1>7. QED
    BY <1>5, <1>6

\* Steps of a client that stage nothing and publish nothing.
LEMMA ReadKeepsRing ==
    ASSUME LineInv, ProducerLineInv, OneSession, CursorInv, PcmInv, NEW c \in Clients,
           \/ CreditSequence(c) \/ CreditGenerationHi(c) \/ CreditLoStatus(c)
           \/ CreditTaken(c) \/ CreditRevoked(c) \/ CreditTorn(c)
           \/ LoopAgain(c) \/ WaitForCredit(c) \/ Drained(c) \/ SessionEnd(c) \/ Crash(c)
    PROVE  CursorInv' /\ PcmInv'
  <1>1. TypeOK /\ pc \in [Clients -> Places]
    BY DEF LineInv, TypeOK, Places, InSession
  <1>2. UNCHANGED <<ring, pLine, gen, played, adopted>>
    BY DEF CreditSequence, CreditGenerationHi, CreditLoStatus, CreditTaken, CreditRevoked,
      CreditTorn, LoopAgain, WaitForCredit, Drained, SessionEnd, Crash, slot
  <1>3. pc'[c] \notin {"wrap", "out"}
    BY <1>1 DEF CreditSequence, CreditGenerationHi, CreditLoStatus, CreditTaken,
      CreditRevoked, CreditTorn, LoopAgain, WaitForCredit, Drained, SessionEnd, Crash, Goto,
      Call, Finish
  <1>4. \A d \in Clients : d # c => /\ pc'[d] = pc[d] /\ lease'[d] = lease[d]
                                    /\ write'[d] = write[d] /\ credit'[d] = credit[d]
                                    /\ fed'[d] = fed[d]
    BY <1>1, OthersStay DEF ClientStep
  <1>5. \/ lease'[c] = 0
        \/ /\ lease'[c] = lease[c] /\ write'[c] = write[c] /\ fed'[c] = fed[c]
           /\ credit'[c] = credit[c] \/ (CreditTaken(c) /\ credit'[c] = Cursor(snap[c]))
    <2>1. CASE SessionEnd(c) \/ Crash(c)
      BY <1>1, <2>1 DEF SessionEnd, Crash, ForgetLocals, TypeOK
    <2>2. CASE CreditTaken(c)
      BY <1>1, <2>2 DEF CreditTaken, TypeOK
    <2>3. CASE ~SessionEnd(c) /\ ~Crash(c) /\ ~CreditTaken(c)
      BY <2>3 DEF CreditSequence, CreditGenerationHi, CreditLoStatus, CreditRevoked,
        CreditTorn, LoopAgain, WaitForCredit, Drained, cursors, loop
    <2>4. QED
      BY <2>1, <2>2, <2>3
  <1>6. ASSUME CreditTaken(c)
        PROVE  Cursor(snap[c]) <= played /\ write[c] <= Cursor(snap[c]) + Capacity
    <2>1. Stable(snap[c].seq, fLine.seq) /\ SnapshotGood(c) /\ pc[c] = "get_seq"
      BY <1>6 DEF CreditTaken
    <2>2. snap[c].hi = fLine.hi /\ snap[c].lo = fLine.lo /\ fLine.seq % 2 = 0
      BY <2>1 DEF LineInv, FirmwareLineInv, CreditReadOK, Reading, Stable
    <2>3. Cursor(snap[c]) = Cursor(fLine) /\ Cursor(fLine) <= played
      BY <2>2 DEF LineInv, FirmwareLineInv, FirmwareLineOK, Cursor
    <2>4. write[c] <= Cursor(snap[c]) + Capacity
      BY <1>1, <2>1, CursorTypes, Numbers DEF SnapshotGood, DistanceValid
    <2>5. QED
      BY <2>3, <2>4
  <1>7. CursorInv'
    <2>1. /\ played' = played /\ adopted' = adopted /\ (Published' <=> Published)
          /\ Cursor(pLine)' = Cursor(pLine)
      BY <1>2 DEF Published, Cursor
    <2>2. ASSUME NEW d \in Clients, lease'[d] # 0
          PROVE  /\ credit'[d] <= played
                 /\ adopted <= write'[d] /\ write'[d] <= credit'[d] + Capacity
                 /\ Published => Cursor(pLine) <= write'[d]
                 /\ fed'[d] = write'[d] /\ fed'[d] <= Target
      <3>1. CASE d # c
        BY <1>4, <2>2, <3>1 DEF CursorInv
      <3>2. CASE d = c
        BY <1>5, <1>6, <2>2, <3>2 DEF CursorInv
      <3>3. QED
        BY <3>1, <3>2
    <2>3. \A d \in Clients : pc'[d] = "out" => fed'[d] = 0
      BY <1>3, <1>4 DEF CursorInv
    <2>4. QED
      BY <2>1, <2>2, <2>3 DEF CursorInv
  <1>8. PcmInv'
    <2>1. /\ played' = played /\ adopted' = adopted /\ (Published' <=> Published)
          /\ Cursor(pLine)' = Cursor(pLine)
          /\ \A from, to : Holds(from, to)' <=> Holds(from, to)
      BY <1>2 DEF Published, Cursor, Holds
    <2>2. \A d \in Clients : lease'[d] # 0 => Holds(played, write'[d])
      BY <1>4, <1>5 DEF PcmInv
    <2>3. ASSUME NEW d \in Clients, pc'[d] = "wrap"
          PROVE  Holds(write[d], write[d] + StagedFirst(d))'
      BY <1>2, <1>3, <1>4, <2>3 DEF PcmInv, Holds, StagedFirst, Staged, Required, FreeBytes,
                                    Outstanding
    <2>4. QED
      BY <1>2, <2>1, <2>2, <2>3 DEF PcmInv, Holds
  <1>9. QED
    BY <1>7, <1>8

---------------------------------------------------------------------------
\* zz9k_audio_ring_write: which cells the two parts fill.

LEMMA FirstCells ==
    ASSUME NEW w \in Nat, NEW i \in 0..(Capacity - 1), i >= w % Capacity
    PROVE  (w + (i - (w % Capacity))) % Capacity = i
  <1>1. Capacity \in Nat \ {0}
    BY Numbers
  <1>2. /\ w \div Capacity \in Nat /\ w = Capacity * (w \div Capacity) + (w % Capacity)
        /\ w % Capacity \in 0..(Capacity - 1)
    BY <1>1, DivMod
  <1>3. w + (i - (w % Capacity)) = Capacity * (w \div Capacity) + i
    BY <1>1, <1>2
  <1>4. QED
    BY <1>1, <1>2, <1>3, ModIsRest

LEMMA WrappedCells ==
    ASSUME NEW w \in Nat, NEW i \in 0..(Capacity - 1)
    PROVE  (w + ((Capacity - (w % Capacity)) + i)) % Capacity = i
  <1>1. Capacity \in Nat \ {0}
    BY Numbers
  <1>2. /\ w \div Capacity \in Nat /\ w = Capacity * (w \div Capacity) + (w % Capacity)
        /\ w % Capacity \in 0..(Capacity - 1)
    BY <1>1, DivMod
  <1> DEFINE k == w \div Capacity
  <1>3. w + ((Capacity - (w % Capacity)) + i) = Capacity * (k + 1) + i
    <2>1. Capacity * (k + 1) = Capacity * k + Capacity
      BY <1>1, <1>2
    <2>2. QED
      BY <1>1, <1>2, <2>1
  <1>4. k + 1 \in Nat
    BY <1>2
  <1>5. (Capacity * (k + 1) + i) % Capacity = i
    BY <1>1, <1>4, ModIsRest
  <1>6. QED
    BY <1>3, <1>5

\* A client that writes: what it has room for.
LEMMA RoomToWrite ==
    ASSUME LineInv, OneSession, CursorInv, NEW c \in Clients,
           pc[c] \in {"feed", "wrap"}, fed[c] < Target, FreeBytes(c) >= Required(c)
    PROVE  /\ Staged(c) \in Nat /\ StagedFirst(c) \in Nat
           /\ StagedFirst(c) <= Staged(c) /\ Staged(c) <= Capacity
           /\ StagedFirst(c) <= Capacity - (write[c] % Capacity)
           /\ StagedFirst(c) < Staged(c)
                => StagedFirst(c) = Capacity - (write[c] % Capacity)
           /\ write[c] % Capacity \in 0..(Capacity - 1)
           /\ write[c] + Staged(c) <= played + Capacity
           /\ write[c] + Staged(c) <= credit[c] + Capacity
           /\ fed[c] + Staged(c) <= Target
           /\ lease[c] = gen /\ lease[c] # 0
           /\ \A d \in Clients : d # c => lease[d] = 0 /\ pc[d] # "wrap"
  <1>1. /\ write[c] \in Nat /\ credit[c] \in Nat /\ played \in Nat /\ fed[c] \in Nat
        /\ Capacity \in Nat \ {0} /\ Target \in Nat /\ Chunk \in Nat \ {0}
    BY CursorTypes, Numbers DEF LineInv
  <1>2. write[c] % Capacity \in 0..(Capacity - 1)
    BY <1>1, DivMod
  <1>3. lease[c] # 0 /\ lease[c] = gen
    BY DEF LineInv, LeaseInv, InSession, OneSession
  <1>4. \A d \in Clients : d # c => lease[d] = 0 /\ pc[d] # "wrap"
    BY <1>3 DEF LineInv, LeaseInv, InSession, OneSession
  <1>5. credit[c] <= played /\ write[c] <= credit[c] + Capacity
    BY <1>3 DEF CursorInv
  <1>6. Required(c) \in Nat /\ Required(c) <= Capacity /\ Required(c) <= Target - fed[c]
    BY <1>1 DEF Required, MinOf
  <1>7. FreeBytes(c) = Capacity - (write[c] - credit[c])
    BY DEF FreeBytes, Outstanding
  <1>8. Staged(c) = Required(c)
    BY <1>1, <1>6, <1>7 DEF Staged, MinOf
  <1>9. /\ StagedFirst(c) \in Nat /\ StagedFirst(c) <= Staged(c)
        /\ StagedFirst(c) <= Capacity - (write[c] % Capacity)
        /\ StagedFirst(c) < Staged(c)
             => StagedFirst(c) = Capacity - (write[c] % Capacity)
    BY <1>1, <1>2, <1>6, <1>8 DEF StagedFirst, MinOf
  <1>10. QED
    BY <1>1, <1>2, <1>3, <1>4, <1>5, <1>6, <1>7, <1>8, <1>9

\* Positions from the firmware's to the end of the write are less than a ring
\* apart, so no cell that is still to be played is written again.
LEMMA CellsKept ==
    ASSUME NEW from \in Nat, NEW p \in Nat, NEW q \in Nat,
           from <= p, p < q, q < from + Capacity
    PROVE  p % Capacity # q % Capacity
  <1>1. q < p + Capacity /\ Capacity \in Nat \ {0}
    BY Numbers
  <1>2. QED
    BY <1>1, CellsDiffer

LEMMA WriteFirstKeepsRing ==
    ASSUME LineInv, OneSession, CursorInv, PcmInv, NEW c \in Clients, WriteFirst(c)
    PROVE  CursorInv' /\ PcmInv'
  <1> DEFINE o == write[c] % Capacity
             n == Staged(c)
             first == StagedFirst(c)
  <1>1. /\ TypeOK /\ DOMAIN ring = 0..(Capacity - 1) /\ Capacity \in Nat \ {0}
        /\ write[c] \in Nat /\ played \in Nat /\ pc[c] = "feed"
    BY CursorTypes, Numbers DEF LineInv, TypeOK, WriteFirst
  <1>2. /\ n \in Nat /\ first \in Nat /\ first <= n /\ first <= Capacity - o
        /\ o \in 0..(Capacity - 1) /\ write[c] + n <= played + Capacity
        /\ lease[c] = gen /\ lease[c] # 0
        /\ \A d \in Clients : d # c => lease[d] = 0 /\ pc[d] # "wrap"
    BY <1>1, RoomToWrite DEF WriteFirst
  <1>3. /\ UNCHANGED <<pLine, gen, played, adopted, lease, write, credit, fed>>
        /\ ring' = [i \in DOMAIN ring |->
                      IF i >= o /\ i < o + n
                      THEN [gen |-> lease[c], pos |-> write[c] + (i - o)]
                      ELSE ring[i]]
        /\ pc'[c] = "wrap"
    BY <1>1 DEF WriteFirst, Goto, slot, cursors, Staged, TypeOK
  <1>4. \A d \in Clients : d # c => pc'[d] = pc[d]
    BY <1>1, OthersStay DEF ClientStep
  <1>5. StagedFirst(c)' = first
    BY <1>3 DEF StagedFirst, Staged, Required, FreeBytes, Outstanding
  <1>6. CursorInv'
    BY <1>3, <1>4 DEF CursorInv, Published, Cursor
  <1> HIDE DEF o, n, first
  <1>7. Holds(played, write[c])'
    <2>1. ASSUME NEW p \in played..(write[c] - 1)
          PROVE  ring'[p % Capacity] = ring[p % Capacity]
      <3> DEFINE i == p % Capacity
      <3>1. p \in Nat /\ i \in 0..(Capacity - 1)
        <4>1. p \in Nat
          BY <1>1, <2>1
        <4>2. QED
          BY <1>1, <4>1, DivMod
      <3>2. ASSUME i >= o, i < o + n PROVE FALSE
        <4> DEFINE q == write[c] + (i - o)
        <4>1. q \in Nat /\ p < q /\ q < played + Capacity
          <5>1. /\ write[c] \in Nat /\ played \in Nat /\ o \in Nat /\ i \in Nat /\ n \in Nat
                /\ p \in Nat /\ p < write[c] /\ write[c] + n <= played + Capacity
                /\ Capacity \in Nat
            BY <1>1, <1>2, <2>1, <3>1
          <5>2. i - o \in Nat /\ i - o < n
            BY <3>2, <5>1
          <5>3. q \in Nat /\ q >= write[c] /\ q < write[c] + n
            BY <5>1, <5>2
          <5>4. QED
            BY <5>1, <5>3
        <4>2. q % Capacity = i
          BY <1>1, <3>1, <3>2, FirstCells DEF o
        <4>3. p % Capacity # q % Capacity
          BY <1>1, <2>1, <3>1, <4>1, CellsKept
        <4>4. QED
          BY <4>2, <4>3
      <3>3. QED
        BY <1>1, <1>3, <3>1, <3>2
    <2>2. Holds(played, write[c])
      BY <1>2 DEF PcmInv
    <2>3. QED
      BY <1>3, <2>1, <2>2 DEF Holds
  <1>8. ASSUME NEW p \in write[c]..(write[c] + first - 1)
        PROVE  ring'[p % Capacity] = [gen |-> gen, pos |-> p]
    <2> DEFINE i == o + (p - write[c])
    <2>1. p \in Nat /\ i \in 0..(Capacity - 1) /\ i >= o /\ i < o + n
          /\ write[c] + (i - o) = p
      BY SMTT(30), <1>1, <1>2, <1>8
    <2>2. p % Capacity = i
      BY <1>1, <2>1, FirstCells DEF o
    <2>3. QED
      BY <1>1, <1>2, <1>3, <2>1, <2>2
  <1>9. PcmInv'
    <2>1. Holds(played, adopted)' /\ (Published' => Holds(played, Cursor(pLine))')
      <3>1. adopted <= write[c] /\ (Published' => Cursor(pLine) <= write[c])
        BY <1>2, <1>3 DEF CursorInv, Published
      <3>2. Cursor(pLine)' = Cursor(pLine) /\ Cursor(pLine) \in Nat /\ adopted \in Nat
        BY <1>1, <1>3, CursorTypes DEF Cursor
      <3>3. \A p \in played..(write[c] - 1) : ring'[p % Capacity] = [gen |-> gen, pos |-> p]
        BY <1>3, <1>7 DEF Holds
      <3>4. Holds(played, adopted)'
        <4>1. \A p \in played..(adopted - 1) :
                 ring'[p % Capacity] = [gen |-> gen, pos |-> p]
          BY <1>1, <3>1, <3>2, <3>3
        <4>2. QED
          BY <1>3, <4>1 DEF Holds
      <3>5. ASSUME Published' PROVE Holds(played, Cursor(pLine))'
        <4>1. \A p \in played..(Cursor(pLine) - 1) :
                 ring'[p % Capacity] = [gen |-> gen, pos |-> p]
          BY <1>1, <3>1, <3>2, <3>3, <3>5
        <4>2. QED
          BY <1>3, <3>2, <4>1 DEF Holds
      <3>6. QED
        BY <3>4, <3>5
    <2>2. Holds(write[c], write[c] + StagedFirst(c))'
      <3>1. \A p \in write[c]..((write[c] + first) - 1) :
               ring'[p % Capacity] = [gen |-> gen, pos |-> p]
        BY <1>1, <1>2, <1>8
      <3>2. gen' = gen /\ write'[c] = write[c] /\ StagedFirst(c)' = first
        BY <1>3, <1>5
      <3>3. QED
        BY <3>1, <3>2 DEF Holds
    <2>3. QED
      BY <1>2, <1>3, <1>4, <1>7, <2>1, <2>2 DEF PcmInv
  <1>10. QED
    BY <1>6, <1>9

LEMMA WriteWrappedKeepsRing ==
    ASSUME LineInv, OneSession, CursorInv, PcmInv, NEW c \in Clients, WriteWrapped(c)
    PROVE  CursorInv' /\ PcmInv'
  <1> DEFINE o == write[c] % Capacity
             n == Staged(c)
             first == StagedFirst(c)
  <1>1. /\ TypeOK /\ DOMAIN ring = 0..(Capacity - 1) /\ Capacity \in Nat \ {0}
        /\ write[c] \in Nat /\ fed[c] \in Nat /\ played \in Nat /\ adopted \in Nat
        /\ credit[c] \in Nat /\ pc[c] = "wrap"
    BY CursorTypes, Numbers DEF LineInv, TypeOK, WriteWrapped
  <1>2. /\ n \in Nat /\ first \in Nat /\ first <= n /\ n <= Capacity
        /\ first < n => first = Capacity - o
        /\ o \in 0..(Capacity - 1) /\ write[c] + n <= played + Capacity
        /\ write[c] + n <= credit[c] + Capacity /\ fed[c] + n <= Target
        /\ lease[c] = gen /\ lease[c] # 0
        /\ \A d \in Clients : d # c => lease[d] = 0 /\ pc[d] # "wrap"
    BY <1>1, RoomToWrite DEF LineInv, WriteInv
  <1>3. /\ UNCHANGED <<pLine, gen, played, adopted, lease, credit>>
        /\ ring' = [i \in DOMAIN ring |->
                      IF i < n - first
                      THEN [gen |-> lease[c], pos |-> write[c] + (first + i)]
                      ELSE ring[i]]
        /\ write'[c] = write[c] + n /\ fed'[c] = fed[c] + n
        /\ pc'[c] = "publish"
    BY <1>1 DEF WriteWrapped, Call, Goto, slot, Staged, StagedFirst, TypeOK
  <1>4. \A d \in Clients : d # c => pc'[d] = pc[d] /\ fed'[d] = fed[d]
    BY <1>1, OthersStay DEF ClientStep
  <1>5. CursorInv'
    <2>1. /\ Cursor(pLine)' = Cursor(pLine) /\ Cursor(pLine) \in Nat
          /\ (Published' <=> Published)
      BY <1>1, <1>3, CursorTypes DEF Cursor, Published
    <2> HIDE DEF o, n, first
    <2>2. /\ credit[c] <= played /\ adopted <= write[c] /\ fed[c] = write[c]
          /\ Published => Cursor(pLine) <= write[c]
      BY <1>2 DEF CursorInv
    <2>3. /\ adopted <= write'[c] /\ write'[c] <= credit[c] + Capacity
          /\ fed'[c] = write'[c] /\ fed'[c] <= Target
          /\ Published => Cursor(pLine) <= write'[c]
      BY <1>1, <1>2, <1>3, <2>1, <2>2
    <2>4. QED
      BY <1>2, <1>3, <1>4, <2>1, <2>2, <2>3 DEF CursorInv
  <1> HIDE DEF o, n, first
  <1>6. Holds(played, write[c]) /\ Holds(write[c], write[c] + first)
    BY <1>1, <1>2 DEF PcmInv, first
  <1>7. ASSUME NEW p \in played..(write[c] + first - 1)
        PROVE  ring'[p % Capacity] = [gen |-> gen, pos |-> p]
    <2> DEFINE i == p % Capacity
    <2>1. p \in Nat /\ i \in 0..(Capacity - 1)
      <3>1. p \in Nat /\ Capacity \in Nat \ {0}
        BY <1>1
      <3>2. QED
        BY <3>1, DivMod
    <2>2. ASSUME i < n - first PROVE FALSE
      <3> DEFINE q == write[c] + (first + i)
      <3>1. q \in Nat /\ p < q /\ q < played + Capacity
        BY SMTT(30), <1>1, <1>2, <1>7, <2>1, <2>2
      <3>2. first = Capacity - o
        BY <1>2, <2>1, <2>2
      <3>3. q % Capacity = i
        BY <1>1, <2>1, <3>2, WrappedCells DEF o
      <3>4. p % Capacity # q % Capacity
        <4>1. played <= p
          BY <1>1, <1>2, <1>7
        <4>2. QED
          BY <1>1, <2>1, <3>1, <4>1, CellsKept
      <3>5. QED
        BY <3>3, <3>4
    <2>3. ring[i] = [gen |-> gen, pos |-> p]
      <3>1. p < write[c] \/ p >= write[c]
        BY <1>1, <2>1
      <3>2. QED
        BY SMTT(30), <1>1, <1>2, <1>6, <1>7, <2>1, <3>1 DEF Holds
    <2>4. ring'[i] = ring[i]
      BY <1>1, <1>3, <2>1, <2>2
    <2>5. QED
      BY <2>3, <2>4
  <1>8. ASSUME NEW p \in (write[c] + first)..(write[c] + n - 1)
        PROVE  ring'[p % Capacity] = [gen |-> gen, pos |-> p]
    <2> DEFINE i == p - (write[c] + first)
    <2>1. /\ i \in 0..(Capacity - 1) /\ i < n - first /\ first < n
          /\ write[c] + (first + i) = p
      <3>1. /\ n \in Nat /\ first \in Nat /\ n <= Capacity /\ write[c] \in Nat
            /\ Capacity \in Nat
        BY <1>1, <1>2
      <3>2. p \in Int /\ write[c] + first <= p /\ p <= write[c] + n - 1
        BY <1>8, <3>1
      <3>3. QED
        BY <3>1, <3>2
    <2>2. p % Capacity = i
      <3>1. first = Capacity - o
        BY <1>2, <2>1
      <3>2. p = write[c] + ((Capacity - o) + i)
        BY <2>1, <3>1
      <3> HIDE DEF i
      <3>3. QED
        BY <1>1, <2>1, <3>2, WrappedCells DEF o
    <2>3. QED
      BY <1>1, <1>2, <1>3, <2>1, <2>2
  <1>9. Holds(played, write[c])'
    <2>1. ASSUME NEW p \in played..(write'[c] - 1)
          PROVE  ring'[p % Capacity] = [gen |-> gen, pos |-> p]
      <3>1. p \in played..(write[c] + first - 1) \/ p \in (write[c] + first)..(write[c] + n - 1)
        <4>1. /\ n \in Nat /\ first \in Nat /\ write[c] \in Nat /\ played \in Nat
              /\ write'[c] = write[c] + n
          BY <1>1, <1>2, <1>3
        <4>2. p \in Int /\ played <= p /\ p <= write[c] + n - 1
          BY <2>1, <4>1
        <4>3. QED
          BY <4>1, <4>2
      <3>2. QED
        BY <1>7, <1>8, <3>1
    <2>2. QED
      BY <1>3, <2>1 DEF Holds
  <1>10. PcmInv'
    <2>1. Holds(played, adopted)' /\ (Published' => Holds(played, Cursor(pLine))')
      <3>1. adopted' <= write'[c] /\ (Published' => Cursor(pLine)' <= write'[c])
        BY <1>2, <1>3, <1>5 DEF CursorInv
      <3>2. /\ Cursor(pLine)' \in Nat /\ adopted' \in Nat /\ played' \in Nat
            /\ write'[c] \in Nat
        <4>1. Cursor(pLine)' = Cursor(pLine)
          BY <1>3 DEF Cursor
        <4>2. QED
          <5>1. Cursor(pLine) \in Nat
            BY <1>1, CursorTypes
          <5>2. adopted' \in Nat /\ played' \in Nat
            BY <1>1, <1>3
          <5>3. write'[c] \in Nat
            <6>1. write[c] \in Nat /\ n \in Nat /\ write'[c] = write[c] + n
              BY <1>1, <1>2, <1>3
            <6>2. QED
              BY <6>1
          <5>4. QED
            BY <4>1, <5>1, <5>2, <5>3
      <3>3. QED
        BY <1>9, <3>1, <3>2 DEF Holds
    <2>2. QED
      BY <1>2, <1>3, <1>4, <1>9, <2>1 DEF PcmInv
  <1>11. QED
    BY <1>5, <1>10
---------------------------------------------------------------------------
\* The firmware: a snapshot it accepts is the published cursor.

LEMMA FewerHeld ==
    ASSUME NEW from \in Nat, NEW mid \in Nat, NEW to \in Nat, from <= mid, Holds(from, to)
    PROVE  Holds(mid, to)
  <1>1. ASSUME NEW p \in mid..(to - 1) PROVE p \in from..(to - 1)
    BY <1>1
  <1>2. QED
    BY <1>1 DEF Holds

LEMMA AdoptKeepsRing ==
    ASSUME LineInv, ProducerLineInv, CursorInv, PcmInv, NoSpuriousFault, FwAdopt
    PROVE  CursorInv' /\ PcmInv' /\ NoSpuriousFault'
  <1>1. /\ TypeOK /\ Period \in Nat /\ Capacity \in Nat
        /\ played \in Nat /\ adopted \in Nat /\ Cursor(pLine) \in Nat
    BY CursorTypes, Numbers DEF LineInv
  <1>2. /\ UNCHANGED <<pLine, ring, gen, pc, lease, write, credit, fed>>
        /\ (Published' <=> Published) /\ Cursor(pLine)' = Cursor(pLine)
        /\ \A from, to : Holds(from, to)' <=> Holds(from, to)
    BY DEF FwAdopt, fwRest, cursors, loop, Published, Cursor, Holds
  <1>3. \A c \in Clients : StagedFirst(c)' = StagedFirst(c)
    BY <1>2 DEF StagedFirst, Staged, Required, FreeBytes, Outstanding
  <1>4. \A c \in Clients :
           /\ lease[c] # 0 => Holds(played, write[c])
           /\ pc'[c] = "wrap" => Holds(write[c], write[c] + StagedFirst(c))'
    BY <1>2, <1>3 DEF PcmInv, Holds
  <1>5. CASE UNCHANGED <<adopted, played, fOut>>
    <2>1. CursorInv' /\ NoSpuriousFault'
      BY <1>2, <1>5 DEF CursorInv, NoSpuriousFault
    <2>2. PcmInv'
      BY <1>2, <1>4, <1>5 DEF PcmInv, Holds
    <2>3. QED
      BY <2>1, <2>2
  <1>6. CASE ~UNCHANGED <<adopted, played, fOut>>
    <2>1. fpc = "get_seq" /\ Stable(fSnap.seq, pLine.seq) /\ fSnap.gen = gen
      BY <1>6 DEF FwAdopt
    <2>2. Published /\ Cursor(fSnap) = Cursor(pLine)
      BY <2>1 DEF ProducerLineInv, FirmwareReadOK, Reading, Stable, Published, Cursor
    <2>3. played <= adopted /\ adopted <= Cursor(pLine) /\ Cursor(pLine) <= played + Capacity
      BY <2>2 DEF CursorInv
    <2>4. DistanceValid(Cursor(fSnap), played)
      BY <1>1, <2>2, <2>3 DEF DistanceValid
    <2>5. /\ adopted' = Cursor(pLine) /\ fOut' = "OK"
          /\ played' = IF Cursor(pLine) - played >= Period THEN played + Period ELSE played
      BY <1>6, <2>1, <2>2, <2>4 DEF FwAdopt
    <2>6. played' \in Nat /\ played <= played' /\ played' <= Cursor(pLine)
      BY <1>1, <2>3, <2>5
    <2>7. ASSUME NEW c \in Clients, lease[c] # 0
          PROVE  credit[c] <= played' /\ Cursor(pLine) <= write[c] /\ write[c] \in Nat
      <3>1. credit[c] <= played /\ credit[c] \in Nat /\ write[c] \in Nat
        BY <1>1, <2>7, CursorTypes DEF CursorInv
      <3>2. QED
        BY <1>1, <2>2, <2>6, <2>7, <3>1 DEF CursorInv
    <2>8. CursorInv'
      <3>1. /\ played' <= adopted' /\ adopted' <= Cursor(pLine)'
            /\ Cursor(pLine)' <= played' + Capacity
        BY <1>1, <1>2, <2>3, <2>5, <2>6
      <3>2. QED
        BY <1>2, <2>2, <2>5, <2>7, <3>1 DEF CursorInv
    <2>9. Holds(played', Cursor(pLine))
      BY <1>1, <2>2, <2>6, FewerHeld DEF PcmInv
    <2>10. \A c \in Clients : lease[c] # 0 => Holds(played', write[c])
      BY <1>1, <1>4, <2>6, <2>7, FewerHeld
    <2>11. PcmInv'
      BY <1>2, <1>4, <2>5, <2>9, <2>10 DEF PcmInv, Holds
    <2>12. QED
      BY <2>5, <2>8, <2>11 DEF NoSpuriousFault
  <1>7. QED
    BY <1>5, <1>6

LEMMA FirmwareKeepsRing ==
    ASSUME LineInv, ProducerLineInv, CursorInv, PcmInv, NoSpuriousFault,
           FwStep \/ FwRevoke \/ FwRelease
    PROVE  CursorInv' /\ PcmInv' /\ NoSpuriousFault'
  <1>1. CASE FwAdopt
    BY <1>1, AdoptKeepsRing
  <1>2. CASE ~FwAdopt
    <2>1. /\ UNCHANGED <<pLine, ring, gen, pc, lease, write, credit, fed, played, adopted>>
          /\ fOut' \in {fOut, "OK", "REVOKED"}
      BY <1>2 DEF FwStep, FwRevoke, FwRelease, FwSequence, FwGenerationHi, FwLo,
        FwPublishOdd, FwPublishHi, FwPublishLo, FwPublishEven, fwRest, cursors, loop
    <2>2. CursorInv' /\ NoSpuriousFault'
      BY <2>1 DEF CursorInv, NoSpuriousFault, Published, Cursor
    <2>3. PcmInv'
      BY <2>1 DEF PcmInv, Holds, Published, Cursor, StagedFirst, Staged, Required, FreeBytes,
                  Outstanding
    <2>4. QED
      BY <2>2, <2>3
  <1>3. QED
    BY <1>1, <1>2

---------------------------------------------------------------------------
\* When a slot is granted again only after its holder has noticed.

LEMMA RingInvStep ==
    ASSUME ~ReuseWhileHeld, RingInv, [Next]_vars
    PROVE  RingInv'
  <1>1. /\ LineInv /\ ProducerLineInv /\ OneSession /\ CursorInv /\ PcmInv
        /\ NoSpuriousFault /\ TypeOK
    BY DEF RingInv, LineInv
  <1>2. LineInv'
    BY <1>1, LineInvStep
  <1>3. ASSUME NEW c \in Clients, SessionBegin(c)
        PROVE  RingInv'
    <2>1. OneSession' /\ ProducerLineInv' /\ CursorInv' /\ PcmInv'
      BY <1>1, <1>3, BeginKeepsOneSession, BeginKeepsProducerLine, BeginKeepsRing
    <2>2. NoSpuriousFault'
      BY <1>1, <1>3 DEF SessionBegin, NoSpuriousFault
    <2>3. QED
      BY <1>2, <2>1, <2>2 DEF RingInv
  <1>4. ASSUME NEW c \in Clients, ClientStep(c) \/ Crash(c)
        PROVE  RingInv'
    <2>1. OneSession'
      BY <1>1, <1>4, ClientKeepsOneSession
    <2>2. NoSpuriousFault'
      BY <1>1, <1>4 DEF NoSpuriousFault, Crash, ClientStep, PublishOdd, PublishGenerationHi,
        PublishCursorLo, PublishEven, CreditSequence, CreditGenerationHi, CreditLoStatus,
        CreditTaken, CreditRevoked, CreditTorn, LoopAgain, WaitForCredit, WriteFirst,
        WriteWrapped, Drained, SessionEnd, slot
    <2>3. CASE PublishOdd(c) \/ PublishGenerationHi(c) \/ PublishCursorLo(c) \/ PublishEven(c)
      BY <1>1, <1>2, <2>1, <2>2, <2>3, PublishKeepsProducerLine, PublishKeepsRing DEF RingInv
    <2>4. CASE ~PublishOdd(c) /\ ~PublishGenerationHi(c) /\ ~PublishCursorLo(c)
               /\ ~PublishEven(c)
      <3>1. ProducerLineInv'
        BY <1>1, <1>4, <2>4, OtherKeepsProducerLine
      <3>2. CursorInv' /\ PcmInv'
        BY <1>1, <1>4, <2>4, ReadKeepsRing, WriteFirstKeepsRing, WriteWrappedKeepsRing
        DEF ClientStep
      <3>3. QED
        BY <1>2, <2>1, <2>2, <3>1, <3>2 DEF RingInv
    <2>5. QED
      BY <2>3, <2>4
  <1>5. CASE FwStep \/ FwRevoke \/ FwRelease
    <2>1. UNCHANGED <<gen, lease>> /\ holder' \in {holder, Nobody}
      BY <1>5 DEF FwStep, FwRevoke, FwRelease, FwSequence, FwGenerationHi, FwLo, FwAdopt,
        FwPublishOdd, FwPublishHi, FwPublishLo, FwPublishEven, fwRest, cursors
    <2>2. OneSession'
      BY <1>1, <2>1 DEF OneSession
    <2>3. QED
      BY <1>1, <1>2, <1>5, <2>2, FirmwareKeepsProducerLine, FirmwareKeepsRing DEF RingInv
  <1>6. CASE UNCHANGED vars
    <2>1. ProducerLineInv' /\ OneSession' /\ CursorInv' /\ NoSpuriousFault'
      BY <1>1, <1>6 DEF vars, ProducerLineInv, ProducerPuts, FirmwareReadOK, OneSession,
                        CursorInv, NoSpuriousFault, Published, Cursor
    <2>2. PcmInv'
      BY <1>1, <1>6 DEF vars, PcmInv, Holds, Published, Cursor, StagedFirst, Staged, Required,
                        FreeBytes, Outstanding
    <2>3. QED
      BY <1>2, <2>1, <2>2 DEF RingInv
  <1>7. QED
    BY <1>3, <1>4, <1>5, <1>6 DEF Next

LEMMA RingInvariant ==
    ASSUME ~ReuseWhileHeld
    PROVE  Spec => []RingInv
  <1>1. Init => RingInv
    BY InitType, InitLease, InitFirmwareLine, InitRing DEF RingInv, LineInv, Init, InitAt,
       WriteInv
  <1>2. RingInv /\ [Next]_vars => RingInv'
    BY RingInvStep
  <1>3. QED
    BY <1>1, <1>2, PTL DEF Spec

\* Credit <= consumed <= adopted <= staged <= credit + ring size, for the live
\* lease, whatever the word-by-word publications and snapshots of
\* zz9k_audio_ring_producer_publish, zz9k_audio_ring_firmware_publish and the two
\* snapshot helpers do to each other.
THEOREM CursorsNeverCross ==
    ASSUME ~ReuseWhileHeld
    PROVE  Spec => []CursorChain
  <1>1. RingInv => CursorChain
    <2> SUFFICES ASSUME RingInv, NEW c \in Clients, holder = c, lease[c] = gen
                 PROVE  /\ credit[c] <= played /\ played <= adopted
                        /\ adopted <= write[c] /\ write[c] <= credit[c] + Capacity
      BY DEF CursorChain
    <2>1. CursorInv /\ TypeOK /\ LeaseInv
      BY DEF RingInv, LineInv
    <2>2. lease[c] # 0
      BY Numbers DEF RingInv, OneSession
    <2>3. QED
      BY <2>1, <2>2 DEF CursorInv
  <1>2. QED
    BY <1>1, RingInvariant, PTL

\* The firmware finds at every position it has adopted and not yet played the
\* PCM this lease staged there: zz9k_audio_ring_write publishes after it copied,
\* and never copies over what is still to be played.
THEOREM NothingUnplayedIsLost ==
    ASSUME ~ReuseWhileHeld
    PROVE  Spec => []PublishedPcmIntact
  <1>1. RingInv => PublishedPcmIntact
    BY DEF RingInv, PcmInv, Holds, PublishedPcmIntact
  <1>2. QED
    BY <1>1, RingInvariant, PTL

\* A producer that writes only zz9k_audio_ring_free_bytes is never faulted for
\* its cursor, also after an earlier holder died in the middle of a publication.
THEOREM CreditKeepsTheLease ==
    ASSUME ~ReuseWhileHeld
    PROVE  Spec => []NoSpuriousFault
  <1>1. RingInv => NoSpuriousFault
    BY DEF RingInv
  <1>2. QED
    BY <1>1, RingInvariant, PTL

\* zz9k_fabriclease_session ends with OK only when the firmware of this very
\* lease has consumed all of the clip.
THEOREM OkMeansPlayed ==
    ASSUME ~ReuseWhileHeld
    PROVE  Spec => DrainedMeansPlayed
  <1> DEFINE Played == \A c \in Clients : (result'[c] = "OK" /\ result[c] # "OK")
                          => gen = lease[c] /\ played = Target
  <1>1. RingInv /\ [Next]_vars => [Played]_vars
    <2> SUFFICES ASSUME RingInv, Next, NEW c \in Clients, result'[c] = "OK",
                        result[c] # "OK"
                 PROVE  gen = lease[c] /\ played = Target
      BY DEF vars
    <2>1. TypeOK /\ LeaseInv /\ OneSession /\ CursorInv
      BY DEF RingInv, LineInv
    <2>2. Drained(c)
      <3>1. ASSUME NEW d \in Clients, d # c, SessionBegin(d) \/ ClientStep(d) \/ Crash(d)
            PROVE  result'[c] = result[c]
        BY <2>1, <3>1 DEF SessionBegin, ClientStep, Crash, PublishOdd, PublishGenerationHi,
          PublishCursorLo, PublishEven, CreditSequence, CreditGenerationHi, CreditLoStatus,
          CreditTaken, CreditRevoked, CreditTorn, LoopAgain, WaitForCredit, WriteFirst,
          WriteWrapped, Drained, SessionEnd, ForgetLocals, Finish, loop, TypeOK
      <3>2. ASSUME SessionBegin(c) \/ ClientStep(c) \/ Crash(c), ~Drained(c)
            PROVE  result'[c] # "OK"
        BY <2>1, <3>2 DEF SessionBegin, ClientStep, Crash, PublishOdd, PublishGenerationHi,
          PublishCursorLo, PublishEven, CreditSequence, CreditGenerationHi, CreditLoStatus,
          CreditTaken, CreditRevoked, CreditTorn, LoopAgain, WaitForCredit, WriteFirst,
          WriteWrapped, SessionEnd, ForgetLocals, Finish, loop, TypeOK
      <3>3. ~FwStep /\ ~FwRevoke /\ ~FwRelease
        BY DEF FwStep, FwRevoke, FwRelease, FwSequence, FwGenerationHi, FwLo, FwAdopt,
          FwPublishOdd, FwPublishHi, FwPublishLo, FwPublishEven, fwRest, loop
      <3>4. QED
        BY <3>1, <3>2, <3>3 DEF Next
    <2>3. lease[c] # 0 /\ gen = lease[c]
      BY <2>1, <2>2 DEF Drained, LeaseInv, InSession, OneSession
    <2>4. /\ played \in Nat /\ adopted \in Nat /\ write[c] \in Nat /\ credit[c] \in Nat
          /\ fed[c] \in Nat /\ Target \in Nat
      BY <2>1, CursorTypes, Numbers
    <2>5. /\ credit[c] <= played /\ played <= adopted /\ adopted <= write[c]
          /\ fed[c] = write[c] /\ fed[c] <= Target
      BY <2>1, <2>3 DEF CursorInv
    <2>6. fed[c] >= Target /\ write[c] = credit[c]
      <3>1. fed[c] >= Target /\ write[c] - credit[c] = 0
        BY <2>2 DEF Drained, AllPlayed, Outstanding
      <3>2. QED
        BY <2>4, <3>1
    <2>7. QED
      BY <2>3, <2>4, <2>5, <2>6
  <1>2. QED
    BY <1>1, RingInvariant, PTL DEF Spec, DrainedMeansPlayed

---------------------------------------------------------------------------
\* Streamed decoding and the sound of a film, which MCAudio runs beside the rings
\* and which share nothing with them.  Their steps are those of Mp3Stream and of
\* Zzplay, instantiated once by MCAudio (Mp3, Film) and once, with their proofs,
\* here (MP, ZP).

MP == INSTANCE Mp3StreamProofs WITH pc <- decoder, after <- next, result <- ended,
                                    ring <- pcm

ZP == INSTANCE ZzplayProofs WITH card <- videoCard, done <- mediaDone,
                                 heard <- listened, inOrder <- ordered

\* Written out, the two instances of a module are the same formulas.
LEMMA SameStreamSteps == Mp3!Next => MP!Next
  BY DEF Mp3!Ack, MP!Ack, Mp3!AckFrame, MP!AckFrame, Mp3!AckTaken, MP!AckTaken,
         Mp3!AhiBuffers, MP!AhiBuffers, Mp3!AhiPlays, MP!AhiPlays, Mp3!Amounts,
         MP!Amounts, Mp3!Batch, MP!Batch, Mp3!CopyFrame, MP!CopyFrame,
         Mp3!Credit, MP!Credit, Mp3!Decode, MP!Decode, Mp3!DecodeFrame,
         MP!DecodeFrame, Mp3!Disturb, MP!Disturb, Mp3!Drain, MP!Drain,
         Mp3!EmptyRing, MP!EmptyRing, Mp3!Ends, MP!Ends, Mp3!EnoughQueued,
         MP!EnoughQueued, Mp3!Fed, MP!Fed, Mp3!Feed, MP!Feed, Mp3!FeedCall,
         MP!FeedCall, Mp3!Finish, MP!Finish, Mp3!Flush, MP!Flush, Mp3!Flushed,
         MP!Flushed, Mp3!FrameBegins, MP!FrameBegins, Mp3!FrameFeed,
         MP!FrameFeed, Mp3!FrameSource, MP!FrameSource, Mp3!GoesTo, MP!GoesTo,
         Mp3!Is, MP!Is, Mp3!Least, MP!Least, Mp3!MakeRoom, MP!MakeRoom,
         Mp3!Next, MP!Next, Mp3!NoCall, MP!NoCall, Mp3!Portion, MP!Portion,
         Mp3!ReadCall, MP!ReadCall, Mp3!ReadDue, MP!ReadDue, Mp3!ReadFile,
         MP!ReadFile, Mp3!Seek, MP!Seek, Mp3!Settled, MP!Settled, Mp3!Settles,
         MP!Settles, Mp3!Source, MP!Source, Mp3!Staged, MP!Staged, Mp3!Start,
         MP!Start, Mp3!Step, MP!Step, Mp3!Take, MP!Take, Mp3!TakePortion,
         MP!TakePortion, Mp3!TookAll, MP!TookAll, Mp3!Zzplay, MP!Zzplay,
         Mp3!ahi, MP!ahi, Mp3!card, MP!card, Mp3!cursor, MP!cursor, Mp3!ear,
         MP!ear, Mp3!end, MP!end, Mp3!place, MP!place

LEMMA SameFilmSteps == Film!FilmNext => ZP!FilmNext
  BY Zenon
     DEF Film!AhiPlay, ZP!AhiPlay, Film!AhiStalls, ZP!AhiStalls, Film!Available,
         ZP!Available, Film!CallFails, ZP!CallFails, Film!Captured, ZP!Captured,
         Film!CaughtUp, ZP!CaughtUp, Film!Control, ZP!Control, Film!Decodable,
         ZP!Decodable, Film!Decode, ZP!Decode, Film!Drain, ZP!Drain,
         Film!Drained, ZP!Drained, Film!DueAt, ZP!DueAt, Film!Empty, ZP!Empty,
         Film!EndOfStream, ZP!EndOfStream, Film!Fallback, ZP!Fallback,
         Film!FeedRound, ZP!FeedRound, Film!Fill, ZP!Fill, Film!FilmNext,
         ZP!FilmNext, Film!Finish, ZP!Finish, Film!FreeSlots, ZP!FreeSlots,
         Film!FreshCard, ZP!FreshCard, Film!FreshFeed, ZP!FreshFeed,
         Film!FreshSound, ZP!FreshSound, Film!Holds, ZP!Holds, Film!InUse,
         ZP!InUse, Film!Items, ZP!Items, Film!Larger, ZP!Larger, Film!Look,
         ZP!Look, Film!NoFrame, ZP!NoFrame, Film!Over, ZP!Over, Film!Pause,
         ZP!Pause, Film!Play, ZP!Play, Film!Played, ZP!Played, Film!PlayedOf,
         ZP!PlayedOf, Film!PlayedUnits, ZP!PlayedUnits, Film!Poll, ZP!Poll,
         Film!Polled, ZP!Polled, Film!Presented, ZP!Presented, Film!Program,
         ZP!Program, Film!Pumped, ZP!Pumped, Film!Quit, ZP!Quit, Film!Resume,
         ZP!Resume, Film!Retire, ZP!Retire, Film!RetireFrame, ZP!RetireFrame,
         Film!Running, ZP!Running, Film!Sent, ZP!Sent, Film!Sink, ZP!Sink,
         Film!Slots, ZP!Slots, Film!Smaller, ZP!Smaller, Film!StartReady,
         ZP!StartReady, Film!Starts, ZP!Starts, Film!Time, ZP!Time, Film!Total,
         ZP!Total, Film!Unplayed, ZP!Unplayed, Film!UserStops, ZP!UserStops,
         Film!ear, ZP!ear, Film!sink, ZP!sink, Film!stream, ZP!stream,
         Film!user, ZP!user, Film!Cardinality, ZP!Cardinality

LEMMA SameBeginnings ==
    /\ \A place : Mp3!InitAt(place) => MP!InitAt(place)
    /\ \A place, state : Film!FilmInitAt(place, state) => ZP!FilmInitAt(place, state)
  <1>1. ASSUME NEW place, Mp3!InitAt(place) PROVE MP!InitAt(place)
    BY <1>1 DEF Mp3!InitAt, MP!InitAt, Mp3!EmptyRing, MP!EmptyRing
  <1>2. ASSUME NEW place, NEW state, Film!FilmInitAt(place, state)
        PROVE  ZP!FilmInitAt(place, state)
    BY <1>2
       DEF Film!Empty, ZP!Empty, Film!FilmInitAt, ZP!FilmInitAt, Film!FreshCard,
         ZP!FreshCard, Film!FreshFeed, ZP!FreshFeed, Film!FreshSound,
         ZP!FreshSound, Film!NoFrame, ZP!NoFrame, Film!Sink, ZP!Sink,
         Film!Slots, ZP!Slots
  <1>3. QED
    BY <1>1, <1>2

LEMMA FilmAssumed == ZP!ZzplayAssumption
  BY MediaAssumption DEF Film!ZzplayAssumption, ZP!ZzplayAssumption

LEMMA HostStreamInit == ASSUME MP!GoodSetups, MCInit PROVE MP!StreamInv
  <1>1. Mp3!InitAt("start") \/ Mp3!InitAt("ended")
    BY DEF MCInit, StreamInit, NoStream, Mp3!Init
  <1>2. MP!InitAt("start") \/ MP!InitAt("ended")
    BY <1>1, SameBeginnings
  <1>3. QED
    BY <1>2, MP!InitStream

LEMMA HostStreamStep ==
    ASSUME MP!GoodSetups, MP!StreamInv, [MCNext]_<<vars, streamVars, filmVars>>
    PROVE  MP!StreamInv'
  <1>1. UNCHANGED streamVars => UNCHANGED MP!vars
    BY DEF streamVars, MP!vars
  <1>2. MP!Next \/ UNCHANGED MP!vars
    BY <1>1, SameStreamSteps DEF MCNext
  <1>3. QED
    BY <1>2, MP!StreamInvStep

LEMMA HostPlayInit == ASSUME MP!GoodSetups, MP!Patient, MCInit PROVE MP!PlayInv
  <1>1. Mp3!InitAt("start") \/ Mp3!InitAt("ended")
    BY DEF MCInit, StreamInit, NoStream, Mp3!Init
  <1>2. MP!InitAt("start") \/ MP!InitAt("ended")
    BY <1>1, SameBeginnings
  <1>3. QED
    BY <1>2, MP!PlayBegins

LEMMA HostPlayStep ==
    ASSUME MP!GoodSetups, MP!Patient, MP!StreamInv, MP!PlayInv,
           [MCNext]_<<vars, streamVars, filmVars>>
    PROVE  MP!PlayInv'
  <1>1. UNCHANGED streamVars => UNCHANGED MP!vars
    BY DEF streamVars, MP!vars
  <1>2. MP!Next \/ UNCHANGED MP!vars
    BY <1>1, SameStreamSteps DEF MCNext
  <1>3. QED
    BY <1>2, MP!PlayInvStep

LEMMA HostFilmInit == ASSUME MCInit PROVE ZP!FilmInv
  <1>1. Film!FilmInitAt("control", "PLAYING") \/ Film!FilmInitAt("ended", "STOPPED")
    BY DEF MCInit, StreamInit, NoFilm, Film!FilmInit
  <1>2. ZP!FilmInitAt("control", "PLAYING") \/ ZP!FilmInitAt("ended", "STOPPED")
    BY <1>1, SameBeginnings
  <1>3. QED
    BY <1>2, FilmAssumed, ZP!FilmBegins

LEMMA HostFilmStep ==
    ASSUME ZP!FilmInv, [MCNext]_<<vars, streamVars, filmVars>>
    PROVE  ZP!FilmInv'
  <1>1. UNCHANGED filmVars => UNCHANGED ZP!filmVars
    BY DEF filmVars, ZP!filmVars
  <1>2. ZP!FilmNext \/ UNCHANGED ZP!filmVars
    BY <1>1, SameFilmSteps DEF MCNext
  <1>3. QED
    BY <1>2, FilmAssumed, ZP!FilmInvStep

LEMMA HostFilmTells == ASSUME ZP!FilmInv PROVE HeardWhole /\ UnderrunsAreGaps
  <1>1. ZP!HeardWhole /\ ZP!UnderrunsAreGaps
    BY FilmAssumed, ZP!FilmInvTells
  <1>2. \A S : Film!Cardinality(S) = ZP!Cardinality(S)
    BY Zenon DEF Film!Cardinality, ZP!Cardinality
  <1>3. /\ Film!PlayedOut = ZP!PlayedOut /\ Film!Total = ZP!Total
        /\ Film!Captured = ZP!Captured
    BY <1>2 DEF Film!PlayedOut, ZP!PlayedOut, Film!Drained, ZP!Drained, Film!InUse, ZP!InUse,
       Film!Slots, ZP!Slots, Film!Total, ZP!Total, Film!Items, ZP!Items, Film!Captured,
       ZP!Captured
  <1>4. QED
    BY <1>1, <1>3
       DEF HeardWhole, UnderrunsAreGaps, Film!HeardWhole, Film!UnderrunsAreGaps,
           ZP!HeardWhole, ZP!UnderrunsAreGaps

\* The listener has an MP3 file in its order, whatever client plays it: PCM is not
\* overwritten before it is taken, nor taken twice, and no compressed data is skipped
\* (zzplay-mp3.c, zz9k-mp3.c, mpega_resident.c).
THEOREM FileHeardInOrder == ASSUME MP!GoodSetups PROVE MCSpec => []HeardInOrder
  <1>1. MP!StreamInv => HeardInOrder
    BY DEF MP!StreamInv, HeardInOrder, Mp3!HeardInOrder
  <1>2. MCInit => MP!StreamInv
    BY HostStreamInit
  <1>3. MP!StreamInv /\ [MCNext]_<<vars, streamVars, filmVars>> => MP!StreamInv'
    BY HostStreamStep
  <1>4. QED
    BY <1>1, <1>2, <1>3, PTL DEF MCSpec

\* A stream the listener and the card leave alone is played to the end of its file:
\* no loop of a client gives up on the card (the feed and the flush loops of
\* zzplay-mp3.c and zz9k-mp3.c), if the loops are longer than the card can have
\* work (Patient).
THEOREM FilePlaysToItsEnd ==
    ASSUME MP!GoodSetups, MP!Patient
    PROVE  MCSpec => []StreamPlays
  <1>1. MP!StreamInv /\ MP!PlayInv => StreamPlays
    <2>1. MP!StreamInv /\ MP!PlayInv => MP!StreamPlays
      BY MP!PlayTells
    <2>2. MP!StreamPlays => StreamPlays
      BY DEF StreamPlays, Mp3!StreamPlays, MP!StreamPlays
    <2>3. QED
      BY <2>1, <2>2
  <1>2. MCInit => MP!StreamInv /\ MP!PlayInv
    BY HostStreamInit, HostPlayInit
  <1>3. MP!StreamInv /\ MP!PlayInv /\ [MCNext]_<<vars, streamVars, filmVars>>
        => MP!StreamInv' /\ MP!PlayInv'
    BY HostStreamStep, HostPlayStep
  <1>4. QED
    BY <1>1, <1>2, <1>3, PTL DEF MCSpec

LEMMA HostFilmInvariant == MCSpec => []ZP!FilmInv
  <1>1. MCInit => ZP!FilmInv
    BY HostFilmInit
  <1>2. ZP!FilmInv /\ [MCNext]_<<vars, streamVars, filmVars>> => ZP!FilmInv'
    BY HostFilmStep
  <1>3. QED
    BY <1>1, <1>2, PTL DEF MCSpec

\* The listener has the sound of a film in its order, and all of it when the film
\* ends by itself (zzplay_ahi_submit to zzplay_ahi_drained, zzplay_drain_audio).
THEOREM FilmHeardWhole == MCSpec => []HeardWhole
  <1>1. ZP!FilmInv => HeardWhole
    BY HostFilmTells
  <1>2. QED
    BY <1>1, HostFilmInvariant, PTL

\* Each underrun that is reported is a time AHI ran dry before the end of the film
\* (zzplay_ahi_poll, zzplay_ahi_mark_end_of_stream).
THEOREM FilmUnderrunsAreGaps == MCSpec => []UnderrunsAreGaps
  <1>1. ZP!FilmInv => UnderrunsAreGaps
    BY HostFilmTells
  <1>2. QED
    BY <1>1, HostFilmInvariant, PTL
=============================================================================
