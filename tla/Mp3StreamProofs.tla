-------------------------- MODULE Mp3StreamProofs --------------------------
(***************************************************************************)
(* For any file, any sizes of the rings, of a chunk and of a period, and   *)
(* any way in which the card divides its decoding: the listener has the    *)
(* file in its order, and a stream that reports success has all of it.     *)
(*                                                                         *)
(* What the card has of the file is one stretch of it: the compressed data *)
(* that its input ring holds continues the PCM of its PCM ring, that       *)
(* continues what the listener has had, and the chunk in the client's      *)
(* staging buffer continues the input, as long as it is refused.           *)
(* And no loop gives up, if it is longer than what the card may have to    *)
(* decode: then every stream plays to the end of the file.                 *)
(***************************************************************************)
EXTENDS Mp3Stream, Integers, TLAPS

\* The replies show a refused feed until it is repeated; and mpega.library,
\* which does not look at that, has a card that decodes all it can within a
\* call, a PCM ring of a batch of credit and an input ring of a chunk.
GoodSetups ==
    /\ Mp3StreamAssumption
    /\ ReadsKeepFlag
    /\ \A s \in Setups :
         s.client = "mpega" => /\ ~s.sliced /\ AckBatch <= s.pcm
                               /\ s.chunk <= InputCapacity

\* Places: of mpega.library alone, of the others alone, and of both.
FramePlaces  == {"idle", "frame", "acked", "copy"}
StreamPlaces == {"read", "room", "drain", "take", "fed", "flush", "flushed", "settled",
                 "finish"}
SharedPlaces == {"start", "feed", "ack", "ended"}

PlacesOK ==
    /\ pc \in FramePlaces \cup StreamPlaces \cup SharedPlaces
    /\ Is("mpega") => pc \notin StreamPlaces /\ after = "read"
    /\ ~Is("mpega") => pc \notin FramePlaces
    /\ after \in {"read", "room", "fed", "flushed"}
    /\ ~Is("mpega") /\ pc \in {"drain", "take", "ack"} => after # "read"

Numbers ==
    /\ {file, chunk, seen, pending, offset, avail, before, guard, queued, seeks,
        produced, acked, heard} \subseteq Nat
    /\ {eof, started, closed, done, back, intact, disturbed} \subseteq BOOLEAN
    /\ input \in Seq(Nat)

\* units are those of the file after the first from ones, up to the unit to.
Stretch(units, from, to) ==
    /\ Len(units) = to - from
    /\ \A i \in 1..Len(units) : units[i] = from + i

\* A ring of size cells has the PCM of a session for the positions from .. to - 1;
\* the session began after the first base units of the file.
Window(cells, size, from, to, base) ==
    /\ DOMAIN cells = 0..(size - 1)
    /\ \A p \in from..(to - 1) : cells[p % size] = base + p + 1

\* A chunk is in the staging buffer that the card has not accepted yet.
Holding ==
    \/ pc \in {"room", "feed"}
    \/ pc \in {"drain", "take", "ack"} /\ after = "room"
    \/ pc \in {"drain", "take", "ack", "fed"} /\ back

\* How far into the file the card has got; where this session began in it.
Given == IF Holding THEN file - chunk ELSE file
Base  == heard - seen

ChunkOK ==
    /\ chunk <= file /\ (eof => file = FileLength /\ chunk = 0)
    /\ pc \in {"start", "read", "flush", "flushed", "settled", "finish"} => ~back
    /\ pc \in {"flush", "flushed", "settled", "finish"} => eof
    /\ pc \in {"start", "read"} => ~eof
    /\ after = "flushed" => eof /\ ~back

\* The input ring continues the PCM ring, and the PCM ring what was taken.
InputOK ==
    /\ closed => eof
    /\ done => closed /\ input = <<>>
    /\ seen <= heard
    /\ pc # "ended" => Stretch(input, Base + produced, Given)

RingOK == Window(ring, setup.pcm, acked, produced, Base)

\* The card decodes when it can.
CardOK ==
    /\ produced = acked => input = <<>>
    /\ ~setup.sliced => input = <<>> \/ produced - acked = setup.pcm

\* What there is to take is in the ring; only for AHI is it taken in portions.
TakeOK ==
    /\ avail <= produced - seen
    /\ pc = "take" /\ ~Is("ahi") => avail = produced - seen

\* mpega.library comes back for more with less than a batch of credit.
FrameOK ==
    Is("mpega") =>
      /\ ~back /\ avail = 0
      /\ pc \in {"start", "idle", "frame", "acked", "feed", "copy"} => pending < AckBatch
      /\ pc \in {"acked", "feed"} => guard < Retries /\ acked = produced

\* What a stream that ends well has been through.
EndOK ==
    /\ pc = "flushed" /\ Is("mp3") => produced = seen
    /\ pc = "finish" => produced = acked
    /\ pc = "ended" /\ result = "ok" => heard = FileLength
    /\ pc # "ended" => result = "none"

StreamInv == /\ TypeOK /\ PlacesOK /\ Numbers /\ ChunkOK /\ InputOK /\ RingOK /\ CardOK
             /\ TakeOK /\ FrameOK /\ EndOK /\ intact

---------------------------------------------------------------------------
\* Positions and the cells of a ring.

LEMMA DivMod ==
    ASSUME NEW x \in Nat, NEW n \in Nat \ {0}
    PROVE  /\ x \div n \in Nat /\ x % n \in 0..(n - 1)
           /\ x = n * (x \div n) + (x % n)
  <1>1. x \div n \in Nat /\ x % n \in 0..(n - 1)
    OBVIOUS
  <1>2. x = n * (x \div n) + (x % n)
    OBVIOUS
  <1>3. QED
    BY <1>1, <1>2

LEMMA SameQuotient ==
    ASSUME NEW n \in Nat \ {0}, NEW k \in Int, NEW j \in Int,
           n * k < n * j + n, n * j < n * k + n
    PROVE  k = j
  OBVIOUS

LEMMA ModIsRest ==
    ASSUME NEW n \in Nat \ {0}, NEW k \in Nat, NEW r \in 0..(n - 1)
    PROVE  (n * k + r) % n = r
  <1> DEFINE x == n * k + r
  <1>1. x \in Nat
    OBVIOUS
  <1>2. x = n * (x \div n) + (x % n) /\ x % n \in 0..(n - 1) /\ x \div n \in Nat
    BY <1>1, DivMod
  <1> HIDE DEF x
  <1>3. x = n * k + r
    BY DEF x
  <1>4. x \div n = k
    BY <1>2, <1>3, SameQuotient
  <1>5. n * (x \div n) = n * k
    BY <1>4
  <1>6. QED
    BY <1>2, <1>3, <1>5 DEF x

\* Going on from a cell by less than a ring, and from a remainder.
LEMMA ModStep ==
    ASSUME NEW n \in Nat \ {0}, NEW x \in Nat, NEW d \in 0..n
    PROVE  (x + d) % n = IF (x % n) + d < n THEN (x % n) + d ELSE (x % n) + d - n
  <1> DEFINE k == x \div n
             r == x % n
  <1>1. k \in Nat /\ r \in 0..(n - 1) /\ x = n * k + r
    BY DivMod
  <1> HIDE DEF k, r
  <1>2. CASE r + d < n
    <2>1. x + d = n * k + (r + d) /\ r + d \in 0..(n - 1)
      BY <1>1, <1>2
    <2>2. (n * k + (r + d)) % n = r + d
      BY <1>1, <2>1, ModIsRest
    <2>3. QED
      BY <1>2, <2>1, <2>2 DEF r
  <1>3. CASE r + d >= n
    <2>1. n * (k + 1) = n * k + n /\ k + 1 \in Nat
      BY <1>1
    <2>2. x + d = n * (k + 1) + (r + d - n) /\ r + d - n \in 0..(n - 1)
      BY <1>1, <1>3, <2>1
    <2>3. (n * (k + 1) + (r + d - n)) % n = r + d - n
      BY <2>1, <2>2, ModIsRest
    <2>4. QED
      BY <1>1, <1>3, <2>2, <2>3 DEF r
  <1>4. QED
    BY <1>1, <1>2, <1>3

\* Where a cell is counted from: of the n cells from the one of position x on, the
\* cell of x + d is number d.
LEMMA CellAhead ==
    ASSUME NEW n \in Nat \ {0}, NEW x \in Nat, NEW d \in 0..(n - 1)
    PROVE  /\ (x + d) % n \in 0..(n - 1)
           /\ (((x + d) % n) + n - (x % n)) % n = d
  <1> DEFINE r == x % n
  <1>1. r \in 0..(n - 1)
    BY DivMod
  <1>2. (x + d) % n = IF r + d < n THEN r + d ELSE r + d - n
    <2>1. d \in 0..n
      OBVIOUS
    <2>2. QED
      BY <2>1, ModStep
  <1> HIDE DEF r
  <1>3. CASE r + d < n
    <2>1. ((x + d) % n) + n - r = n * 1 + d
      BY <1>1, <1>2, <1>3
    <2>2. (n * 1 + d) % n = d
      BY ModIsRest
    <2>3. QED
      BY <1>1, <1>2, <1>3, <2>1, <2>2 DEF r
  <1>4. CASE r + d >= n
    <2>1. ((x + d) % n) + n - r = n * 0 + d
      BY <1>1, <1>2, <1>4
    <2>2. (n * 0 + d) % n = d
      BY ModIsRest
    <2>3. QED
      BY <1>1, <1>2, <1>4, <2>1, <2>2 DEF r
  <1>5. QED
    BY <1>1, <1>3, <1>4

\* What is still held stays: a position less than a ring behind has the cell of one
\* that is as much ahead.
LEMMA CellBehind ==
    ASSUME NEW n \in Nat \ {0}, NEW x \in Nat, NEW m \in 1..n, m <= x
    PROVE  /\ (x - m) % n \in 0..(n - 1)
           /\ (((x - m) % n) + n - (x % n)) % n = n - m
  <1>1. x - m \in Nat /\ n \in 0..n
    OBVIOUS
  <1>2. (x - m) % n \in 0..(n - 1)
    BY <1>1, DivMod
  <1>3. ((x - m) + n) % n = (x - m) % n
    <2>1. ((x - m) + n) % n = IF ((x - m) % n) + n < n THEN ((x - m) % n) + n
                                                     ELSE ((x - m) % n) + n - n
      BY <1>1, ModStep
    <2>2. QED
      BY <1>2, <2>1
  <1>4. (x - m) + n = x + (n - m) /\ n - m \in 0..(n - 1)
    OBVIOUS
  <1>5. (((x + (n - m)) % n) + n - (x % n)) % n = n - m
    BY <1>4, CellAhead
  <1>6. QED
    BY <1>2, <1>3, <1>4, <1>5

---------------------------------------------------------------------------
\* Stretches of the file.

LEMMA TailOfStretch ==
    ASSUME NEW units \in Seq(Nat), NEW from \in Nat, NEW to \in Nat,
           Stretch(units, from, to), NEW k \in 0..Len(units)
    PROVE  /\ SubSeq(units, k + 1, Len(units)) \in Seq(Nat)
           /\ Len(SubSeq(units, k + 1, Len(units))) = Len(units) - k
           /\ Stretch(SubSeq(units, k + 1, Len(units)), from + k, to)
  <1> DEFINE rest == SubSeq(units, k + 1, Len(units))
  <1>1. Len(units) \in Nat /\ k \in Nat /\ k <= Len(units)
    OBVIOUS
  <1>2. /\ rest \in Seq(Nat) /\ Len(rest) = Len(units) - k
        /\ \A i \in 1..Len(rest) : rest[i] = units[i + k]
    BY <1>1
  <1> HIDE DEF rest
  <1>3. ASSUME NEW i \in 1..Len(rest)
        PROVE  rest[i] = from + k + i
    <2>1. i + k \in 1..Len(units) /\ rest[i] = units[i + k]
      BY <1>1, <1>2
    <2>2. units[i + k] = from + (i + k)
      BY <2>1 DEF Stretch
    <2>3. QED
      BY <1>1, <2>1, <2>2
  <1>4. Len(rest) = to - (from + k)
    BY <1>1, <1>2 DEF Stretch
  <1>5. QED
    BY <1>2, <1>3, <1>4 DEF Stretch, rest

LEMMA JoinOfStretches ==
    ASSUME NEW units \in Seq(Nat), NEW from \in Nat, NEW to \in Nat,
           Stretch(units, from, to), NEW n \in Nat,
           NEW more, more = [i \in 1..n |-> to + i]
    PROVE  /\ units \o more \in Seq(Nat)
           /\ Len(units \o more) = Len(units) + n
           /\ Stretch(units \o more, from, to + n)
  <1>1. more \in Seq(Nat) /\ Len(more) = n
    OBVIOUS
  <1>2. /\ units \o more \in Seq(Nat) /\ Len(units \o more) = Len(units) + n
        /\ Len(units) \in Nat
        /\ \A i \in 1..(Len(units) + n) :
             (units \o more)[i] = IF i <= Len(units) THEN units[i]
                                  ELSE more[i - Len(units)]
    BY <1>1
  <1>3. Len(units) = to - from
    BY DEF Stretch
  <1>4. ASSUME NEW i \in 1..(Len(units) + n)
        PROVE  (units \o more)[i] = from + i
    <2>1. CASE i <= Len(units)
      BY <1>2, <2>1 DEF Stretch
    <2>2. CASE i > Len(units)
      <3>1. i - Len(units) \in 1..n
        BY <1>2, <2>2
      <3>2. more[i - Len(units)] = to + (i - Len(units))
        BY <3>1
      <3>3. (units \o more)[i] = more[i - Len(units)]
        BY <1>2, <2>2
      <3>4. to + (i - Len(units)) = from + i
        BY <1>2, <1>3
      <3>5. QED
        BY <3>2, <3>3, <3>4
    <2>3. QED
      BY <1>2, <2>1, <2>2
  <1>5. Len(units \o more) = (to + n) - from
    BY <1>2, <1>3
  <1>6. \A i \in 1..Len(units \o more) : (units \o more)[i] = from + i
    BY <1>2, <1>4
  <1>7. QED
    BY <1>2, <1>5, <1>6 DEF Stretch

---------------------------------------------------------------------------
\* The card.

\* A position that is held or being written lies ahead of the write or behind it.
LEMMA AheadOrBehind ==
    ASSUME NEW n \in Nat \ {0}, NEW from \in Nat, NEW to \in Nat, NEW k \in Nat,
           NEW p \in Nat, from <= p, p < to + k, from <= to, to + k <= from + n
    PROVE  /\ p >= to => p - to \in 0..(n - 1) /\ to + (p - to) = p /\ p - to < k
           /\ p < to => /\ to - p \in 1..n /\ to - (to - p) = p /\ to - p <= to
                       /\ n - (to - p) >= k
  OBVIOUS

\* Writing up to the room there is keeps what is still held.
LEMMA WindowGrows ==
    ASSUME NEW n \in Nat \ {0}, NEW from \in Nat, NEW to \in Nat, NEW base \in Nat,
           NEW k \in Nat, from <= to, to + k <= from + n,
           NEW cells, Window(cells, n, from, to, base),
           NEW units, NEW end_, Stretch(units, base + to, end_), k <= Len(units),
           Len(units) \in Nat,
           NEW new, DOMAIN new = DOMAIN cells,
           \A i \in 0..(n - 1) :
             LET j == (i + n - (to % n)) % n
             IN new[i] = IF j < k THEN units[j + 1] ELSE cells[i]
    PROVE  Window(new, n, from, to + k, base)
  <1> DEFINE Ahead(i) == (i + n - (to % n)) % n
  <1>1. DOMAIN new = 0..(n - 1) /\ DOMAIN cells = 0..(n - 1)
    BY DEF Window
  <1>2. ASSUME NEW p \in from..(to + k - 1)
        PROVE  new[p % n] = base + p + 1
    <2>1. p \in Nat /\ from <= p /\ p < to + k /\ p % n \in 0..(n - 1)
      <3>1. p \in Nat /\ from <= p /\ p < to + k
        OBVIOUS
      <3>2. QED
        BY <3>1, DivMod
    <2>2. new[p % n] = IF Ahead(p % n) < k THEN units[Ahead(p % n) + 1] ELSE cells[p % n]
      BY <1>1, <2>1
    <2>3. CASE p >= to
      <3>1. p - to \in 0..(n - 1) /\ to + (p - to) = p /\ p - to < k
        BY <2>1, <2>3, AheadOrBehind
      <3>2. Ahead(p % n) = p - to
        <4>1. (((to + (p - to)) % n) + n - (to % n)) % n = p - to
          BY <3>1, CellAhead
        <4>2. QED
          BY <3>1, <4>1
      <3>3. (p - to) + 1 \in 1..Len(units)
        BY <3>1
      <3>4. units[(p - to) + 1] = base + to + ((p - to) + 1)
        BY <3>3 DEF Stretch
      <3>5. base + to + ((p - to) + 1) = base + p + 1
        BY <2>1
      <3> HIDE DEF Ahead
      <3>6. QED
        BY <2>2, <3>1, <3>2, <3>4, <3>5
    <2>4. CASE p < to
      <3>1. to - p \in 1..n /\ to - (to - p) = p /\ to - p <= to /\ n - (to - p) >= k
        BY <2>1, <2>4, AheadOrBehind
      <3>2. Ahead(p % n) = n - (to - p)
        BY <3>1, CellBehind
      <3>3. cells[p % n] = base + p + 1
        <4>1. p \in from..(to - 1)
          BY <2>1, <2>4
        <4>2. QED
          BY <4>1 DEF Window
      <3> HIDE DEF Ahead
      <3>4. n - (to - p) \in Int
        BY <2>1
      <3>5. QED
        BY <2>2, <3>1, <3>2, <3>3, <3>4
    <2>5. QED
      BY <2>1, <2>3, <2>4
  <1>3. QED
    BY <1>1, <1>2 DEF Window

LEMMA WindowShrinks ==
    ASSUME NEW n \in Nat, NEW from \in Nat, NEW to \in Nat, NEW base, NEW cells,
           Window(cells, n, from, to, base), NEW freed \in Nat, from <= freed
    PROVE  Window(cells, n, freed, to, base)
  BY DEF Window

\* What the card does within a call.
LEMMA DecodeEffect ==
    ASSUME setup.pcm \in Nat \ {0}, produced \in Nat, NEW base \in Nat, NEW end_ \in Nat,
           NEW compressed \in Seq(Nat), Stretch(compressed, base + produced, end_),
           NEW freed \in Nat, freed <= produced, produced - freed <= setup.pcm,
           Window(ring, setup.pcm, freed, produced, base), Decode(compressed, freed)
    PROVE  /\ produced' \in Nat /\ produced <= produced'
           /\ produced' - freed <= setup.pcm /\ acked' = freed
           /\ input' \in Seq(Nat) /\ Len(input') <= Len(compressed)
           /\ Stretch(input', base + produced', end_)
           /\ Window(ring', setup.pcm, freed, produced', base)
           /\ produced' = freed => input' = <<>>
           /\ ~setup.sliced => input' = <<>> \/ produced' - freed = setup.pcm
           /\ done' \in BOOLEAN /\ (done' => closed' /\ input' = <<>>)
           /\ compressed = <<>> => produced' = produced /\ input' = <<>>
  <1>1. PICK n \in Amounts(compressed, freed) :
          /\ input' = SubSeq(compressed, n + 1, Len(compressed))
          /\ produced' = produced + n
          /\ ring' = [i \in DOMAIN ring |->
                        LET k == (i + setup.pcm - (produced % setup.pcm)) % setup.pcm
                        IN IF k < n THEN compressed[k + 1] ELSE ring[i]]
          /\ acked' = freed
          /\ done' = (closed' /\ input' = <<>>)
    BY DEF Decode
  <1>2. /\ input' = SubSeq(compressed, n + 1, Len(compressed))
        /\ produced' = produced + n
    BY <1>1
  <1>3. acked' = freed /\ done' = (closed' /\ input' = <<>>)
    BY <1>1
  <1> DEFINE len  == Len(compressed)
             room == setup.pcm - (produced - freed)
  <1>4. len \in Nat /\ room \in Nat
    OBVIOUS
  <1> HIDE DEF len, room
  <1>5. /\ n \in Nat /\ n <= len /\ n <= room
        /\ n = 0 => len = 0 \/ room = 0
        /\ ~setup.sliced => n = len \/ n = room
    BY <1>4 DEF Amounts, Least, len, room
  <1>6. /\ input' \in Seq(Nat) /\ Len(input') = len - n
        /\ Stretch(input', base + produced + n, end_)
    <2>1. n \in 0..Len(compressed) /\ base + produced \in Nat
      BY <1>4, <1>5 DEF len
    <2>2. QED
      BY <1>2, <2>1, TailOfStretch DEF len
  <1>7. base + produced + n = base + produced'
    BY <1>2, <1>5
  <1>8. Window(ring', setup.pcm, freed, produced', base)
    <2>1. produced + n <= freed + setup.pcm
      BY <1>4, <1>5 DEF room
    <2>2. n <= Len(compressed) /\ Len(compressed) \in Nat
      BY <1>4, <1>5 DEF len
    <2>3. ring' = [i \in DOMAIN ring |->
                     LET k == (i + setup.pcm - (produced % setup.pcm)) % setup.pcm
                     IN IF k < n THEN compressed[k + 1] ELSE ring[i]]
      BY <1>1
    <2>4. /\ DOMAIN ring' = DOMAIN ring
          /\ \A i \in 0..(setup.pcm - 1) :
               LET k == (i + setup.pcm - (produced % setup.pcm)) % setup.pcm
               IN ring'[i] = IF k < n THEN compressed[k + 1] ELSE ring[i]
      BY <2>3 DEF Window
    <2>5. Window(ring', setup.pcm, freed, produced + n, base)
      BY <1>5, <2>1, <2>2, <2>4, WindowGrows
    <2>6. QED
      BY <1>2, <2>5
  <1>9. n = len => input' = <<>>
    BY <1>4, <1>5, <1>6
  <1>10. produced' \in Nat /\ produced <= produced' /\ produced' - freed <= setup.pcm
    BY <1>2, <1>4, <1>5 DEF room
  <1>11. ASSUME produced' = freed
         PROVE  input' = <<>>
    <2>1. n = 0 /\ room = setup.pcm
      BY <1>2, <1>5, <1>11 DEF room
    <2>2. len = 0
      BY <1>5, <2>1
    <2>3. QED
      BY <1>9, <2>1, <2>2
  <1>12. ASSUME ~setup.sliced
         PROVE  input' = <<>> \/ produced' - freed = setup.pcm
    <2>1. CASE n = len
      BY <1>9, <2>1
    <2>2. CASE n = room
      <3>1. produced' = produced + (setup.pcm - (produced - freed))
        BY <1>2, <2>2 DEF room
      <3>2. produced' - freed = setup.pcm
        BY <3>1
      <3>3. QED
        BY <3>2
    <2>3. QED
      BY <1>5, <1>12, <2>1, <2>2
  <1>13. ASSUME compressed = <<>>
         PROVE  produced' = produced /\ input' = <<>>
    <2>1. len = 0
      BY <1>13 DEF len
    <2>2. QED
      BY <1>2, <1>5, <1>9, <2>1
  <1>14. Len(input') <= Len(compressed)
    BY <1>4, <1>5, <1>6 DEF len
  <1>15. QED
    BY <1>3, <1>6, <1>7, <1>8, <1>10, <1>11, <1>12, <1>13, <1>14

---------------------------------------------------------------------------
\* A call that feeds nothing.

LEMMA Sizes ==
    ASSUME GoodSetups, setup \in Setups
    PROVE  /\ setup.pcm \in Nat \ {0} /\ setup.chunk \in Nat \ {0}
           /\ setup.period \in Nat \ {0} /\ setup.sliced \in BOOLEAN
           /\ setup.client \in {"zzplay", "ahi", "mp3", "mpega"}
           /\ FileLength \in Nat \ {0} /\ InputCapacity \in Nat \ {0}
           /\ AckBatch \in Nat \ {0} /\ FullPcm \in Nat \ {0} /\ Retries \in Nat \ {0}
           /\ MaxSeeks \in Nat /\ ReadsKeepFlag
           /\ Is("mpega") => /\ ~setup.sliced /\ AckBatch <= setup.pcm
                             /\ setup.chunk <= InputCapacity
  <1>1. setup \in SetupType /\ 0 \notin {setup.pcm, setup.chunk, setup.period}
    BY DEF GoodSetups, Mp3StreamAssumption
  <1>2. QED
    BY <1>1 DEF GoodSetups, Mp3StreamAssumption, SetupType, Is

\* What a call leaves true that returns credit, or none, and feeds nothing.
Called ==
    /\ seen' = seen /\ offset' = seen % setup.pcm
    /\ pending' \in Nat /\ acked' \in Nat /\ pending' = seen - acked'
    /\ acked <= acked' /\ acked' <= seen
    /\ produced' \in Nat /\ produced <= produced' /\ produced' - acked' <= setup.pcm
    /\ input' \in Seq(Nat) /\ Len(input') <= InputCapacity
    /\ pc # "ended" => Stretch(input', Base + produced', Given)
    /\ Window(ring', setup.pcm, acked', produced', Base)
    /\ produced' = acked' => input' = <<>>
    /\ ~setup.sliced => input' = <<>> \/ produced' - acked' = setup.pcm
    /\ closed' = closed /\ back' = back
    /\ done' \in BOOLEAN /\ (done' => closed /\ input' = <<>>)
    /\ input = <<>> => produced' = produced /\ input' = <<>>

LEMMA NoCallEffect ==
    ASSUME GoodSetups, StreamInv, NoCall
    PROVE  Called /\ pending' = pending
  <1>1. TypeOK /\ Numbers /\ InputOK /\ RingOK /\ CardOK
    BY DEF StreamInv
  <1>2. UNCHANGED <<input, closed, produced, acked, ring, done, back, seen, pending, offset>>
    BY DEF NoCall, card, cursor
  <1>3. /\ pending \in Nat /\ acked \in Nat /\ seen \in Nat /\ produced \in Nat
        /\ pending = seen - acked /\ acked <= seen /\ offset = seen % setup.pcm
        /\ produced - acked <= setup.pcm /\ input \in Seq(Nat) /\ Len(input) <= InputCapacity
        /\ done \in BOOLEAN
    BY <1>1 DEF TypeOK, Numbers
  <1>4. /\ pc # "ended" => Stretch(input, Base + produced, Given)
        /\ Window(ring, setup.pcm, acked, produced, Base)
    BY <1>1 DEF InputOK, RingOK
  <1>5. /\ produced = acked => input = <<>>
        /\ ~setup.sliced => input = <<>> \/ produced - acked = setup.pcm
        /\ done => closed /\ input = <<>>
    BY <1>1 DEF InputOK, CardOK
  <1>6. QED
    BY <1>2, <1>3, <1>4, <1>5 DEF Called

LEMMA ReadCallEffect ==
    ASSUME GoodSetups, StreamInv, ReadCall, pc # "ended"
    PROVE  Called /\ pending' = 0
  <1>1. TypeOK /\ Numbers /\ InputOK /\ RingOK /\ CardOK /\ ChunkOK
    BY DEF StreamInv
  <1>2. /\ setup.pcm \in Nat \ {0} /\ ReadsKeepFlag
        /\ file \in Nat /\ chunk \in Nat /\ chunk <= file
        /\ produced \in Nat /\ acked \in Nat /\ seen \in Nat /\ heard \in Nat
        /\ pending = seen - acked /\ acked <= seen /\ seen <= produced /\ seen <= heard
        /\ produced - acked <= setup.pcm
        /\ input \in Seq(Nat) /\ Len(input) <= InputCapacity /\ back \in BOOLEAN
    BY <1>1, Sizes DEF TypeOK, Numbers, InputOK, ChunkOK
  <1>3. /\ closed' = closed /\ back' = back /\ Decode(input, acked + pending)
        /\ pending' = 0 /\ offset' = acked' % setup.pcm /\ seen' = seen
    BY <1>2 DEF ReadCall
  <1>4. acked + pending = seen /\ Decode(input, seen)
    <2>1. acked + pending = seen
      BY <1>2
    <2>2. QED
      BY <1>3, <2>1
  <1>5. Base \in Nat /\ Given \in Nat
    BY <1>2 DEF Base, Given
  <1>6. Stretch(input, Base + produced, Given)
    BY <1>1 DEF InputOK
  <1>7. Window(ring, setup.pcm, seen, produced, Base)
    BY <1>1, <1>2, WindowShrinks DEF RingOK
  <1>8. seen <= produced /\ produced - seen <= setup.pcm
    BY <1>2
  <1>9. /\ produced' \in Nat /\ produced <= produced'
        /\ produced' - seen <= setup.pcm /\ acked' = seen
        /\ input' \in Seq(Nat) /\ Len(input') <= Len(input)
        /\ Stretch(input', Base + produced', Given)
        /\ Window(ring', setup.pcm, seen, produced', Base)
        /\ produced' = seen => input' = <<>>
        /\ ~setup.sliced => input' = <<>> \/ produced' - seen = setup.pcm
        /\ done' \in BOOLEAN /\ (done' => closed' /\ input' = <<>>)
        /\ input = <<>> => produced' = produced /\ input' = <<>>
    BY <1>2, <1>4, <1>5, <1>6, <1>7, <1>8, DecodeEffect
  <1>10. Len(input') <= InputCapacity
    <2>1. Len(input) \in Nat /\ Len(input') \in Nat /\ InputCapacity \in Nat
      <3>1. input \in Seq(Nat) /\ input' \in Seq(Nat)
        BY <1>2, <1>9
      <3>2. Len(input) \in Nat /\ Len(input') \in Nat
        BY <3>1
      <3>3. InputCapacity \in Nat
        BY <1>1, Sizes DEF TypeOK
      <3>4. QED
        BY <3>2, <3>3
    <2>2. QED
      BY <1>2, <1>9, <2>1
  <1>11. pending' = seen - acked' /\ acked <= acked' /\ acked' <= seen
    BY <1>2, <1>3, <1>9
  <1>12. produced' - acked' <= setup.pcm /\ acked' \in Nat /\ pending' \in Nat
    BY <1>2, <1>3, <1>9
  <1>13. /\ Window(ring', setup.pcm, acked', produced', Base)
         /\ produced' = acked' => input' = <<>>
         /\ ~setup.sliced => input' = <<>> \/ produced' - acked' = setup.pcm
    BY <1>9
  <1>14. offset' = seen % setup.pcm
    BY <1>3, <1>9
  <1>15. QED
    BY <1>3, <1>9, <1>10, <1>11, <1>12, <1>13, <1>14 DEF Called

LEMMA AckEffect ==
    ASSUME GoodSetups, StreamInv, pc # "ended", NEW force \in BOOLEAN, Ack(force)
    PROVE  /\ Called /\ pending' <= pending
           /\ ReadDue(force) => pending' = 0
  <1>1. pending \in Nat
    BY DEF StreamInv, Numbers
  <1>2. CASE ReadDue(force)
    <2>1. ReadCall
      BY <1>2 DEF Ack
    <2>2. QED
      BY <1>1, <2>1, ReadCallEffect
  <1>3. CASE ~ReadDue(force)
    <2>1. NoCall
      BY <1>3 DEF Ack
    <2>2. QED
      BY <1>1, <1>3, <2>1, NoCallEffect
  <1>4. QED
    BY <1>2, <1>3

\* A step that feeds and takes nothing keeps what is known of the data, provided the
\* chunk stays refused or accepted.
ControlOK ==
    /\ setup' = setup /\ heard' = heard /\ intact' = intact
    /\ file' \in 0..FileLength /\ chunk' \in 0..setup.chunk /\ eof' \in BOOLEAN
    /\ before' \in Nat /\ guard' \in 0..Retries /\ rounds' \in 0..Retries
    /\ seeks' \in 0..MaxSeeks
    /\ avail' \in Nat /\ avail' <= produced - seen
    /\ queued' \in 0..AhiBuffers /\ started' \in BOOLEAN /\ disturbed' \in BOOLEAN
    /\ result' \in {"none", "ok", "failed"}
    /\ closed => eof'
    /\ pc' # "ended" => pc # "ended" /\ Given' = Given

LEMMA DataKept ==
    ASSUME GoodSetups, StreamInv, Called, ControlOK
    PROVE  /\ TypeOK' /\ Numbers' /\ InputOK' /\ RingOK' /\ CardOK' /\ intact'
           /\ avail' <= produced' - seen'
  <1>1. TypeOK /\ Numbers /\ InputOK /\ intact
    BY DEF StreamInv
  <1>2. /\ setup \in Setups /\ setup.pcm \in Nat \ {0} /\ setup.chunk \in Nat
        /\ FileLength \in Nat /\ Retries \in Nat /\ MaxSeeks \in Nat
    BY <1>1, Sizes DEF TypeOK
  <1>3. /\ acked \in Nat /\ seen \in Nat /\ produced \in Nat /\ heard \in Nat
        /\ seen <= produced /\ seen <= heard
    BY <1>1 DEF TypeOK, Numbers, InputOK
  <1>4. pending' \in Nat /\ acked' \in Nat /\ produced' \in Nat /\ avail' \in Nat
    BY DEF Called, ControlOK
  <1>5. /\ seen' = seen /\ acked <= acked' /\ acked' <= seen /\ produced <= produced'
        /\ avail' <= produced - seen
    BY DEF Called, ControlOK
  <1>6. avail' <= produced' - seen' /\ avail' <= produced'
    <2>1. \A some, made, taken, later \in Nat :
            some <= made - taken /\ made <= later
              => some <= later - taken /\ some <= later
      OBVIOUS
    <2>2. avail' <= produced' - seen /\ avail' <= produced'
      BY <1>3, <1>4, <1>5, <2>1
    <2>3. QED
      BY <1>5, <2>2
  <1>13. /\ closed' = closed /\ back' = back /\ done' \in BOOLEAN
         /\ setup' = setup /\ heard' = heard
    BY DEF Called, ControlOK
  <1>7. TypeOK'
    <2>1. /\ setup' \in Setups /\ file' \in 0..FileLength /\ chunk' \in 0..setup'.chunk
          /\ queued' \in 0..AhiBuffers /\ guard' \in 0..Retries
          /\ rounds' \in 0..Retries /\ seeks' \in 0..MaxSeeks /\ result' \in {"none", "ok", "failed"}
      BY <1>2, <1>13 DEF ControlOK
    <2>2. 0 <= acked' /\ acked' <= seen' /\ seen' <= produced'
      BY <1>3, <1>4, <1>5
    <2>3. /\ produced' - acked' <= setup'.pcm /\ pending' = seen' - acked'
          /\ offset' = seen' % setup'.pcm /\ Len(input') <= InputCapacity
      BY <1>13 DEF Called
    <2>4. QED
      BY <1>6, <2>1, <2>2, <2>3 DEF TypeOK
  <1>8. Numbers'
    <2>1. {file', chunk', before', guard', queued', seeks'} \subseteq Nat
      BY <1>2 DEF ControlOK, AhiBuffers
    <2>2. {eof', started', closed', done', back', intact', disturbed'} \subseteq BOOLEAN
      BY <1>1, <1>13 DEF Numbers, ControlOK
    <2>3. offset' \in Nat
      <3>1. offset' = seen % setup.pcm
        BY DEF Called
      <3>2. QED
        BY <1>2, <1>3, <3>1, DivMod
    <2>4. input' \in Seq(Nat)
      BY DEF Called
    <2>5. seen' \in Nat /\ heard' \in Nat
      BY <1>3, <1>5, <1>13
    <2>6. QED
      BY <1>4, <2>1, <2>2, <2>3, <2>4, <2>5 DEF Numbers
  <1>9. Base' = Base
    BY <1>5, <1>13 DEF Base
  <1>10. InputOK'
    BY <1>3, <1>5, <1>9, <1>13 DEF InputOK, Called, ControlOK
  <1>11. RingOK' /\ CardOK'
    BY <1>9, <1>13 DEF RingOK, CardOK, Called
  <1>12. QED
    BY <1>1, <1>6, <1>7, <1>8, <1>10, <1>11 DEF ControlOK

---------------------------------------------------------------------------
\* The steps that feed and take nothing.

\* What is known where a step begins, the data left out.
LEMMA Known ==
    ASSUME GoodSetups, StreamInv
    PROVE  /\ setup \in Setups /\ setup.chunk \in Nat \ {0} /\ setup.pcm \in Nat \ {0}
           /\ FileLength \in Nat /\ Retries \in Nat /\ MaxSeeks \in Nat
           /\ file \in 0..FileLength /\ chunk \in 0..setup.chunk /\ eof \in BOOLEAN
           /\ before \in Nat /\ guard \in 0..Retries /\ rounds \in 0..Retries
           /\ seeks \in 0..MaxSeeks
           /\ avail \in Nat /\ avail <= produced - seen
           /\ queued \in 0..AhiBuffers /\ started \in BOOLEAN /\ disturbed \in BOOLEAN
           /\ result \in {"none", "ok", "failed"} /\ (closed => eof)
  BY Sizes DEF StreamInv, TypeOK, Numbers, InputOK, TakeOK

LEMMA KnownNumbers ==
    ASSUME StreamInv
    PROVE  /\ seen \in Nat /\ produced \in Nat /\ acked \in Nat /\ pending \in Nat
           /\ heard \in Nat /\ file \in Nat /\ chunk \in Nat
           /\ back \in BOOLEAN /\ done \in BOOLEAN /\ closed \in BOOLEAN /\ eof \in BOOLEAN
           /\ acked <= seen /\ seen <= produced /\ pending = seen - acked
  BY DEF StreamInv, TypeOK, Numbers

LEMMA CalledFlags ==
    ASSUME Called
    PROVE  /\ back' = back /\ closed' = closed /\ seen' = seen
  BY DEF Called

\* Reading a chunk leaves what the card was given: it is not given yet.
LEMMA SourceEffect ==
    ASSUME GoodSetups, StreamInv, Source
    PROVE  /\ file' \in 0..FileLength /\ chunk' \in 0..setup.chunk /\ chunk' <= file'
           /\ file' - chunk' = file /\ eof' \in BOOLEAN
           /\ eof' => chunk' = 0 /\ file' = FileLength
  <1>1. /\ setup.chunk \in Nat \ {0} /\ FileLength \in Nat /\ file \in 0..FileLength
    BY Known
  <1>2. PICK got \in Nat : /\ got = Least(setup.chunk, FileLength - file)
                          /\ file' = file + got /\ chunk' = got /\ eof' = (got = 0)
    BY <1>1 DEF Source, Least
  <1>3. got <= setup.chunk /\ got <= FileLength - file
        /\ (got = 0 => file = FileLength)
    BY <1>1, <1>2 DEF Least
  <1>4. file' \in 0..FileLength /\ chunk' \in 0..setup.chunk
    BY <1>1, <1>2, <1>3
  <1>5. chunk' <= file' /\ file' - chunk' = file
    BY <1>1, <1>2
  <1>6. eof' \in BOOLEAN
    BY <1>2
  <1>7. ASSUME eof'
        PROVE  chunk' = 0 /\ file' = FileLength
    <2>1. got = 0
      BY <1>2, <1>7
    <2>2. QED
      BY <1>1, <1>2, <1>3, <2>1
  <1>8. QED
    BY <1>4, <1>5, <1>6, <1>7

\* When the card has the whole file and nothing is left in its rings, the listener
\* has had all of it.
LEMMA WholeHeard ==
    ASSUME StreamInv, GoodSetups, pc # "ended", eof, produced = seen, input = <<>>
    PROVE  heard = FileLength
  <1>1. file = FileLength /\ chunk = 0 /\ FileLength \in Nat
    BY Known DEF StreamInv, ChunkOK
  <1>2. Given = FileLength
    BY <1>1 DEF Given
  <1>3. Len(input) = Given - (Base + produced)
    BY DEF StreamInv, InputOK, Stretch
  <1>4. heard \in Nat /\ seen \in Nat
    BY KnownNumbers
  <1>5. 0 = FileLength - ((heard - seen) + seen)
    BY <1>2, <1>3 DEF Base
  <1>6. QED
    BY <1>1, <1>4, <1>5

LEMMA StartKeeps ==
    ASSUME GoodSetups, StreamInv, Start
    PROVE  StreamInv'
  <1>1. NoCall
    BY DEF Start, NoCall, card, cursor
  <1>2. Called /\ pending' = pending
    BY <1>1, NoCallEffect
  <1>3. PlacesOK /\ ChunkOK /\ TakeOK /\ FrameOK /\ EndOK
    BY DEF StreamInv
  <1>4. back' = back /\ closed' = closed /\ seen' = seen
    BY <1>2, CalledFlags
  <1>5. pc' # "ended" => pc # "ended" /\ Given' = Given
    BY <1>3, <1>4, KnownNumbers DEF Start, PlacesOK, ChunkOK, FrameOK, Given, Holding,
       GoesTo, Ends, Is, place, FramePlaces, StreamPlaces, SharedPlaces
  <1>6. ControlOK
    BY <1>5, Known DEF Start, ControlOK, GoesTo, Ends, place, ahi, ear, end,
       AhiBuffers
  <1>7. /\ TypeOK' /\ Numbers' /\ InputOK' /\ RingOK' /\ CardOK' /\ intact'
        /\ avail' <= produced' - seen'
    BY <1>2, <1>6, DataKept
  <1>8. PlacesOK'
    BY <1>3, <1>4 DEF Start, PlacesOK, FramePlaces, StreamPlaces, SharedPlaces, GoesTo,
       Ends, Is, place, ahi, ear, end, NoCall, card, cursor
  <1>9. ChunkOK'
    BY <1>3, <1>4, KnownNumbers DEF Start, ChunkOK, PlacesOK, StreamPlaces, GoesTo,
       Ends, Is, place, ahi, ear, end, NoCall, card, cursor
  <1>10. TakeOK'
    BY <1>3, <1>4, <1>7 DEF Start, TakeOK, PlacesOK, FramePlaces, StreamPlaces,
       SharedPlaces, GoesTo, Ends, Is, place, ahi, ear, end, NoCall, card, cursor
  <1>11. FrameOK'
    BY <1>3, <1>4, <1>2, KnownNumbers DEF Start, FrameOK, PlacesOK, FramePlaces,
       StreamPlaces, SharedPlaces, GoesTo, Ends, Is, place, ahi, ear, end, NoCall, card,
       cursor
  <1>12. EndOK'
    BY <1>3, <1>4, KnownNumbers DEF Start, EndOK, PlacesOK, FramePlaces, StreamPlaces,
       SharedPlaces, GoesTo, Ends, Is, place, ahi, ear, end, NoCall, card, cursor
  <1>20. QED
    BY <1>7, <1>8, <1>9, <1>10, <1>11, <1>12 DEF StreamInv

LEMMA ReadFileKeeps ==
    ASSUME GoodSetups, StreamInv, ReadFile
    PROVE  StreamInv'
  <1>1. NoCall
    BY DEF ReadFile, NoCall, card, cursor
  <1>2. Called /\ pending' = pending
    BY <1>1, NoCallEffect
  <1>3. PlacesOK /\ ChunkOK /\ TakeOK /\ FrameOK /\ EndOK
    BY DEF StreamInv
  <1>4. back' = back /\ closed' = closed /\ seen' = seen
    BY <1>2, CalledFlags
  <1>16. \/ /\ file' \in 0..FileLength /\ chunk' \in 0..setup.chunk /\ chunk' <= file'
            /\ file' - chunk' = file /\ eof' \in BOOLEAN
            /\ eof' => chunk' = 0 /\ file' = FileLength
            /\ pc' \in {"room", "feed"}
         \/ pc' = "ended" /\ UNCHANGED <<file, chunk, eof>>
    BY SourceEffect DEF ReadFile, GoesTo, Ends
  <1>5. pc' # "ended" => pc # "ended" /\ Given' = Given
    BY <1>3, <1>4, <1>16, KnownNumbers DEF ReadFile, PlacesOK, ChunkOK, FrameOK, Given, Holding,
       GoesTo, Ends, Is, place, FramePlaces, StreamPlaces, SharedPlaces
  <1>6. ControlOK
    BY <1>5, <1>16, Known, <1>3
       DEF ChunkOK, ReadFile, ControlOK, GoesTo, Ends, place, ahi, ear, end,
       AhiBuffers
  <1>7. /\ TypeOK' /\ Numbers' /\ InputOK' /\ RingOK' /\ CardOK' /\ intact'
        /\ avail' <= produced' - seen'
    BY <1>2, <1>6, DataKept
  <1>8. PlacesOK'
    BY <1>3, <1>4, <1>16 DEF ReadFile, PlacesOK, FramePlaces, StreamPlaces,
       SharedPlaces, GoesTo, Ends, Is, place, ahi, ear, end, NoCall, card, cursor
  <1>9. ChunkOK'
    BY <1>3, <1>4, KnownNumbers, <1>16 DEF ReadFile, ChunkOK, PlacesOK, StreamPlaces,
       GoesTo, Ends, Is, place, ahi, ear, end, NoCall, card, cursor
  <1>10. TakeOK'
    BY <1>3, <1>4, <1>7, <1>16 DEF ReadFile, TakeOK, PlacesOK, FramePlaces,
       StreamPlaces, SharedPlaces, GoesTo, Ends, Is, place, ahi, ear, end, NoCall, card,
       cursor
  <1>11. FrameOK'
    BY <1>3 DEF ReadFile, FrameOK, PlacesOK, StreamPlaces, Is, place
  <1>12. EndOK'
    BY <1>3, <1>4, KnownNumbers, <1>16 DEF ReadFile, EndOK, PlacesOK, FramePlaces,
       StreamPlaces, SharedPlaces, GoesTo, Ends, Is, place, ahi, ear, end, NoCall, card,
       cursor
  <1>20. QED
    BY <1>7, <1>8, <1>9, <1>10, <1>11, <1>12 DEF StreamInv

LEMMA MakeRoomKeeps ==
    ASSUME GoodSetups, StreamInv, MakeRoom
    PROVE  StreamInv'
  <1>2. Called
    BY AckEffect, NoCallEffect, ReadCallEffect, KnownNumbers DEF MakeRoom
  <1>3. PlacesOK /\ ChunkOK /\ TakeOK /\ FrameOK /\ EndOK
    BY DEF StreamInv
  <1>4. back' = back /\ closed' = closed /\ seen' = seen
    BY <1>2, CalledFlags
  <1>5. pc' # "ended" => pc # "ended" /\ Given' = Given
    BY <1>3, <1>4, KnownNumbers DEF MakeRoom, PlacesOK, ChunkOK, FrameOK, Given, Holding,
       GoesTo, Ends, Is, place, FramePlaces, StreamPlaces, SharedPlaces
  <1>6. ControlOK
    BY <1>5, Known DEF MakeRoom, ControlOK, GoesTo, Ends, place, ahi, ear, end,
       AhiBuffers
  <1>7. /\ TypeOK' /\ Numbers' /\ InputOK' /\ RingOK' /\ CardOK' /\ intact'
        /\ avail' <= produced' - seen'
    BY <1>2, <1>6, DataKept
  <1>8. PlacesOK'
    BY <1>3, <1>4 DEF MakeRoom, PlacesOK, FramePlaces, StreamPlaces, SharedPlaces,
       GoesTo, Ends, Is, place, ahi, ear, end
  <1>9. ChunkOK'
    BY <1>3, <1>4, KnownNumbers DEF MakeRoom, ChunkOK, PlacesOK, StreamPlaces, GoesTo,
       Ends, Is, place, ahi, ear, end
  <1>10. TakeOK'
    BY <1>3, <1>4, <1>7 DEF MakeRoom, TakeOK, PlacesOK, FramePlaces, StreamPlaces,
       SharedPlaces, GoesTo, Ends, Is, place, ahi, ear, end
  <1>11. FrameOK'
    BY <1>3 DEF MakeRoom, FrameOK, PlacesOK, StreamPlaces, Is, place
  <1>12. EndOK'
    BY <1>3, <1>4, KnownNumbers DEF MakeRoom, EndOK, PlacesOK, FramePlaces,
       StreamPlaces, SharedPlaces, GoesTo, Ends, Is, place, ahi, ear, end
  <1>20. QED
    BY <1>7, <1>8, <1>9, <1>10, <1>11, <1>12 DEF StreamInv

LEMMA DrainKeeps ==
    ASSUME GoodSetups, StreamInv, Drain
    PROVE  StreamInv'
  <1>1. NoCall
    BY DEF Drain, NoCall, card, cursor
  <1>2. Called /\ pending' = pending
    BY <1>1, NoCallEffect
  <1>3. PlacesOK /\ ChunkOK /\ TakeOK /\ FrameOK /\ EndOK
    BY DEF StreamInv
  <1>4. back' = back /\ closed' = closed /\ seen' = seen
    BY <1>2, CalledFlags
  <1>5. pc' # "ended" => pc # "ended" /\ Given' = Given
    BY <1>3, <1>4, KnownNumbers DEF Drain, PlacesOK, ChunkOK, FrameOK, Given, Holding,
       GoesTo, Ends, Is, place, FramePlaces, StreamPlaces, SharedPlaces
  <1>6. ControlOK
    BY <1>5, Known DEF Drain, ControlOK, GoesTo, Ends, place, ahi, ear, end,
       AhiBuffers
  <1>7. /\ TypeOK' /\ Numbers' /\ InputOK' /\ RingOK' /\ CardOK' /\ intact'
        /\ avail' <= produced' - seen'
    BY <1>2, <1>6, DataKept
  <1>8. PlacesOK'
    BY <1>3, <1>4 DEF Drain, PlacesOK, FramePlaces, StreamPlaces, SharedPlaces, GoesTo,
       Ends, Is, place, ahi, ear, end, NoCall, card, cursor
  <1>9. ChunkOK'
    BY <1>3, <1>4, KnownNumbers DEF Drain, ChunkOK, PlacesOK, StreamPlaces, GoesTo,
       Ends, Is, place, ahi, ear, end, NoCall, card, cursor
  <1>10. TakeOK'
    BY <1>3, <1>4, <1>7 DEF Drain, TakeOK, PlacesOK, FramePlaces, StreamPlaces,
       SharedPlaces, GoesTo, Ends, Is, place, ahi, ear, end, NoCall, card, cursor
  <1>11. FrameOK'
    BY <1>3 DEF Drain, FrameOK, PlacesOK, StreamPlaces, Is, place
  <1>12. EndOK'
    BY <1>3, <1>4, KnownNumbers DEF Drain, EndOK, PlacesOK, FramePlaces, StreamPlaces,
       SharedPlaces, GoesTo, Ends, Is, place, ahi, ear, end, NoCall, card, cursor
  <1>20. QED
    BY <1>7, <1>8, <1>9, <1>10, <1>11, <1>12 DEF StreamInv

LEMMA TookAllKeeps ==
    ASSUME GoodSetups, StreamInv, TookAll
    PROVE  StreamInv'
  <1>2. Called
    BY AckEffect, NoCallEffect, ReadCallEffect, KnownNumbers DEF TookAll
  <1>3. PlacesOK /\ ChunkOK /\ TakeOK /\ FrameOK /\ EndOK
    BY DEF StreamInv
  <1>4. back' = back /\ closed' = closed /\ seen' = seen
    BY <1>2, CalledFlags
  <1>5. pc' # "ended" => pc # "ended" /\ Given' = Given
    BY <1>3, <1>4, KnownNumbers DEF TookAll, PlacesOK, ChunkOK, FrameOK, Given, Holding,
       GoesTo, Ends, Is, place, FramePlaces, StreamPlaces, SharedPlaces, Portion
  <1>6. ControlOK
    BY <1>5, Known DEF TookAll, ControlOK, GoesTo, Ends, place, ahi, ear, end,
       AhiBuffers, Portion
  <1>7. /\ TypeOK' /\ Numbers' /\ InputOK' /\ RingOK' /\ CardOK' /\ intact'
        /\ avail' <= produced' - seen'
    BY <1>2, <1>6, DataKept
  <1>8. PlacesOK'
    BY <1>3, <1>4 DEF TookAll, PlacesOK, FramePlaces, StreamPlaces, SharedPlaces,
       GoesTo, Ends, Is, place, ahi, ear, end, Portion
  <1>9. ChunkOK'
    BY <1>3, <1>4, KnownNumbers DEF TookAll, ChunkOK, PlacesOK, StreamPlaces, GoesTo,
       Ends, Is, place, ahi, ear, end, Portion
  <1>10. TakeOK'
    BY <1>3, <1>4, <1>7 DEF TookAll, TakeOK, PlacesOK, FramePlaces, StreamPlaces,
       SharedPlaces, GoesTo, Ends, Is, place, ahi, ear, end, Portion
  <1>11. FrameOK'
    BY <1>3 DEF TookAll, FrameOK, PlacesOK, StreamPlaces, Is, place
  <1>13. ASSUME Is("mp3"), after = "flushed"
         PROVE  produced' = seen'
    <2>1. produced' = produced /\ seen' = seen
      BY <1>13 DEF TookAll, NoCall, card, cursor, Is
    <2>2. avail = produced - seen /\ avail = 0
      BY <1>3, <1>13 DEF TookAll, TakeOK, Portion, Is
    <2>3. QED
      BY <2>1, <2>2, KnownNumbers
  <1>12. EndOK'
    BY <1>3, <1>13 DEF TookAll, EndOK, PlacesOK, GoesTo, Is, place, end
  <1>20. QED
    BY <1>7, <1>8, <1>9, <1>10, <1>11, <1>12 DEF StreamInv

LEMMA AckTakenKeeps ==
    ASSUME GoodSetups, StreamInv, AckTaken
    PROVE  StreamInv'
  <1>2. Called
    BY AckEffect, NoCallEffect, ReadCallEffect, KnownNumbers DEF AckTaken
  <1>3. PlacesOK /\ ChunkOK /\ TakeOK /\ FrameOK /\ EndOK
    BY DEF StreamInv
  <1>4. back' = back /\ closed' = closed /\ seen' = seen
    BY <1>2, CalledFlags
  <1>5. pc' # "ended" => pc # "ended" /\ Given' = Given
    BY <1>3, <1>4, KnownNumbers DEF AckTaken, PlacesOK, ChunkOK, FrameOK, Given, Holding,
       GoesTo, Ends, Is, place, FramePlaces, StreamPlaces, SharedPlaces
  <1>6. ControlOK
    BY <1>5, Known DEF AckTaken, ControlOK, GoesTo, Ends, place, ahi, ear, end,
       AhiBuffers
  <1>7. /\ TypeOK' /\ Numbers' /\ InputOK' /\ RingOK' /\ CardOK' /\ intact'
        /\ avail' <= produced' - seen'
    BY <1>2, <1>6, DataKept
  <1>8. PlacesOK'
    BY <1>3, <1>4 DEF AckTaken, PlacesOK, FramePlaces, StreamPlaces, SharedPlaces,
       GoesTo, Ends, Is, place, ahi, ear, end
  <1>9. ChunkOK'
    BY <1>3, <1>4, KnownNumbers DEF AckTaken, ChunkOK, PlacesOK, StreamPlaces, GoesTo,
       Ends, Is, place, ahi, ear, end
  <1>10. TakeOK'
    BY <1>3, <1>4, <1>7 DEF AckTaken, TakeOK, PlacesOK, FramePlaces, StreamPlaces,
       SharedPlaces, GoesTo, Ends, Is, place, ahi, ear, end
  <1>11. FrameOK'
    BY <1>3 DEF AckTaken, FrameOK, PlacesOK, StreamPlaces, Is, place
  <1>12. EndOK'
    BY <1>3, <1>4, KnownNumbers DEF AckTaken, EndOK, PlacesOK, FramePlaces,
       StreamPlaces, SharedPlaces, GoesTo, Ends, Is, place, ahi, ear, end
  <1>20. QED
    BY <1>7, <1>8, <1>9, <1>10, <1>11, <1>12 DEF StreamInv

LEMMA FedKeeps ==
    ASSUME GoodSetups, StreamInv, Fed
    PROVE  StreamInv'
  <1>2. Called
    BY AckEffect, NoCallEffect, ReadCallEffect, KnownNumbers DEF Fed
  <1>3. PlacesOK /\ ChunkOK /\ TakeOK /\ FrameOK /\ EndOK
    BY DEF StreamInv
  <1>4. back' = back /\ closed' = closed /\ seen' = seen
    BY <1>2, CalledFlags
  <1>5. pc' # "ended" => pc # "ended" /\ Given' = Given
    BY <1>3, <1>4, KnownNumbers DEF Fed, PlacesOK, ChunkOK, FrameOK, Given, Holding,
       GoesTo, Ends, Is, place, FramePlaces, StreamPlaces, SharedPlaces
  <1>6. ControlOK
    BY <1>5, Known DEF Fed, ControlOK, GoesTo, Ends, place, ahi, ear, end,
       AhiBuffers
  <1>7. /\ TypeOK' /\ Numbers' /\ InputOK' /\ RingOK' /\ CardOK' /\ intact'
        /\ avail' <= produced' - seen'
    BY <1>2, <1>6, DataKept
  <1>8. PlacesOK'
    BY <1>3, <1>4 DEF Fed, PlacesOK, FramePlaces, StreamPlaces, SharedPlaces, GoesTo,
       Ends, Is, place, ahi, ear, end
  <1>9. ChunkOK'
    BY <1>3, <1>4, KnownNumbers DEF Fed, ChunkOK, PlacesOK, StreamPlaces, GoesTo, Ends,
       Is, place, ahi, ear, end
  <1>10. TakeOK'
    BY <1>3, <1>4, <1>7 DEF Fed, TakeOK, PlacesOK, FramePlaces, StreamPlaces,
       SharedPlaces, GoesTo, Ends, Is, place, ahi, ear, end
  <1>11. FrameOK'
    BY <1>3 DEF Fed, FrameOK, PlacesOK, StreamPlaces, Is, place
  <1>12. EndOK'
    BY <1>3, <1>4, KnownNumbers DEF Fed, EndOK, PlacesOK, FramePlaces, StreamPlaces,
       SharedPlaces, GoesTo, Ends, Is, place, ahi, ear, end
  <1>20. QED
    BY <1>7, <1>8, <1>9, <1>10, <1>11, <1>12 DEF StreamInv

LEMMA FlushKeeps ==
    ASSUME GoodSetups, StreamInv, Flush
    PROVE  StreamInv'
  <1>1. NoCall
    BY DEF Flush, NoCall, card, cursor
  <1>2. Called /\ pending' = pending
    BY <1>1, NoCallEffect
  <1>3. PlacesOK /\ ChunkOK /\ TakeOK /\ FrameOK /\ EndOK
    BY DEF StreamInv
  <1>4. back' = back /\ closed' = closed /\ seen' = seen
    BY <1>2, CalledFlags
  <1>5. pc' # "ended" => pc # "ended" /\ Given' = Given
    BY <1>3, <1>4, KnownNumbers DEF Flush, PlacesOK, ChunkOK, FrameOK, Given, Holding,
       GoesTo, Ends, Is, place, FramePlaces, StreamPlaces, SharedPlaces
  <1>6. ControlOK
    BY <1>5, Known, KnownNumbers DEF Flush, ControlOK, GoesTo, Ends, place, ahi, ear, end,
       AhiBuffers
  <1>7. /\ TypeOK' /\ Numbers' /\ InputOK' /\ RingOK' /\ CardOK' /\ intact'
        /\ avail' <= produced' - seen'
    BY <1>2, <1>6, DataKept
  <1>8. PlacesOK'
    BY <1>3, <1>4 DEF Flush, PlacesOK, FramePlaces, StreamPlaces, SharedPlaces, GoesTo,
       Ends, Is, place, ahi, ear, end, NoCall, card, cursor
  <1>9. ChunkOK'
    BY <1>3, <1>4, KnownNumbers DEF Flush, ChunkOK, PlacesOK, StreamPlaces, GoesTo,
       Ends, Is, place, ahi, ear, end, NoCall, card, cursor
  <1>10. TakeOK'
    BY <1>3, <1>4, <1>7 DEF Flush, TakeOK, PlacesOK, FramePlaces, StreamPlaces,
       SharedPlaces, GoesTo, Ends, Is, place, ahi, ear, end, NoCall, card, cursor
  <1>11. FrameOK'
    BY <1>3 DEF Flush, FrameOK, PlacesOK, StreamPlaces, Is, place
  <1>12. EndOK'
    BY <1>3, <1>4, KnownNumbers DEF Flush, EndOK, PlacesOK, FramePlaces, StreamPlaces,
       SharedPlaces, GoesTo, Ends, Is, place, ahi, ear, end, NoCall, card, cursor
  <1>20. QED
    BY <1>7, <1>8, <1>9, <1>10, <1>11, <1>12 DEF StreamInv

LEMMA FlushedKeeps ==
    ASSUME GoodSetups, StreamInv, Flushed
    PROVE  StreamInv'
  <1>2. Called
    BY AckEffect, NoCallEffect, ReadCallEffect, KnownNumbers DEF Flushed
  <1>3. PlacesOK /\ ChunkOK /\ TakeOK /\ FrameOK /\ EndOK
    BY DEF StreamInv
  <1>4. back' = back /\ closed' = closed /\ seen' = seen
    BY <1>2, CalledFlags
  <1>5. pc' # "ended" => pc # "ended" /\ Given' = Given
    BY <1>3, <1>4, KnownNumbers DEF Flushed, PlacesOK, ChunkOK, FrameOK, Given, Holding,
       GoesTo, Ends, Is, place, FramePlaces, StreamPlaces, SharedPlaces
  <1>6. ControlOK
    BY <1>5, Known DEF Flushed, ControlOK, GoesTo, Ends, place, ahi, ear, end,
       AhiBuffers
  <1>7. /\ TypeOK' /\ Numbers' /\ InputOK' /\ RingOK' /\ CardOK' /\ intact'
        /\ avail' <= produced' - seen'
    BY <1>2, <1>6, DataKept
  <1>8. PlacesOK'
    BY <1>3, <1>4 DEF Flushed, PlacesOK, FramePlaces, StreamPlaces, SharedPlaces,
       GoesTo, Ends, Is, place, ahi, ear, end, NoCall, card, cursor
  <1>9. ChunkOK'
    BY <1>3, <1>4, KnownNumbers DEF Flushed, ChunkOK, PlacesOK, StreamPlaces, GoesTo,
       Ends, Is, place, ahi, ear, end, NoCall, card, cursor
  <1>10. TakeOK'
    BY <1>3, <1>4, <1>7 DEF Flushed, TakeOK, PlacesOK, FramePlaces, StreamPlaces,
       SharedPlaces, GoesTo, Ends, Is, place, ahi, ear, end, NoCall, card, cursor
  <1>11. FrameOK'
    BY <1>3 DEF Flushed, FrameOK, PlacesOK, StreamPlaces, Is, place
  <1>13. ASSUME pc' = "finish"
         PROVE  produced' = acked'
    <2>1. Is("mp3") /\ pending = 0 /\ NoCall
      BY <1>13 DEF Flushed, GoesTo
    <2>2. produced = seen
      BY <1>3, <2>1 DEF Flushed, EndOK
    <2>3. produced' = produced /\ acked' = acked
      BY <2>1 DEF NoCall, card
    <2>4. QED
      BY <2>1, <2>2, <2>3, KnownNumbers
  <1>12. EndOK'
    BY <1>3, <1>13 DEF Flushed, EndOK, GoesTo, place, end
  <1>20. QED
    BY <1>7, <1>8, <1>9, <1>10, <1>11, <1>12 DEF StreamInv

LEMMA SettledKeeps ==
    ASSUME GoodSetups, StreamInv, Settled
    PROVE  StreamInv'
  <1>1. NoCall
    BY DEF Settled, NoCall, card, cursor
  <1>2. Called /\ pending' = pending
    BY <1>1, NoCallEffect
  <1>3. PlacesOK /\ ChunkOK /\ TakeOK /\ FrameOK /\ EndOK
    BY DEF StreamInv
  <1>4. back' = back /\ closed' = closed /\ seen' = seen
    BY <1>2, CalledFlags
  <1>5. pc' # "ended" => pc # "ended" /\ Given' = Given
    BY <1>3, <1>4, KnownNumbers DEF Settled, PlacesOK, ChunkOK, FrameOK, Given, Holding,
       GoesTo, Ends, Is, place, FramePlaces, StreamPlaces, SharedPlaces, Settles
  <1>6. ControlOK
    BY <1>5, Known DEF Settled, ControlOK, GoesTo, Ends, place, ahi, ear, end,
       AhiBuffers, Settles
  <1>7. /\ TypeOK' /\ Numbers' /\ InputOK' /\ RingOK' /\ CardOK' /\ intact'
        /\ avail' <= produced' - seen'
    BY <1>2, <1>6, DataKept
  <1>8. PlacesOK'
    BY <1>3, <1>4 DEF Settled, PlacesOK, FramePlaces, StreamPlaces, SharedPlaces,
       GoesTo, Ends, Is, place, ahi, ear, end, Settles, NoCall, card, cursor
  <1>9. ChunkOK'
    BY <1>3, <1>4, KnownNumbers DEF Settled, ChunkOK, PlacesOK, StreamPlaces, GoesTo,
       Ends, Is, place, ahi, ear, end, Settles, NoCall, card, cursor
  <1>10. TakeOK'
    BY <1>3, <1>4, <1>7 DEF Settled, TakeOK, PlacesOK, FramePlaces, StreamPlaces,
       SharedPlaces, GoesTo, Ends, Is, place, ahi, ear, end, Settles, NoCall, card,
       cursor
  <1>11. FrameOK'
    BY <1>3 DEF Settled, FrameOK, PlacesOK, StreamPlaces, Is, place
  <1>12. EndOK'
    BY <1>3, <1>4, KnownNumbers DEF Settled, EndOK, PlacesOK, FramePlaces, StreamPlaces,
       SharedPlaces, GoesTo, Ends, Is, place, ahi, ear, end, Settles, NoCall, card,
       cursor
  <1>20. QED
    BY <1>7, <1>8, <1>9, <1>10, <1>11, <1>12 DEF StreamInv

LEMMA FinishKeeps ==
    ASSUME GoodSetups, StreamInv, Finish
    PROVE  StreamInv'
  <1>1. NoCall
    BY DEF Finish, NoCall, card, cursor
  <1>2. Called /\ pending' = pending
    BY <1>1, NoCallEffect
  <1>3. PlacesOK /\ ChunkOK /\ TakeOK /\ FrameOK /\ EndOK
    BY DEF StreamInv
  <1>4. back' = back /\ closed' = closed /\ seen' = seen
    BY <1>2, CalledFlags
  <1>5. pc' # "ended" => pc # "ended" /\ Given' = Given
    BY <1>3, <1>4, KnownNumbers DEF Finish, PlacesOK, ChunkOK, FrameOK, Given, Holding,
       GoesTo, Ends, Is, place, FramePlaces, StreamPlaces, SharedPlaces
  <1>6. ControlOK
    BY <1>5, Known DEF Finish, ControlOK, GoesTo, Ends, place, ahi, ear, end,
       AhiBuffers
  <1>7. /\ TypeOK' /\ Numbers' /\ InputOK' /\ RingOK' /\ CardOK' /\ intact'
        /\ avail' <= produced' - seen'
    BY <1>2, <1>6, DataKept
  <1>8. PlacesOK'
    BY <1>3, <1>4 DEF Finish, PlacesOK, FramePlaces, StreamPlaces, SharedPlaces, GoesTo,
       Ends, Is, place, ahi, ear, end, NoCall, card, cursor
  <1>9. ChunkOK'
    BY <1>3, <1>4, KnownNumbers DEF Finish, ChunkOK, PlacesOK, StreamPlaces, GoesTo,
       Ends, Is, place, ahi, ear, end, NoCall, card, cursor
  <1>10. TakeOK'
    BY <1>3, <1>4, <1>7 DEF Finish, TakeOK, PlacesOK, FramePlaces, StreamPlaces,
       SharedPlaces, GoesTo, Ends, Is, place, ahi, ear, end, NoCall, card, cursor
  <1>11. FrameOK'
    BY <1>3 DEF Finish, FrameOK, PlacesOK, StreamPlaces, Is, place
  <1>13. produced = acked /\ eof /\ pc # "ended"
    BY <1>3 DEF Finish, EndOK, ChunkOK
  <1>14. produced = seen /\ input = <<>>
    <2>1. produced = acked => input = <<>>
      BY DEF StreamInv, CardOK
    <2>2. QED
      BY <1>13, <2>1, KnownNumbers
  <1>15. heard = FileLength /\ heard' = heard
    BY <1>13, <1>14, WholeHeard DEF Finish, ear
  <1>12. EndOK'
    BY <1>15 DEF Finish, EndOK, Ends
  <1>20. QED
    BY <1>7, <1>8, <1>9, <1>10, <1>11, <1>12 DEF StreamInv

LEMMA DecodeFrameKeeps ==
    ASSUME GoodSetups, StreamInv, DecodeFrame
    PROVE  StreamInv'
  <1>1. NoCall
    BY DEF DecodeFrame, NoCall, card, cursor
  <1>2. Called /\ pending' = pending
    BY <1>1, NoCallEffect
  <1>3. PlacesOK /\ ChunkOK /\ TakeOK /\ FrameOK /\ EndOK
    BY DEF StreamInv
  <1>4. back' = back /\ closed' = closed /\ seen' = seen
    BY <1>2, CalledFlags
  <1>5. pc' # "ended" => pc # "ended" /\ Given' = Given
    BY <1>3, <1>4, KnownNumbers DEF DecodeFrame, PlacesOK, ChunkOK, FrameOK, Given, Holding,
       GoesTo, Ends, Is, place, FramePlaces, StreamPlaces, SharedPlaces
  <1>6. ControlOK
    BY <1>5, Known DEF DecodeFrame, ControlOK, GoesTo, Ends, place, ahi, ear, end,
       AhiBuffers
  <1>7. /\ TypeOK' /\ Numbers' /\ InputOK' /\ RingOK' /\ CardOK' /\ intact'
        /\ avail' <= produced' - seen'
    BY <1>2, <1>6, DataKept
  <1>8. PlacesOK'
    BY <1>3, <1>4 DEF DecodeFrame, PlacesOK, FramePlaces, StreamPlaces, SharedPlaces,
       GoesTo, Ends, Is, place, ahi, ear, end, NoCall, card, cursor
  <1>9. ChunkOK'
    BY <1>3, <1>4, KnownNumbers DEF DecodeFrame, ChunkOK, PlacesOK, StreamPlaces,
       GoesTo, Ends, Is, place, ahi, ear, end, NoCall, card, cursor
  <1>10. TakeOK'
    BY <1>3, <1>4, <1>7 DEF DecodeFrame, TakeOK, PlacesOK, FramePlaces, StreamPlaces,
       SharedPlaces, GoesTo, Ends, Is, place, ahi, ear, end, NoCall, card, cursor
  <1>11. FrameOK'
    BY <1>3, <1>4, <1>2, KnownNumbers DEF DecodeFrame, FrameOK, PlacesOK, FramePlaces,
       StreamPlaces, SharedPlaces, GoesTo, Ends, Is, place, ahi, ear, end, NoCall, card,
       cursor
  <1>12. EndOK'
    BY <1>3, <1>4, KnownNumbers DEF DecodeFrame, EndOK, PlacesOK, FramePlaces,
       StreamPlaces, SharedPlaces, GoesTo, Ends, Is, place, ahi, ear, end, NoCall, card,
       cursor
  <1>20. QED
    BY <1>7, <1>8, <1>9, <1>10, <1>11, <1>12 DEF StreamInv

LEMMA FrameBeginsKeeps ==
    ASSUME GoodSetups, StreamInv, FrameBegins
    PROVE  StreamInv'
  <1>2. Called
    BY AckEffect, NoCallEffect, ReadCallEffect, KnownNumbers DEF FrameBegins
  <1>3. PlacesOK /\ ChunkOK /\ TakeOK /\ FrameOK /\ EndOK
    BY DEF StreamInv
  <1>4. back' = back /\ closed' = closed /\ seen' = seen
    BY <1>2, CalledFlags
  <1>5. pc' # "ended" => pc # "ended" /\ Given' = Given
    BY <1>3, <1>4, KnownNumbers DEF FrameBegins, PlacesOK, ChunkOK, FrameOK, Given, Holding,
       GoesTo, Ends, Is, place, FramePlaces, StreamPlaces, SharedPlaces
  <1>6. ControlOK
    BY <1>5, Known DEF FrameBegins, ControlOK, GoesTo, Ends, place, ahi, ear, end,
       AhiBuffers
  <1>7. /\ TypeOK' /\ Numbers' /\ InputOK' /\ RingOK' /\ CardOK' /\ intact'
        /\ avail' <= produced' - seen'
    BY <1>2, <1>6, DataKept
  <1>8. PlacesOK'
    BY <1>3, <1>4 DEF FrameBegins, PlacesOK, FramePlaces, StreamPlaces, SharedPlaces,
       GoesTo, Ends, Is, place, ahi, ear, end
  <1>9. ChunkOK'
    BY <1>3, <1>4, KnownNumbers DEF FrameBegins, ChunkOK, PlacesOK, StreamPlaces,
       GoesTo, Ends, Is, place, ahi, ear, end
  <1>10. TakeOK'
    BY <1>3, <1>4, <1>7 DEF FrameBegins, TakeOK, PlacesOK, FramePlaces, StreamPlaces,
       SharedPlaces, GoesTo, Ends, Is, place, ahi, ear, end
  <1>13. ASSUME Is("mpega"), pc' = "acked"
         PROVE  pending' < AckBatch /\ acked' = produced' /\ guard < Retries
    <2>1. Ack(TRUE) /\ guard < Retries /\ ~(produced > seen)
      BY <1>13 DEF FrameBegins, GoesTo
    <2>2. produced = seen /\ pending < AckBatch
      BY <1>3, <1>13, <2>1, KnownNumbers DEF FrameBegins, FrameOK
    <2>3. CASE pending = 0
      <3>1. ~ReadDue(TRUE)
        BY <1>13, <2>3 DEF ReadDue, Zzplay, Is
      <3>2. acked' = acked /\ produced' = produced /\ pending' = pending
        BY <2>1, <3>1 DEF Ack, NoCall, card, cursor
      <3>3. QED
        BY <2>1, <2>2, <2>3, <3>2, KnownNumbers
    <2>4. CASE pending # 0
      <3>1. ReadDue(TRUE) /\ pc # "ended"
        BY <2>4, KnownNumbers DEF ReadDue, FrameBegins
      <3>2. pending' = 0
        BY <2>1, <3>1, AckEffect
      <3>3. AckBatch <= setup.pcm /\ ~setup.sliced /\ setup.pcm \in Nat /\ AckBatch \in Nat \ {0}
        BY <1>13, Known, Sizes
      <3>4. produced - acked # setup.pcm
        BY <2>2, <3>3, KnownNumbers
      <3>5. input = <<>>
        BY <3>3, <3>4 DEF StreamInv, CardOK
      <3>6. produced' = produced /\ pending' = seen - acked' /\ acked' \in Nat
        BY <1>2, <3>5 DEF Called
      <3>7. acked' = produced'
        BY <2>2, <3>2, <3>6, KnownNumbers
      <3>8. QED
        BY <2>1, <3>2, <3>3, <3>7
    <2>5. QED
      BY <2>3, <2>4
  <1>14. pc' # "acked" => pending' = pending
    BY DEF FrameBegins, NoCall, GoesTo, cursor
  <1>11. FrameOK'
    BY <1>3, <1>4, <1>13, <1>14 DEF FrameBegins, FrameOK, GoesTo, Is, place
  <1>12. EndOK'
    BY <1>3, <1>4, KnownNumbers DEF FrameBegins, EndOK, PlacesOK, FramePlaces,
       StreamPlaces, SharedPlaces, GoesTo, Ends, Is, place, ahi, ear, end
  <1>20. QED
    BY <1>7, <1>8, <1>9, <1>10, <1>11, <1>12 DEF StreamInv

LEMMA FrameSourceKeeps ==
    ASSUME GoodSetups, StreamInv, FrameSource
    PROVE  StreamInv'
  <1>1. NoCall
    BY DEF FrameSource, NoCall, card, cursor
  <1>2. Called /\ pending' = pending
    BY <1>1, NoCallEffect
  <1>3. PlacesOK /\ ChunkOK /\ TakeOK /\ FrameOK /\ EndOK
    BY DEF StreamInv
  <1>4. back' = back /\ closed' = closed /\ seen' = seen
    BY <1>2, CalledFlags
  <1>16. \/ /\ file' \in 0..FileLength /\ chunk' \in 0..setup.chunk /\ chunk' <= file'
            /\ file' - chunk' = file /\ eof' \in BOOLEAN
            /\ eof' => chunk' = 0 /\ file' = FileLength
            /\ pc' \in {"room", "feed"}
         \/ pc' = "ended" /\ UNCHANGED <<file, chunk, eof>>
    BY SourceEffect DEF FrameSource, GoesTo, Ends
  <1>5. pc' # "ended" => pc # "ended" /\ Given' = Given
    BY <1>3, <1>4, <1>16, KnownNumbers DEF FrameSource, PlacesOK, ChunkOK, FrameOK, Given, Holding,
       GoesTo, Ends, Is, place, FramePlaces, StreamPlaces, SharedPlaces
  <1>6. ControlOK
    BY <1>5, <1>16, Known DEF FrameSource, ControlOK, GoesTo, Ends, place, ahi, ear, end,
       AhiBuffers
  <1>7. /\ TypeOK' /\ Numbers' /\ InputOK' /\ RingOK' /\ CardOK' /\ intact'
        /\ avail' <= produced' - seen'
    BY <1>2, <1>6, DataKept
  <1>8. PlacesOK'
    BY <1>3, <1>4, <1>16 DEF FrameSource, PlacesOK, FramePlaces, StreamPlaces,
       SharedPlaces, GoesTo, Ends, Is, place, ahi, ear, end, NoCall, card, cursor
  <1>9. ChunkOK'
    BY <1>3, <1>4, KnownNumbers, <1>16 DEF FrameSource, ChunkOK, PlacesOK, StreamPlaces,
       GoesTo, Ends, Is, place, ahi, ear, end, NoCall, card, cursor
  <1>10. TakeOK'
    BY <1>3, <1>4, <1>7, <1>16 DEF FrameSource, TakeOK, PlacesOK, FramePlaces,
       StreamPlaces, SharedPlaces, GoesTo, Ends, Is, place, ahi, ear, end, NoCall, card,
       cursor
  <1>11. FrameOK'
    BY <1>3, <1>4, <1>2, KnownNumbers, <1>16 DEF FrameSource, FrameOK, PlacesOK,
       FramePlaces, StreamPlaces, SharedPlaces, GoesTo, Ends, Is, place, ahi, ear, end,
       NoCall, card, cursor
  <1>13. ASSUME done \/ eof
         PROVE  heard = FileLength
    <2>1. Is("mpega")
      BY <1>3 DEF FrameSource, PlacesOK, FramePlaces
    <2>2. acked = produced /\ pc # "ended"
      BY <1>3, <2>1 DEF FrameSource, FrameOK
    <2>3. input = <<>> /\ produced = seen
      <3>1. produced = acked => input = <<>>
        BY DEF StreamInv, CardOK
      <3>2. QED
        BY <2>2, <3>1, KnownNumbers
    <2>4. eof
      BY <1>13 DEF StreamInv, InputOK
    <2>5. QED
      BY <2>2, <2>3, <2>4, WholeHeard
  <1>14. heard' = heard
    BY DEF FrameSource, ear
  <1>12. EndOK'
    BY <1>3, <1>13, <1>14 DEF FrameSource, EndOK, Ends, GoesTo, end
  <1>20. QED
    BY <1>7, <1>8, <1>9, <1>10, <1>11, <1>12 DEF StreamInv

LEMMA AckFrameKeeps ==
    ASSUME GoodSetups, StreamInv, AckFrame
    PROVE  StreamInv'
  <1>2. Called
    BY AckEffect, NoCallEffect, ReadCallEffect, KnownNumbers DEF AckFrame
  <1>3. PlacesOK /\ ChunkOK /\ TakeOK /\ FrameOK /\ EndOK
    BY DEF StreamInv
  <1>4. back' = back /\ closed' = closed /\ seen' = seen
    BY <1>2, CalledFlags
  <1>5. pc' # "ended" => pc # "ended" /\ Given' = Given
    <2>1. ~back /\ after = "read"
      BY <1>3 DEF AckFrame, PlacesOK, FrameOK
    <2>2. ~Holding /\ ~Holding' /\ file' = file
      BY <1>4, <2>1 DEF AckFrame, Holding, GoesTo, place
    <2>3. QED
      BY <2>2 DEF AckFrame, Given
  <1>6. ControlOK
    BY <1>5, Known DEF AckFrame, ControlOK, GoesTo, Ends, place, ahi, ear, end,
       AhiBuffers
  <1>7. /\ TypeOK' /\ Numbers' /\ InputOK' /\ RingOK' /\ CardOK' /\ intact'
        /\ avail' <= produced' - seen'
    BY <1>2, <1>6, DataKept
  <1>8. PlacesOK'
    BY <1>3, <1>4 DEF AckFrame, PlacesOK, FramePlaces, StreamPlaces, SharedPlaces,
       GoesTo, Ends, Is, place, ahi, ear, end
  <1>9. ChunkOK'
    BY <1>3, <1>4, KnownNumbers DEF AckFrame, ChunkOK, PlacesOK, StreamPlaces, GoesTo,
       Ends, Is, place, ahi, ear, end
  <1>10. TakeOK'
    BY <1>3, <1>4, <1>7 DEF AckFrame, TakeOK, PlacesOK, FramePlaces, StreamPlaces,
       SharedPlaces, GoesTo, Ends, Is, place, ahi, ear, end
  <1>13. pending' < AckBatch
    <2>1. AckBatch \in Nat \ {0} /\ pc # "ended" /\ Ack(FALSE) /\ Batch = AckBatch
      BY Known, Sizes DEF AckFrame, Batch
    <2>2. CASE ReadDue(FALSE)
      <3>1. pending' = 0
        BY <2>1, <2>2, AckEffect
      <3>2. QED
        BY <2>1, <3>1
    <2>3. CASE ~ReadDue(FALSE)
      BY <2>1, <2>3, KnownNumbers DEF Ack, NoCall, cursor, ReadDue
    <2>4. QED
      BY <2>2, <2>3
  <1>11. FrameOK'
    BY <1>3, <1>4, <1>13 DEF AckFrame, FrameOK, GoesTo, Is, place
  <1>12. EndOK'
    BY <1>3, <1>4, KnownNumbers DEF AckFrame, EndOK, PlacesOK, FramePlaces,
       StreamPlaces, SharedPlaces, GoesTo, Ends, Is, place, ahi, ear, end
  <1>20. QED
    BY <1>7, <1>8, <1>9, <1>10, <1>11, <1>12 DEF StreamInv

LEMMA AhiPlaysKeeps ==
    ASSUME GoodSetups, StreamInv, AhiPlays
    PROVE  StreamInv'
  <1>1. NoCall
    BY DEF AhiPlays, NoCall, card, cursor
  <1>2. Called /\ pending' = pending
    BY <1>1, NoCallEffect
  <1>3. PlacesOK /\ ChunkOK /\ TakeOK /\ FrameOK /\ EndOK
    BY DEF StreamInv
  <1>4. back' = back /\ closed' = closed /\ seen' = seen
    BY <1>2, CalledFlags
  <1>5. pc' # "ended" => pc # "ended" /\ Given' = Given
    BY <1>3, <1>4, KnownNumbers DEF AhiPlays, PlacesOK, ChunkOK, FrameOK, Given, Holding,
       GoesTo, Ends, Is, place, FramePlaces, StreamPlaces, SharedPlaces
  <1>6. ControlOK
    BY <1>5, Known DEF AhiPlays, ControlOK, GoesTo, Ends, place, ahi, ear, end,
       AhiBuffers
  <1>7. /\ TypeOK' /\ Numbers' /\ InputOK' /\ RingOK' /\ CardOK' /\ intact'
        /\ avail' <= produced' - seen'
    BY <1>2, <1>6, DataKept
  <1>8. PlacesOK'
    BY <1>3, <1>4 DEF AhiPlays, PlacesOK, FramePlaces, StreamPlaces, SharedPlaces,
       GoesTo, Ends, Is, place, ahi, ear, end, NoCall, card, cursor
  <1>9. ChunkOK'
    BY <1>3, <1>4, KnownNumbers DEF AhiPlays, ChunkOK, PlacesOK, StreamPlaces, GoesTo,
       Ends, Is, place, ahi, ear, end, NoCall, card, cursor
  <1>10. TakeOK'
    BY <1>3, <1>4, <1>7 DEF AhiPlays, TakeOK, PlacesOK, FramePlaces, StreamPlaces,
       SharedPlaces, GoesTo, Ends, Is, place, ahi, ear, end, NoCall, card, cursor
  <1>11. FrameOK'
    BY <1>3, <1>4, <1>2, KnownNumbers DEF AhiPlays, FrameOK, PlacesOK, FramePlaces,
       StreamPlaces, SharedPlaces, GoesTo, Ends, Is, place, ahi, ear, end, NoCall, card,
       cursor
  <1>12. EndOK'
    BY <1>3, <1>4, KnownNumbers DEF AhiPlays, EndOK, PlacesOK, FramePlaces,
       StreamPlaces, SharedPlaces, GoesTo, Ends, Is, place, ahi, ear, end, NoCall, card,
       cursor
  <1>20. QED
    BY <1>7, <1>8, <1>9, <1>10, <1>11, <1>12 DEF StreamInv

LEMMA DisturbKeeps ==
    ASSUME GoodSetups, StreamInv, Disturb
    PROVE  StreamInv'
  <1>1. NoCall
    BY DEF Disturb, NoCall, card, cursor
  <1>2. Called /\ pending' = pending
    BY <1>1, NoCallEffect
  <1>3. PlacesOK /\ ChunkOK /\ TakeOK /\ FrameOK /\ EndOK
    BY DEF StreamInv
  <1>4. back' = back /\ closed' = closed /\ seen' = seen
    BY <1>2, CalledFlags
  <1>5. pc' # "ended" => pc # "ended" /\ Given' = Given
    BY <1>3, <1>4, KnownNumbers DEF Disturb, PlacesOK, ChunkOK, FrameOK, Given, Holding,
       GoesTo, Ends, Is, place, FramePlaces, StreamPlaces, SharedPlaces
  <1>6. ControlOK
    BY <1>5, Known DEF Disturb, ControlOK, GoesTo, Ends, place, ahi, ear, end,
       AhiBuffers
  <1>7. /\ TypeOK' /\ Numbers' /\ InputOK' /\ RingOK' /\ CardOK' /\ intact'
        /\ avail' <= produced' - seen'
    BY <1>2, <1>6, DataKept
  <1>8. PlacesOK'
    BY <1>3, <1>4 DEF Disturb, PlacesOK, FramePlaces, StreamPlaces, SharedPlaces,
       GoesTo, Ends, Is, place, ahi, ear, end, NoCall, card, cursor
  <1>9. ChunkOK'
    BY <1>3, <1>4, KnownNumbers DEF Disturb, ChunkOK, PlacesOK, StreamPlaces, GoesTo,
       Ends, Is, place, ahi, ear, end, NoCall, card, cursor
  <1>10. TakeOK'
    BY <1>3, <1>4, <1>7 DEF Disturb, TakeOK, PlacesOK, FramePlaces, StreamPlaces,
       SharedPlaces, GoesTo, Ends, Is, place, ahi, ear, end, NoCall, card, cursor
  <1>11. FrameOK'
    BY <1>3, <1>4, <1>2, KnownNumbers DEF Disturb, FrameOK, PlacesOK, FramePlaces,
       StreamPlaces, SharedPlaces, GoesTo, Ends, Is, place, ahi, ear, end, NoCall, card,
       cursor
  <1>12. EndOK'
    BY <1>3, <1>4, KnownNumbers DEF Disturb, EndOK, PlacesOK, FramePlaces, StreamPlaces,
       SharedPlaces, GoesTo, Ends, Is, place, ahi, ear, end, NoCall, card, cursor
  <1>20. QED
    BY <1>7, <1>8, <1>9, <1>10, <1>11, <1>12 DEF StreamInv

---------------------------------------------------------------------------
\* Feeding the chunk at hand.

\* What a feed leaves true: it is refused, or the card has the chunk as well.
GivenAfter == IF back' THEN file - chunk ELSE file

FedData ==
    /\ acked' = acked /\ produced' \in Nat /\ produced <= produced'
    /\ produced' - acked' <= setup.pcm
    /\ input' \in Seq(Nat) /\ Len(input') <= InputCapacity
    /\ Stretch(input', Base + produced', GivenAfter)
    /\ Window(ring', setup.pcm, acked', produced', Base)
    /\ produced' = acked' => input' = <<>>
    /\ ~setup.sliced => input' = <<>> \/ produced' - acked' = setup.pcm

FedFlags ==
    /\ back' \in BOOLEAN /\ closed' \in BOOLEAN /\ (closed' => eof)
    /\ done' \in BOOLEAN /\ (done' => closed' /\ input' = <<>>)
    /\ back' => Len(input) + chunk > InputCapacity

LEMMA FeedCallEffect ==
    ASSUME GoodSetups, StreamInv, FeedCall, pc = "feed"
    PROVE  FedData /\ FedFlags
  <1>1. TypeOK /\ Numbers /\ InputOK /\ RingOK /\ CardOK /\ ChunkOK
    BY DEF StreamInv
  <1>2. /\ setup.pcm \in Nat \ {0} /\ InputCapacity \in Nat
        /\ file \in Nat /\ chunk \in Nat /\ chunk <= file
        /\ produced \in Nat /\ acked \in Nat /\ heard \in Nat /\ seen \in Nat
        /\ acked <= produced /\ seen <= heard /\ produced - acked <= setup.pcm
    <2>1. setup.pcm \in Nat \ {0} /\ InputCapacity \in Nat
      BY <1>1, Sizes DEF TypeOK
    <2>2. /\ file \in Nat /\ chunk \in Nat /\ produced \in Nat /\ acked \in Nat
          /\ heard \in Nat /\ seen \in Nat
      BY <1>1 DEF Numbers
    <2>3. acked <= seen /\ seen <= produced /\ produced - acked <= setup.pcm
      BY <1>1 DEF TypeOK
    <2>4. chunk <= file /\ seen <= heard
      BY <1>1 DEF ChunkOK, InputOK
    <2>5. QED
      BY <2>1, <2>2, <2>3, <2>4
  <1>3. /\ input \in Seq(Nat) /\ Len(input) <= InputCapacity /\ Len(input) \in Nat
    BY <1>1 DEF TypeOK, Numbers
  <1>4. back \in BOOLEAN /\ closed \in BOOLEAN /\ eof \in BOOLEAN /\ done \in BOOLEAN
    BY <1>1 DEF Numbers
  <1>5. Base \in Nat /\ file - chunk \in Nat /\ Given = file - chunk
    BY <1>2 DEF Base, Given, Holding
  <1>6. Stretch(input, Base + produced, file - chunk)
    BY <1>1, <1>5 DEF InputOK
  <1>7. CASE Len(input) + chunk > InputCapacity
    <2>1. back' = TRUE /\ UNCHANGED <<input, closed, produced, acked, ring, done>>
      BY <1>7 DEF FeedCall
    <2>2. FedData
      BY <1>1, <1>2, <1>3, <1>6, <2>1 DEF FedData, GivenAfter, RingOK, CardOK
    <2>3. FedFlags
      BY <1>1, <1>4, <1>7, <2>1 DEF FedFlags, InputOK
    <2>4. QED
      BY <2>2, <2>3
  <1>8. CASE ~(Len(input) + chunk > InputCapacity)
    <2> DEFINE all == input \o Staged
    <2>1. closed' = (closed \/ eof) /\ back' = FALSE /\ Decode(all, acked)
      BY <1>8 DEF FeedCall
    <2>2. Staged = [i \in 1..chunk |-> (file - chunk) + i]
      BY DEF Staged
    <2>3. /\ all \in Seq(Nat) /\ Len(all) = Len(input) + chunk
          /\ Stretch(all, Base + produced, (file - chunk) + chunk)
      <3>1. Base + produced \in Nat
        BY <1>2, <1>5
      <3>2. QED
        BY <1>2, <1>3, <1>5, <1>6, <2>2, <3>1, JoinOfStretches
    <2>4. (file - chunk) + chunk = file
      BY <1>2
    <2> HIDE DEF all
    <2>5. Stretch(all, Base + produced, file)
      BY <2>3, <2>4
    <2>6. Window(ring, setup.pcm, acked, produced, Base)
      BY <1>1 DEF RingOK
    <2>7. /\ produced' \in Nat /\ produced <= produced'
          /\ produced' - acked <= setup.pcm /\ acked' = acked
          /\ input' \in Seq(Nat) /\ Len(input') <= Len(all)
          /\ Stretch(input', Base + produced', file)
          /\ Window(ring', setup.pcm, acked, produced', Base)
          /\ produced' = acked => input' = <<>>
          /\ ~setup.sliced => input' = <<>> \/ produced' - acked = setup.pcm
          /\ done' \in BOOLEAN /\ (done' => closed' /\ input' = <<>>)
      BY <1>2, <1>5, <2>1, <2>3, <2>5, <2>6, DecodeEffect
    <2>8. Len(input') <= InputCapacity
      <3>1. Len(all) <= InputCapacity /\ Len(all) \in Nat
        BY <1>2, <1>3, <1>8, <2>3
      <3>2. input' \in Seq(Nat) /\ Len(input') <= Len(all)
        BY <2>7
      <3> DEFINE q == input'
      <3>3. Len(q) \in Nat /\ Len(q) <= Len(all)
        BY <3>2
      <3> HIDE DEF q
      <3>4. Len(q) <= InputCapacity
        BY <1>2, <3>1, <3>3
      <3>5. QED
        BY <3>4 DEF q
    <2>9. FedData
      BY <2>1, <2>7, <2>8 DEF FedData, GivenAfter
    <2>10. FedFlags
      <3>1. closed => eof
        BY <1>1 DEF InputOK
      <3>2. closed' \in BOOLEAN /\ (closed' => eof)
        BY <1>4, <2>1, <3>1
      <3>3. QED
        BY <2>1, <2>7, <3>2 DEF FedFlags
    <2>11. QED
      BY <2>9, <2>10
  <1>9. QED
    BY <1>7, <1>8

LEMMA FeedKeepsData ==
    ASSUME GoodSetups, StreamInv, FedData, FedFlags, pc # "ended",
           UNCHANGED <<setup, file, chunk, eof, before, rounds, seeks, cursor, avail, ahi,
                       ear>>,
           guard' \in 0..Retries, result' \in {"none", "ok", "failed"}, UNCHANGED disturbed,
           pc' # "ended" => Given' = GivenAfter
    PROVE  /\ TypeOK' /\ Numbers' /\ InputOK' /\ RingOK' /\ CardOK' /\ intact'
           /\ avail' <= produced' - seen'
  <1>1. TypeOK /\ Numbers /\ InputOK /\ intact
    BY DEF StreamInv
  <1>2. UNCHANGED <<setup, file, chunk, eof, before, rounds, seeks, seen, pending, offset,
                    avail, queued, started, heard, intact, disturbed>>
    BY DEF cursor, ahi, ear
  <1>3. Retries \in Nat
    BY Known
  <1>4. produced' \in Nat /\ avail \in Nat /\ produced \in Nat /\ seen \in Nat
    BY Known, KnownNumbers DEF FedData
  <1>5. acked' = acked /\ produced <= produced' /\ seen <= produced /\ avail <= produced - seen
    BY Known, KnownNumbers DEF FedData
  <1>6. avail <= produced' - seen /\ avail <= produced' /\ seen <= produced'
    <2>1. \A some, made, taken, later \in Nat :
            some <= made - taken /\ made <= later /\ taken <= made
              => some <= later - taken /\ some <= later /\ taken <= later
      OBVIOUS
    <2>2. QED
      BY <1>4, <1>5, <2>1
  <1>7. TypeOK'
    <2>1. produced' - acked' <= setup.pcm /\ Len(input') <= InputCapacity
      BY DEF FedData
    <2>2. QED
      BY <1>1, <1>2, <1>5, <1>6, <2>1 DEF TypeOK
  <1>8. Numbers'
    <2>1. {file', chunk', seen', pending', offset', avail', before', guard', queued',
           seeks', acked', heard'} \subseteq Nat
      BY <1>1, <1>2, <1>3, <1>5 DEF Numbers
    <2>2. {eof', started', closed', done', back', intact', disturbed'} \subseteq BOOLEAN
      BY <1>1, <1>2 DEF Numbers, FedFlags
    <2>3. input' \in Seq(Nat)
      BY DEF FedData
    <2>4. QED
      BY <1>4, <2>1, <2>2, <2>3 DEF Numbers
  <1>9. Base' = Base
    BY <1>2 DEF Base
  <1>10. InputOK'
    <2>1. pc' # "ended" => Stretch(input', Base' + produced', Given')
      BY <1>9 DEF FedData
    <2>2. seen' <= heard' /\ (closed' => eof') /\ (done' => closed' /\ input' = <<>>)
      BY <1>1, <1>2 DEF InputOK, FedFlags
    <2>3. QED
      BY <2>1, <2>2 DEF InputOK
  <1>11. RingOK' /\ CardOK'
    BY <1>2, <1>9 DEF RingOK, CardOK, FedData
  <1>12. QED
    BY <1>1, <1>2, <1>6, <1>7, <1>8, <1>10, <1>11

LEMMA FeedKeeps ==
    ASSUME GoodSetups, StreamInv, Feed
    PROVE  StreamInv'
  <1>1. PlacesOK /\ ChunkOK /\ TakeOK /\ FrameOK /\ EndOK
    BY DEF StreamInv
  <1>2. CASE guard < Retries
    <2>1. FedData /\ FedFlags
      BY <1>2, FeedCallEffect DEF Feed
    <2>2. guard' \in 0..Retries /\ pc' = "drain" /\ after' = "fed" /\ UNCHANGED end
      BY <1>2, Known DEF Feed, GoesTo
    <2>3. UNCHANGED <<setup, file, chunk, eof, before, rounds, seeks, cursor, avail, ahi,
                      ear>>
      BY DEF Feed
    <2>4. Given' = GivenAfter
      BY <2>2, <2>3 DEF Given, Holding, GivenAfter
    <2>5. /\ TypeOK' /\ Numbers' /\ InputOK' /\ RingOK' /\ CardOK' /\ intact'
          /\ avail' <= produced' - seen'
      BY <2>1, <2>2, <2>3, <2>4, Known, FeedKeepsData DEF Feed, end
    <2>6. PlacesOK'
      BY <1>1, <2>2 DEF Feed, PlacesOK, Is, FramePlaces, StreamPlaces, SharedPlaces
    <2>7. ChunkOK' /\ TakeOK'
      BY <1>1, <2>2, <2>3, <2>5 DEF ChunkOK, TakeOK
    <2>8. FrameOK' /\ EndOK'
      BY <1>1, <2>2, <2>3 DEF Feed, FrameOK, EndOK, Is, end
    <2>9. QED
      BY <2>5, <2>6, <2>7, <2>8 DEF StreamInv
  <1>3. CASE ~(guard < Retries)
    <2>1. NoCall /\ Called
      BY <1>3, NoCallEffect DEF Feed, NoCall
    <2>2. /\ pc' = "ended" /\ result' = "failed" /\ after' = "fed" /\ UNCHANGED disturbed
          /\ UNCHANGED <<setup, file, chunk, eof, before, rounds, seeks, cursor, avail, ahi,
                         ear, card, guard>>
      BY <1>3 DEF Feed, Ends
    <2>3. ControlOK
      BY <2>2, Known DEF ControlOK, ahi, ear
    <2>4. /\ TypeOK' /\ Numbers' /\ InputOK' /\ RingOK' /\ CardOK' /\ intact'
          /\ avail' <= produced' - seen'
      BY <2>1, <2>3, DataKept
    <2>5. PlacesOK'
      BY <1>1, <2>2 DEF Feed, PlacesOK, Is, FramePlaces, StreamPlaces, SharedPlaces
    <2>6. ChunkOK' /\ TakeOK'
      BY <1>1, <2>2, <2>4 DEF ChunkOK, TakeOK
    <2>7. FrameOK' /\ EndOK'
      BY <1>1, <2>2 DEF Feed, FrameOK, EndOK, Is
    <2>8. QED
      BY <2>4, <2>5, <2>6, <2>7 DEF StreamInv
  <1>4. QED
    BY <1>2, <1>3

LEMMA FrameFeedKeeps ==
    ASSUME GoodSetups, StreamInv, FrameFeed
    PROVE  StreamInv'
  <1>1. PlacesOK /\ ChunkOK /\ TakeOK /\ FrameOK /\ EndOK
    BY DEF StreamInv
  <1>2. FedData /\ FedFlags /\ pc = "feed" /\ Is("mpega") /\ setup' = setup
    BY FeedCallEffect DEF FrameFeed
  <1>3. /\ guard < Retries /\ acked = produced /\ pending < AckBatch /\ ~back
        /\ after = "read" /\ after' = after
    BY <1>1, <1>2 DEF FrameOK, PlacesOK, FrameFeed
  <1>4. produced = seen /\ input = <<>>
    <2>1. produced = acked => input = <<>>
      BY DEF StreamInv, CardOK
    <2>2. QED
      BY <1>3, <2>1, KnownNumbers
  <1>5. back' = FALSE
    <2>1. Len(input) = 0
      BY <1>4
    <2>2. chunk \in Nat /\ chunk <= InputCapacity /\ InputCapacity \in Nat
      BY <1>2, Known, Sizes
    <2>3. ~(Len(input) + chunk > InputCapacity)
      BY <2>1, <2>2
    <2>4. QED
      BY <1>2, <2>3 DEF FedFlags
  <1>6. UNCHANGED <<setup, file, chunk, eof, before, rounds, seeks, cursor, avail, ahi, ear>>
    BY DEF FrameFeed
  <1>7. \/ pc' = "copy" /\ UNCHANGED end
        \/ pc' = "frame" /\ UNCHANGED end
        \/ /\ pc' = "ended" /\ result' = "ok" /\ disturbed' = disturbed
           /\ done' /\ ~(produced' > seen)
    BY DEF FrameFeed, GoesTo, Ends
  <1>8. guard' \in 0..Retries
    BY <1>3, Known DEF FrameFeed
  <1>9. pc' # "ended" => Given' = GivenAfter
    BY <1>3, <1>5, <1>6, <1>7 DEF Given, Holding, GivenAfter
  <1>10. result' \in {"none", "ok", "failed"} /\ disturbed' = disturbed
    BY <1>7, Known DEF end
  <1>11. /\ TypeOK' /\ Numbers' /\ InputOK' /\ RingOK' /\ CardOK' /\ intact'
         /\ avail' <= produced' - seen'
    BY <1>2, <1>6, <1>8, <1>9, <1>10, FeedKeepsData
  <1>12. PlacesOK'
    BY <1>1, <1>2, <1>3, <1>7 DEF PlacesOK, Is, FramePlaces, StreamPlaces, SharedPlaces
  <1>13. ChunkOK' /\ TakeOK'
    BY <1>1, <1>3, <1>5, <1>6, <1>7, <1>11 DEF ChunkOK, TakeOK
  <1>14. FrameOK'
    BY <1>1, <1>2, <1>3, <1>5, <1>6, <1>7 DEF FrameOK, Is, cursor
  <1>15. EndOK'
    <2>1. ASSUME pc' = "ended"
          PROVE  heard' = FileLength
      <3>1. done' /\ ~(produced' > seen)
        BY <1>7, <2>1
      <3>2. input' = <<>> /\ eof
        BY <1>2, <3>1 DEF FedFlags
      <3>3. produced' \in Nat /\ produced <= produced' /\ seen \in Nat /\ heard \in Nat
        BY <1>2, KnownNumbers DEF FedData
      <3>4. produced' = seen
        BY <1>4, <3>1, <3>3
      <3>5. Len(<<>>) = GivenAfter - (Base + produced')
        BY <1>2, <3>2 DEF FedData, Stretch
      <3>6. GivenAfter = FileLength /\ FileLength \in Nat
        BY <1>1, <1>5, <3>2, Known DEF GivenAfter, ChunkOK
      <3>7. 0 = FileLength - ((heard - seen) + seen)
        BY <3>4, <3>5, <3>6 DEF Base
      <3>8. heard' = heard
        BY <1>6 DEF ear
      <3>9. QED
        BY <3>3, <3>6, <3>7, <3>8
    <2>2. QED
      BY <1>1, <1>2, <1>7, <2>1 DEF EndOK, end, Is
  <1>16. QED
    BY <1>11, <1>12, <1>13, <1>14, <1>15 DEF StreamInv

---------------------------------------------------------------------------
\* Taking PCM.

LEMMA SameCell ==
    ASSUME NEW n \in Nat \ {0}, NEW x \in Nat, NEW d \in 0..n
    PROVE  ((x % n) + d) % n = (x + d) % n
  <1> DEFINE r == x % n
  <1>1. r \in 0..(n - 1)
    BY DivMod
  <1>2. (x + d) % n = IF r + d < n THEN r + d ELSE r + d - n
    BY ModStep
  <1> HIDE DEF r
  <1>3. (n * 0 + r) % n = r /\ n * 0 + r = r
    BY <1>1, ModIsRest
  <1>4. (r + d) % n = IF (r % n) + d < n THEN (r % n) + d ELSE (r % n) + d - n
    <2>1. r \in Nat
      BY <1>1
    <2>2. QED
      BY <2>1, ModStep
  <1>5. QED
    BY <1>2, <1>3, <1>4 DEF r

\* What is taken comes next in the file.
LEMMA TakeEffect ==
    ASSUME GoodSetups, StreamInv, NEW n \in Nat, n <= produced - seen, Take(n)
    PROVE  /\ intact' /\ heard' = heard + n /\ seen' = seen + n /\ pending' = pending + n
           /\ offset' = (seen + n) % setup.pcm /\ offset' \in Nat
  <1>1. TypeOK /\ RingOK /\ intact
    BY DEF StreamInv
  <1>2. /\ setup.pcm \in Nat \ {0} /\ seen \in Nat /\ acked \in Nat /\ produced \in Nat
        /\ heard \in Nat /\ acked <= seen /\ seen <= produced
        /\ produced - acked <= setup.pcm /\ offset = seen % setup.pcm
    BY <1>1, Known, KnownNumbers DEF TypeOK
  <1>3. n \in 0..setup.pcm /\ \A i \in 0..(n - 1) : i \in 0..setup.pcm
    BY <1>2
  <1>4. ASSUME NEW i \in 0..(n - 1)
        PROVE  ring[(offset + i) % setup.pcm] = heard + i + 1
    <2>1. (offset + i) % setup.pcm = (seen + i) % setup.pcm
      BY <1>2, <1>3, SameCell
    <2>2. seen + i \in acked..(produced - 1)
      BY <1>2
    <2>3. ring[(seen + i) % setup.pcm] = Base + (seen + i) + 1
      BY <1>1, <2>2 DEF RingOK, Window
    <2>4. Base + (seen + i) + 1 = heard + i + 1
      BY <1>2 DEF Base
    <2>5. QED
      BY <2>1, <2>3, <2>4
  <1>5. intact'
    BY <1>1, <1>4 DEF Take
  <1>6. offset' = (seen + n) % setup.pcm
    <2>1. (offset + n) % setup.pcm = (seen + n) % setup.pcm
      BY <1>2, <1>3, SameCell
    <2>2. QED
      BY <2>1 DEF Take
  <1>7. offset' \in Nat
    <2>1. seen + n \in Nat
      BY <1>2
    <2>2. (seen + n) % setup.pcm \in 0..(setup.pcm - 1)
      BY <1>2, <2>1, DivMod
    <2>3. (seen + n) % setup.pcm \in Nat
      BY <1>2, <2>2
    <2>4. QED
      BY <1>6, <2>3
  <1>8. QED
    BY <1>5, <1>6, <1>7 DEF Take, Credit

LEMMA TakeKeepsData ==
    ASSUME GoodSetups, StreamInv, NEW n \in Nat, n <= produced - seen, Take(n),
           UNCHANGED <<place, card>>, UNCHANGED end, pc # "ended",
           queued' \in 0..AhiBuffers, started' \in BOOLEAN,
           avail' \in Nat, avail' + n <= produced - seen, Given' = Given
    PROVE  /\ TypeOK' /\ Numbers' /\ InputOK' /\ RingOK' /\ CardOK' /\ intact'
           /\ avail' <= produced' - seen'
  <1>1. TypeOK /\ Numbers /\ InputOK /\ RingOK /\ CardOK
    BY DEF StreamInv
  <1>2. /\ intact' /\ heard' = heard + n /\ seen' = seen + n /\ pending' = pending + n
        /\ offset' = (seen + n) % setup.pcm /\ offset' \in Nat
    BY TakeEffect
  <1>3. /\ seen \in Nat /\ acked \in Nat /\ produced \in Nat /\ heard \in Nat
        /\ pending \in Nat /\ acked <= seen /\ seen <= produced /\ pending = seen - acked
    BY KnownNumbers
  <1>4. UNCHANGED <<setup, file, chunk, eof, before, guard, rounds, seeks, input, closed,
                    produced, acked, ring, done, back, result, disturbed, after>>
    BY DEF place, card, end
  <1>5. \A some, made, taken, more, given \in Nat :
          some + more <= made - taken /\ given <= taken
            => /\ some <= made - (taken + more) /\ some <= made /\ taken + more <= made
               /\ given <= taken + more
               /\ (taken - given) + more = (taken + more) - given
    OBVIOUS
  <1>6. /\ avail' <= produced - (seen + n) /\ avail' <= produced /\ seen + n <= produced
        /\ acked <= seen + n /\ (seen - acked) + n = (seen + n) - acked
    <2> DEFINE left == avail'
    <2>1. left \in Nat /\ left + n <= produced - seen
      OBVIOUS
    <2> HIDE DEF left
    <2>2. /\ left <= produced - (seen + n) /\ left <= produced /\ seen + n <= produced
          /\ acked <= seen + n /\ (seen - acked) + n = (seen + n) - acked
      BY <1>3, <1>5, <2>1
    <2>3. QED
      BY <2>2 DEF left
  <1>7. pending' = (seen + n) - acked
    BY <1>2, <1>3, <1>6
  <1>8. TypeOK'
    <2>1. /\ setup \in Setups /\ file \in 0..FileLength /\ chunk \in 0..setup.chunk
          /\ 0 <= acked /\ produced - acked <= setup.pcm /\ Len(input) <= InputCapacity
          /\ guard \in 0..Retries /\ rounds \in 0..Retries /\ seeks \in 0..MaxSeeks
          /\ result \in {"none", "ok", "failed"}
      BY <1>1 DEF TypeOK
    <2>2. QED
      BY <1>2, <1>4, <1>6, <1>7, <2>1 DEF TypeOK
  <1>9. Numbers'
    <2>1. {file', chunk', before', guard', seeks', produced', acked'} \subseteq Nat
      BY <1>1, <1>4 DEF Numbers
    <2>2. {seen', pending', offset', avail', queued', heard'} \subseteq Nat
      BY <1>2, <1>3 DEF AhiBuffers
    <2>3. {eof', started', closed', done', back', intact', disturbed'} \subseteq BOOLEAN
      BY <1>1, <1>2, <1>4 DEF Numbers
    <2>4. input' \in Seq(Nat)
      BY <1>1, <1>4 DEF Numbers
    <2>5. QED
      BY <2>1, <2>2, <2>3, <2>4 DEF Numbers
  <1>10. Base' = Base
    BY <1>2, <1>3 DEF Base
  <1>11. InputOK'
    <2>1. seen' <= heard'
      BY <1>1, <1>2, <1>3 DEF InputOK
    <2>2. Stretch(input', Base' + produced', Given')
      BY <1>1, <1>4, <1>10 DEF InputOK
    <2>3. (closed' => eof') /\ (done' => closed' /\ input' = <<>>)
      BY <1>1, <1>4 DEF InputOK
    <2>4. QED
      BY <2>1, <2>2, <2>3 DEF InputOK
  <1>12. RingOK' /\ CardOK'
    BY <1>1, <1>4, <1>10 DEF RingOK, CardOK
  <1>13. QED
    BY <1>2, <1>4, <1>6, <1>8, <1>9, <1>11, <1>12

LEMMA TakePortionKeeps ==
    ASSUME GoodSetups, StreamInv, TakePortion
    PROVE  StreamInv'
  <1>1. PlacesOK /\ ChunkOK /\ TakeOK /\ FrameOK /\ EndOK
    BY DEF StreamInv
  <1>2. /\ pc = "take" /\ pc' = "ack" /\ Take(Portion) /\ UNCHANGED <<place, card>>
        /\ UNCHANGED end /\ avail' = avail - Portion
    BY DEF TakePortion, GoesTo
  <1>3. /\ Portion \in Nat /\ Portion <= avail /\ avail \in Nat
        /\ avail <= produced - seen
    BY Known, Sizes DEF Portion
  <1>4. Portion <= produced - seen /\ avail' \in Nat /\ avail' + Portion <= produced - seen
    BY <1>2, <1>3, KnownNumbers
  <1>5. queued' \in 0..AhiBuffers /\ started' \in BOOLEAN
    <2>1. queued \in 0..AhiBuffers /\ started \in BOOLEAN /\ eof \in BOOLEAN
      BY Known
    <2>2. CASE Is("ahi")
      BY <2>1, <2>2 DEF TakePortion, AhiBuffers, EnoughQueued
    <2>3. CASE ~Is("ahi")
      BY <2>1, <2>3 DEF TakePortion, ahi
    <2>4. QED
      BY <2>2, <2>3
  <1>6. Given' = Given
    BY <1>2 DEF Given, Holding, place, card
  <1>7. /\ TypeOK' /\ Numbers' /\ InputOK' /\ RingOK' /\ CardOK' /\ intact'
        /\ avail' <= produced' - seen'
    BY <1>2, <1>3, <1>4, <1>5, <1>6, TakeKeepsData
  <1>8. PlacesOK'
    BY <1>1, <1>2 DEF PlacesOK, Is, place, FramePlaces, StreamPlaces, SharedPlaces
  <1>9. ChunkOK' /\ TakeOK'
    BY <1>1, <1>2, <1>7 DEF ChunkOK, TakeOK, place, card
  <1>10. FrameOK' /\ EndOK'
    BY <1>1, <1>2 DEF PlacesOK, StreamPlaces, FrameOK, EndOK, Is, place, end
  <1>11. QED
    BY <1>7, <1>8, <1>9, <1>10 DEF StreamInv

LEMMA CopyFrameKeeps ==
    ASSUME GoodSetups, StreamInv, CopyFrame
    PROVE  StreamInv'
  <1> DEFINE n == Least(produced - seen, setup.period)
  <1>1. PlacesOK /\ ChunkOK /\ TakeOK /\ FrameOK /\ EndOK
    BY DEF StreamInv
  <1>2. /\ pc = "copy" /\ pc' = "ack" /\ Take(n) /\ UNCHANGED <<place, avail, ahi, card>>
        /\ UNCHANGED end
    BY DEF CopyFrame, GoesTo
  <1>3. Is("mpega") /\ avail = 0 /\ ~back /\ after = "read"
    BY <1>1, <1>2 DEF PlacesOK, FramePlaces, FrameOK
  <1>4. n \in Nat /\ n <= produced - seen
    BY Known, Sizes, KnownNumbers DEF Least
  <1> HIDE DEF n
  <1>5. avail' \in Nat /\ avail' + n <= produced - seen
    BY <1>2, <1>3, <1>4, KnownNumbers
  <1>6. queued' \in 0..AhiBuffers /\ started' \in BOOLEAN
    BY <1>2, Known DEF ahi
  <1>7. Given' = Given
    BY <1>2, <1>3 DEF Given, Holding, place, card
  <1>8. /\ TypeOK' /\ Numbers' /\ InputOK' /\ RingOK' /\ CardOK' /\ intact'
        /\ avail' <= produced' - seen'
    BY <1>2, <1>4, <1>5, <1>6, <1>7, TakeKeepsData
  <1>9. PlacesOK'
    BY <1>1, <1>2 DEF PlacesOK, Is, place, FramePlaces, StreamPlaces, SharedPlaces
  <1>10. ChunkOK' /\ TakeOK'
    BY <1>1, <1>2, <1>8 DEF ChunkOK, TakeOK, place, card
  <1>11. FrameOK' /\ EndOK'
    BY <1>1, <1>2, <1>3 DEF FrameOK, EndOK, Is, place, end, card
  <1>12. QED
    BY <1>8, <1>9, <1>10, <1>11 DEF StreamInv

---------------------------------------------------------------------------
\* A session begins.

LEMMA NothingYet ==
    ASSUME NEW size \in Nat \ {0}, NEW at \in Nat
    PROVE  /\ Stretch(<<>>, at + 0, at) /\ Window(EmptyRing(size), size, 0, 0, at)
           /\ 0 % size = 0 /\ <<>> \in Seq(Nat) /\ Len(<<>>) = 0
  <1>1. (size * 0 + 0) % size = 0 /\ size * 0 + 0 = 0
    BY ModIsRest
  <1>2. QED
    BY <1>1 DEF Stretch, Window, EmptyRing

LEMMA InitStream ==
    ASSUME GoodSetups, NEW where \in {"start", "ended"}, InitAt(where)
    PROVE  StreamInv
  <1>1. setup \in Setups
    BY DEF InitAt
  <1>2. /\ setup.pcm \in Nat \ {0} /\ setup.chunk \in Nat \ {0} /\ InputCapacity \in Nat
        /\ FileLength \in Nat \ {0} /\ MaxSeeks \in Nat /\ Retries \in Nat \ {0}
        /\ AckBatch \in Nat \ {0}
        /\ setup.client \in {"zzplay", "ahi", "mp3", "mpega"}
    BY <1>1, Sizes
  <1>3. /\ Stretch(<<>>, 0 + 0, 0) /\ Window(EmptyRing(setup.pcm), setup.pcm, 0, 0, 0)
        /\ 0 % setup.pcm = 0 /\ <<>> \in Seq(Nat) /\ Len(<<>>) = 0
    BY <1>2, NothingYet
  <1>4. Base = 0 /\ Given = 0 /\ Base + produced = 0 + 0
    BY DEF InitAt, Base, Given
  <1>5. TypeOK
    BY <1>1, <1>2, <1>3 DEF InitAt, TypeOK, AhiBuffers
  <1>6. Numbers
    <2>1. /\ {file, chunk, seen, pending, offset, avail, before, guard, queued, seeks,
              produced, acked, heard} \subseteq Nat
          /\ input \in Seq(Nat)
      BY <1>3 DEF InitAt
    <2>2. {eof, started, closed, done, back, intact, disturbed} \subseteq BOOLEAN
      BY DEF InitAt
    <2>3. QED
      BY <2>1, <2>2 DEF Numbers
  <1>7. InputOK /\ RingOK /\ CardOK
    BY <1>3, <1>4 DEF InitAt, InputOK, RingOK, CardOK
  <1>8. PlacesOK /\ ChunkOK /\ TakeOK
    BY <1>2 DEF InitAt, PlacesOK, ChunkOK, TakeOK, FramePlaces, StreamPlaces, SharedPlaces
  <1>9. FrameOK /\ EndOK /\ intact
    BY <1>2 DEF InitAt, FrameOK, EndOK
  <1>10. QED
    BY <1>5, <1>6, <1>7, <1>8, <1>9 DEF StreamInv

LEMMA SeekKeeps ==
    ASSUME GoodSetups, StreamInv, Seek
    PROVE  StreamInv'
  <1>1. PlacesOK /\ FrameOK /\ EndOK /\ TypeOK /\ Numbers /\ intact
    BY DEF StreamInv
  <1>2. PICK at \in 0..(FileLength - 1) : file' = at /\ heard' = at
    BY DEF Seek
  <1>3. /\ pc = "idle" /\ seeks < MaxSeeks /\ seeks' = seeks + 1
        /\ chunk' = 0 /\ eof' = FALSE /\ seen' = 0 /\ offset' = 0 /\ pending' = 0
        /\ input' = <<>> /\ closed' = FALSE /\ produced' = 0 /\ acked' = 0
        /\ ring' = EmptyRing(setup.pcm) /\ done' = FALSE /\ back' = FALSE
        /\ UNCHANGED <<setup, pc, after, before, guard, rounds, avail, queued, started,
                       intact, result, disturbed>>
    BY DEF Seek, ahi, end
  <1>4. Is("mpega") /\ avail = 0 /\ after = "read"
    BY <1>1, <1>3 DEF PlacesOK, FramePlaces, FrameOK
  <1>5. /\ setup \in Setups /\ setup.pcm \in Nat \ {0} /\ setup.chunk \in Nat
        /\ InputCapacity \in Nat /\ FileLength \in Nat /\ MaxSeeks \in Nat
        /\ seeks \in 0..MaxSeeks /\ at \in Nat /\ at <= FileLength
        /\ AckBatch \in Nat \ {0}
    BY Known, Sizes
  <1>6. /\ Stretch(<<>>, at + 0, at) /\ Window(EmptyRing(setup.pcm), setup.pcm, 0, 0, at)
        /\ 0 % setup.pcm = 0 /\ <<>> \in Seq(Nat) /\ Len(<<>>) = 0
    BY <1>5, NothingYet
  <1>7. Base' = at /\ Given' = at /\ Base' + produced' = at + 0
    BY <1>2, <1>3, <1>5 DEF Base, Given, Holding
  <1>8. TypeOK'
    BY <1>1, <1>2, <1>3, <1>4, <1>5, <1>6 DEF TypeOK
  <1>9. Numbers'
    <2>1. {file', chunk', seen', pending', offset', avail', before', guard', queued',
           seeks', produced', acked', heard'} \subseteq Nat
      BY <1>1, <1>2, <1>3, <1>5 DEF Numbers
    <2>2. {eof', started', closed', done', back', intact', disturbed'} \subseteq BOOLEAN
      BY <1>1, <1>3 DEF Numbers
    <2>3. QED
      BY <1>3, <1>6, <2>1, <2>2 DEF Numbers
  <1>10. InputOK' /\ RingOK' /\ CardOK'
    BY <1>2, <1>3, <1>5, <1>6, <1>7 DEF InputOK, RingOK, CardOK
  <1>11. PlacesOK'
    BY <1>1, <1>3 DEF PlacesOK, Is
  <1>12. ChunkOK' /\ TakeOK'
    BY <1>2, <1>3, <1>4, <1>5 DEF ChunkOK, TakeOK
  <1>13. FrameOK' /\ EndOK'
    BY <1>1, <1>3, <1>4, <1>5 DEF FrameOK, EndOK, Is
  <1>14. QED
    BY <1>1, <1>3, <1>8, <1>9, <1>10, <1>11, <1>12, <1>13 DEF StreamInv

---------------------------------------------------------------------------
LEMMA StreamInvStep ==
    ASSUME GoodSetups, StreamInv, [Next]_vars
    PROVE  StreamInv'
  <1>1. CASE Step
    BY <1>1, StartKeeps, ReadFileKeeps, MakeRoomKeeps, FeedKeeps, DrainKeeps,
       TakePortionKeeps, TookAllKeeps, AckTakenKeeps, FedKeeps, FlushKeeps, FlushedKeeps,
       SettledKeeps, FinishKeeps, DecodeFrameKeeps, FrameBeginsKeeps, FrameSourceKeeps,
       FrameFeedKeeps, CopyFrameKeeps, AckFrameKeeps DEF Step
  <1>2. CASE AhiPlays
    BY <1>2, AhiPlaysKeeps
  <1>3. CASE Disturb
    BY <1>3, DisturbKeeps
  <1>4. CASE Seek
    BY <1>4, SeekKeeps
  <1>5. CASE UNCHANGED vars
    BY <1>5 DEF vars, StreamInv, TypeOK, PlacesOK, Numbers, ChunkOK, InputOK, RingOK,
       CardOK, TakeOK, FrameOK, EndOK, Holding, Given, Base, Is
  <1>6. QED
    BY <1>1, <1>2, <1>3, <1>4, <1>5 DEF Next

LEMMA StreamInvariant == GoodSetups => (Spec => []StreamInv)
  <1> SUFFICES ASSUME GoodSetups
               PROVE  Spec => []StreamInv
    OBVIOUS
  <1>1. Init => StreamInv
    BY InitStream DEF Init
  <1>2. StreamInv /\ [Next]_vars => StreamInv'
    BY StreamInvStep
  <1>3. QED
    BY <1>1, <1>2, PTL DEF Spec

\* Type correctness; among it that the client never counts more PCM than the card has
\* made, nor the card more room than its ring has.
THEOREM StreamTypeCorrect ==
    ASSUME GoodSetups
    PROVE  Spec => []TypeOK
  <1>1. StreamInv => TypeOK
    BY DEF StreamInv
  <1>2. QED
    BY <1>1, StreamInvariant, PTL

\* The listener has the file in its order, although credit is returned in batches,
\* feeds are refused and repeated, and the card decodes as much of its input at a time
\* as it likes.
THEOREM HeardIsInOrder ==
    ASSUME GoodSetups
    PROVE  Spec => []HeardInOrder
  <1>1. StreamInv => HeardInOrder
    BY DEF StreamInv, HeardInOrder
  <1>2. QED
    BY <1>1, StreamInvariant, PTL

\* A stream that reports success has played all of the file.
StreamWhole == pc = "ended" /\ result = "ok" => intact /\ heard = FileLength

\* What was refused was fed again, no chunk was skipped, and what the card decoded
\* after the EOF was not left behind; the part of StreamPlays that does not depend on
\* how many calls a loop makes.
THEOREM SuccessIsWhole ==
    ASSUME GoodSetups
    PROVE  Spec => []StreamWhole
  <1>1. StreamInv => StreamWhole
    BY DEF StreamInv, EndOK, StreamWhole
  <1>2. QED
    BY <1>1, StreamInvariant, PTL

---------------------------------------------------------------------------
\* No loop gives up.  The card decodes in every call that finds room in its PCM ring,
\* and the clients make room: so each round of a loop leaves the card less to do.

\* The client keeps trying for longer than the card can have work, a chunk is no
\* more than the input ring, and a period of AHI no more than the PCM ring.
Patient ==
    \A s \in Setups :
      s.client # "mpega" => /\ s.chunk <= InputCapacity /\ InputCapacity + 1 < Retries
                            /\ s.client = "ahi" => s.period <= s.pcm

\* Taking what there is, on the way to where.
Taking(where) == pc \in {"drain", "take", "ack"} /\ after = where

\* Since the call that the loop counted last, the card has decoded something.
Decoded == Len(input) + guard <= InputCapacity

\* zz9k-mp3 returns credit until the chunk fits: each call makes the input less.
RoomOK == pc = "room" \/ Taking("room") => Decoded

\* Or the chunk is refused: by the time it is fed again, the input is less.
RepeatOK ==
    /\ pc = "feed" => Decoded /\ guard <= chunk
    /\ (pc = "fed" \/ Taking("fed")) /\ back =>
         /\ 0 < chunk /\ guard <= chunk /\ Len(input) + guard <= InputCapacity + 1
         /\ pc \in {"take", "ack"} => Decoded \/ produced - seen = avail
         /\ pc = "fed" => \/ Decoded
                          \/ produced - seen < setup.pcm /\ (Is("mp3") => produced = seen)
    /\ (pc = "fed" \/ Taking("fed")) /\ ~back /\ eof => closed

\* What is left to do after the EOF: units to decode, and PCM to return.
Rank == Len(input) + (IF produced > acked THEN 1 ELSE 0)
Less == Rank + guard <= InputCapacity + 1

\* Every round leaves less, or ends the loop.
FlushOK ==
    /\ pc = "flush" => closed /\ Less
    /\ pc \in {"flushed", "settled"} \/ Taking("flushed") =>
         closed /\ Rank + guard <= InputCapacity + 2
    /\ pc \in {"take", "ack"} /\ after = "flushed" => Less \/ produced - seen = avail
    /\ pc = "flushed" => Less \/ produced = seen
    /\ pc = "settled" => Less \/ (Zzplay /\ Settles)

\* Only AHI leaves something after a portion; only mpega.library begins elsewhere.
PortionOK == /\ pc = "ack" /\ ~Is("ahi") => avail = 0
             /\ heard = seen

LoopsOK == RoomOK /\ RepeatOK /\ FlushOK /\ PortionOK

\* zz9k-mp3 looks again after each round: unless the last call decoded nothing, the
\* input is less by one for each.
RoundsOK ==
    /\ pc \notin {"drain", "take", "ack", "ended"} \/ ~Is("mp3") => rounds = 0
    /\ Is("mp3") =>
         /\ pc = "drain" => \/ rounds + Len(input) <= InputCapacity
                            \/ produced = seen /\ rounds + Len(input) <= InputCapacity + 1
         /\ pc = "take" => avail = 0 \/ rounds + Len(input) <= InputCapacity + 1
         /\ pc = "ack" => produced = seen /\ rounds + Len(input) <= InputCapacity + 1

PlayInv == /\ result = "failed" => disturbed
           /\ pc = "ended" /\ result = "none" => disturbed
           /\ ~Is("mpega") => LoopsOK /\ RoundsOK

LEMMA PlayNumbers ==
    ASSUME GoodSetups, Patient, StreamInv
    PROVE  /\ Len(input) \in Nat /\ guard \in Nat /\ chunk \in Nat /\ InputCapacity \in Nat
           /\ Retries \in Nat /\ setup.pcm \in Nat \ {0} /\ setup.period \in Nat \ {0}
           /\ produced \in Nat /\ seen \in Nat /\ acked \in Nat /\ pending \in Nat
           /\ avail \in Nat /\ back \in BOOLEAN /\ closed \in BOOLEAN /\ eof \in BOOLEAN
  <1>1. setup \in Setups
    BY DEF StreamInv, TypeOK
  <1>2. input \in Seq(Nat)
    BY DEF StreamInv, Numbers
  <1>3. Len(input) \in Nat
    BY <1>2
  <1>4. QED
    BY <1>1, <1>3, Sizes DEF StreamInv, Numbers

LEMMA PlayBounds ==
    ASSUME GoodSetups, Patient, StreamInv
    PROVE  /\ Len(input) <= InputCapacity /\ acked <= seen /\ seen <= produced
           /\ produced - acked <= setup.pcm /\ pending = seen - acked
           /\ produced = acked => Len(input) = 0
  <1>1. produced = acked => Len(input) = 0
    BY DEF StreamInv, CardOK
  <1>2. QED
    BY <1>1 DEF StreamInv, TypeOK

LEMMA PlaySizes ==
    ASSUME GoodSetups, Patient, StreamInv, ~Is("mpega")
    PROVE  /\ chunk <= InputCapacity /\ InputCapacity + 1 < Retries
           /\ Is("ahi") => setup.period <= setup.pcm
           /\ Is("ahi") \/ Is("mp3") \/ Is("zzplay")
           /\ Zzplay <=> Is("ahi") \/ Is("zzplay")
           /\ eof => chunk = 0
  <1>1. setup \in Setups /\ chunk \in 0..setup.chunk
    BY DEF StreamInv, TypeOK
  <1>2. /\ setup.chunk <= InputCapacity /\ InputCapacity + 1 < Retries
        /\ Is("ahi") => setup.period <= setup.pcm
    BY <1>1 DEF Patient, Is
  <1>3. setup.chunk \in Nat /\ InputCapacity \in Nat
        /\ setup.client \in {"zzplay", "ahi", "mp3", "mpega"}
    BY <1>1, Sizes
  <1>4. chunk <= InputCapacity
    BY <1>1, <1>2, <1>3
  <1>5. eof => chunk = 0
    BY DEF StreamInv, ChunkOK
  <1>6. QED
    BY <1>2, <1>3, <1>4, <1>5 DEF Is, Zzplay

LEMMA RankIs ==
    ASSUME GoodSetups, Patient, StreamInv
    PROVE  /\ Rank \in Nat /\ Len(input) <= Rank /\ Rank <= Len(input) + 1
           /\ Len(input) > 0 => Rank = Len(input) + 1
           /\ produced = acked => Rank = 0
  <1>1. Len(input) \in Nat /\ produced \in Nat /\ acked \in Nat
    BY PlayNumbers
  <1>2. (produced = acked => Len(input) = 0) /\ acked <= produced
    BY PlayNumbers, PlayBounds
  <1>3. QED
    BY <1>1, <1>2 DEF Rank

LEMMA NoCallRank ==
    ASSUME NoCall
    PROVE  /\ UNCHANGED <<input, closed, produced, acked, done, back, seen, pending>>
           /\ Rank' = Rank
  BY DEF NoCall, card, cursor, Rank

\* A read makes the card decode, if the PCM ring was not full and there is input.
LEMMA ReadDecodes ==
    ASSUME GoodSetups, Patient, StreamInv, ReadCall, pc # "ended"
    PROVE  /\ Len(input') \in Nat /\ Len(input') <= Len(input)
           /\ produced - seen < setup.pcm /\ Len(input) > 0 => Len(input') < Len(input)
           /\ Len(input) = 0 => produced' = produced /\ Len(input') = 0
           /\ produced' \in Nat /\ acked' = seen /\ seen' = seen /\ pending' = 0
           /\ closed' = closed /\ back' = back
           /\ closed /\ Len(input') = 0 => done'
           /\ produced' = acked' => Len(input') = 0
           /\ acked' <= produced'
  <1>1. Called /\ pending' = 0
    BY ReadCallEffect
  <1>2. /\ input \in Seq(Nat) /\ Len(input) \in Nat /\ setup.pcm \in Nat \ {0}
        /\ produced \in Nat /\ seen \in Nat /\ acked \in Nat
    BY PlayNumbers DEF StreamInv, Numbers
  <1>3. acked <= seen /\ seen <= produced /\ pending = seen - acked /\ produced - acked <= setup.pcm
    BY PlayBounds
  <1>4. acked + pending = seen
    BY <1>2, <1>3
  <1>5. Decode(input, seen)
    BY <1>4 DEF ReadCall
  <1>6. PICK n \in Amounts(input, seen) :
          /\ input' = SubSeq(input, n + 1, Len(input))
          /\ produced' = produced + n
          /\ acked' = seen /\ done' = (closed' /\ input' = <<>>)
    BY <1>5 DEF Decode
  <1> DEFINE room == setup.pcm - (produced - seen)
             len  == Len(input)
             most == Least(len, room)
  <1>7. room \in Nat /\ (produced - seen < setup.pcm => room > 0)
    BY <1>2, <1>3
  <1>8. n \in Nat /\ n <= len /\ (room > 0 /\ len > 0 => n > 0)
    <2>1. n \in IF setup.sliced /\ most > 0 THEN 1..most ELSE {most}
      BY <1>6 DEF Amounts
    <2> HIDE DEF room
    <2>2. most \in Nat /\ most <= len /\ (room > 0 /\ len > 0 => most > 0)
      BY <1>2, <1>7 DEF Least
    <2> HIDE DEF most
    <2>3. CASE setup.sliced /\ most > 0
      BY <2>1, <2>2, <2>3
    <2>4. CASE ~(setup.sliced /\ most > 0)
      BY <2>1, <2>2, <2>4
    <2>5. QED
      BY <2>3, <2>4
  <1> HIDE DEF room, most
  <1>9. Len(input') = len - n
    <2>1. n + 1 \in 1..(len + 1) /\ len \in Nat
      BY <1>2, <1>8
    <2>2. Len(SubSeq(input, n + 1, len)) = len - n
      BY <1>2, <1>8, <2>1
    <2>3. QED
      BY <1>6, <2>2
  <1> HIDE DEF len
  <1>10. /\ Len(input') \in Nat /\ Len(input') <= len /\ (n > 0 => Len(input') < len)
         /\ (len = 0 => n = 0 /\ Len(input') = 0)
    BY <1>2, <1>8, <1>9 DEF len
  <1>11. len = 0 => produced' = produced
    BY <1>2, <1>6, <1>10
  <1>12. /\ closed' = closed /\ back' = back /\ seen' = seen /\ input' \in Seq(Nat)
         /\ produced' \in Nat /\ acked' <= seen /\ produced <= produced'
         /\ (produced' = acked' => input' = <<>>)
    BY <1>1 DEF Called
  <1>13. Len(input') = 0 => input' = <<>>
    BY <1>12
  <1>14. closed /\ Len(input') = 0 => done'
    BY <1>6, <1>12, <1>13
  <1>15. produced' = acked' => Len(input') = 0
    BY <1>12
  <1>16. produced - seen < setup.pcm /\ len > 0 => Len(input') < len
    BY <1>7, <1>8, <1>10
  <1>17. acked' <= produced'
    BY <1>2, <1>3, <1>6, <1>12
  <1>18. QED
    BY <1>1, <1>6, <1>10, <1>11, <1>12, <1>14, <1>15, <1>16, <1>17 DEF len

\* So there is less left, or there was nothing to decode.
LEMMA ReadRank ==
    ASSUME GoodSetups, Patient, StreamInv, ReadCall, pc # "ended"
    PROVE  /\ Rank' \in Nat /\ Rank' <= Rank
           /\ produced - seen < setup.pcm /\ Len(input) > 0 => Rank' < Rank
           /\ Len(input) = 0 /\ produced = seen => Rank' = 0
  <1>1. /\ Len(input') \in Nat /\ Len(input') <= Len(input) /\ produced' \in Nat
        /\ produced - seen < setup.pcm /\ Len(input) > 0 => Len(input') < Len(input)
        /\ Len(input) = 0 => produced' = produced /\ Len(input') = 0
        /\ acked' = seen
    BY ReadDecodes
  <1>2. /\ Len(input) \in Nat /\ produced \in Nat /\ seen \in Nat /\ acked \in Nat
        /\ acked <= seen /\ seen <= produced
    BY PlayNumbers, PlayBounds
  <1>3. Len(input) > 0 => Rank = Len(input) + 1
    BY RankIs
  <1>4. Rank' \in Nat /\ Rank' <= Len(input') + 1
    BY <1>1, <1>2 DEF Rank
  <1>5. CASE Len(input) > 0
    BY <1>1, <1>2, <1>3, <1>4, <1>5
  <1>6. CASE Len(input) = 0
    <2>1. Rank' = IF produced > seen THEN 1 ELSE 0
      BY <1>1, <1>6 DEF Rank
    <2>2. Rank = IF produced > acked THEN 1 ELSE 0
      BY <1>2, <1>6 DEF Rank
    <2>3. QED
      BY <1>2, <1>4, <1>6, <2>1, <2>2
  <1>7. QED
    BY <1>2, <1>5, <1>6

LEMMA StreamClient ==
    ASSUME StreamInv, pc \in StreamPlaces PROVE ~Is("mpega") /\ pc # "ended"
  BY DEF StreamInv, PlacesOK, StreamPlaces

LEMMA ReadFilePlays ==
    ASSUME GoodSetups, Patient, StreamInv, LoopsOK, ReadFile, ~Is("mpega")
    PROVE  LoopsOK' /\ result' = result
  <1>1. /\ pc' \in {"room", "feed"} /\ guard' = 0 /\ result' = result /\ NoCall
        /\ UNCHANGED <<setup, after, heard>>
    BY DEF ReadFile, GoesTo, NoCall, end, ear
  <1>2. Len(input') = Len(input) /\ seen' = seen
    BY <1>1, NoCallRank
  <1>3. Len(input) \in Nat /\ InputCapacity \in Nat /\ Len(input) <= InputCapacity
    BY PlayNumbers, PlayBounds
  <1>4. Decoded'
    BY <1>1, <1>2, <1>3 DEF Decoded
  <1>5. guard' <= chunk'
    <2>1. chunk' \in Nat
      BY SourceEffect, Known DEF ReadFile
    <2>2. QED
      BY <1>1, <2>1
  <1>6. RoomOK'
    BY <1>4 DEF RoomOK
  <1>7. RepeatOK'
    BY <1>1, <1>4, <1>5 DEF RepeatOK, Taking
  <1>8. FlushOK'
    BY <1>1 DEF FlushOK, Taking
  <1>9. PortionOK'
    BY <1>1, <1>2 DEF LoopsOK, PortionOK
  <1>10. QED
    BY <1>1, <1>6, <1>7, <1>8, <1>9 DEF LoopsOK

LEMMA MakeRoomPlays ==
    ASSUME GoodSetups, Patient, StreamInv, LoopsOK, MakeRoom
    PROVE  LoopsOK' /\ result' = result
  <1>1. pc = "room" /\ pc # "ended" /\ ~Is("mpega")
    BY StreamClient DEF MakeRoom, StreamPlaces
  <1>2. Decoded
    BY <1>1 DEF LoopsOK, RoomOK
  <1>3. /\ Len(input) \in Nat /\ InputCapacity \in Nat /\ Len(input) <= InputCapacity
        /\ guard \in Nat /\ Retries \in Nat /\ chunk \in Nat /\ chunk <= InputCapacity
        /\ InputCapacity + 1 < Retries
    BY <1>1, PlayNumbers, PlayBounds, PlaySizes
  <1>4. guard < Retries
    BY <1>2, <1>3 DEF Decoded
  <1>5. UNCHANGED <<setup, chunk, heard>>
    BY DEF MakeRoom, ear
  <1>6. CASE Len(input) > InputCapacity - chunk /\ pending > 0
    <2>1. /\ ReadCall /\ pc' = "drain" /\ result' = result /\ after' = "room"
          /\ guard' = guard + 1
      BY <1>4, <1>6 DEF MakeRoom, GoesTo, end
    <2>2. produced - seen < setup.pcm
      <3>1. /\ produced \in Nat /\ seen \in Nat /\ acked \in Nat /\ setup.pcm \in Nat
            /\ pending = seen - acked /\ produced - acked <= setup.pcm
        BY PlayNumbers, PlayBounds
      <3>2. QED
        BY <1>6, <3>1
    <2>3. Len(input) > 0
      BY <1>3, <1>6
    <2>4. Len(input') \in Nat /\ Len(input') < Len(input) /\ seen' = seen
      BY <1>1, <2>1, <2>2, <2>3, ReadDecodes
    <2>5. Decoded'
      BY <1>2, <1>3, <2>1, <2>4 DEF Decoded
    <2>6. RoomOK' /\ RepeatOK' /\ FlushOK'
      BY <2>1, <2>5 DEF RoomOK, RepeatOK, FlushOK, Taking
    <2>7. PortionOK'
      BY <1>5, <2>1, <2>4 DEF LoopsOK, PortionOK
    <2>8. QED
      BY <2>1, <2>6, <2>7 DEF LoopsOK
  <1>7. CASE ~(Len(input) > InputCapacity - chunk /\ pending > 0)
    <2>1. NoCall /\ pc' = "feed" /\ result' = result /\ guard' = 0
      BY <1>7 DEF MakeRoom, GoesTo, end
    <2>2. Len(input') = Len(input) /\ seen' = seen
      BY <2>1, NoCallRank
    <2>3. Decoded' /\ guard' <= chunk'
      BY <1>3, <1>5, <2>1, <2>2 DEF Decoded
    <2>4. RoomOK' /\ RepeatOK' /\ FlushOK'
      BY <2>1, <2>3 DEF RoomOK, RepeatOK, FlushOK, Taking
    <2>5. PortionOK'
      BY <1>5, <2>1, <2>2 DEF LoopsOK, PortionOK
    <2>6. QED
      BY <2>1, <2>4, <2>5 DEF LoopsOK
  <1>8. QED
    BY <1>6, <1>7

LEMMA FeedPlays ==
    ASSUME GoodSetups, Patient, StreamInv, LoopsOK, Feed
    PROVE  LoopsOK' /\ result' = result
  <1>1. pc = "feed" /\ ~Is("mpega") /\ after' = "fed"
       /\ UNCHANGED <<setup, chunk, eof, heard, seen>>
    BY DEF Feed, ear, cursor
  <1>2. Decoded /\ guard <= chunk
    BY <1>1 DEF LoopsOK, RepeatOK
  <1>3. /\ Len(input) \in Nat /\ InputCapacity \in Nat /\ Len(input) <= InputCapacity
        /\ guard \in Nat /\ Retries \in Nat /\ chunk \in Nat
        /\ InputCapacity + 1 < Retries
    BY <1>1, PlayNumbers, PlayBounds, PlaySizes
  <1>4. guard < Retries
    BY <1>2, <1>3 DEF Decoded
  <1>5. FeedCall /\ pc' = "drain" /\ result' = result /\ guard' = guard + 1
    BY <1>4 DEF Feed, GoesTo, end
  <1>6. back' => /\ 0 < chunk' /\ guard' <= chunk'
                 /\ Len(input') + guard' <= InputCapacity + 1
    <2>1. back' => Len(input) + chunk > InputCapacity /\ input' = input
      BY <1>5 DEF FeedCall
    <2>2. QED
      BY <1>1, <1>2, <1>3, <1>5, <2>1 DEF Decoded
  <1>7. ~back' /\ eof' => closed'
    BY <1>1, <1>5 DEF FeedCall
  <1>8. RepeatOK'
    BY <1>1, <1>5, <1>6, <1>7 DEF RepeatOK, Taking
  <1>9. RoomOK' /\ FlushOK'
    BY <1>1, <1>5 DEF RoomOK, FlushOK, Taking
  <1>10. PortionOK'
    BY <1>1, <1>5 DEF LoopsOK, PortionOK
  <1>11. QED
    BY <1>5, <1>8, <1>9, <1>10 DEF LoopsOK

LEMMA RoundsLeft ==
    ASSUME GoodSetups, Patient, StreamInv, RoundsOK, pc = "drain"
    PROVE  rounds # Retries
  <1>1. /\ Len(input) \in Nat /\ rounds \in Nat /\ InputCapacity \in Nat /\ Retries \in Nat
        /\ InputCapacity + 1 < Retries
    BY StreamClient, PlayNumbers, PlaySizes, Known DEF StreamPlaces
  <1>2. rounds = 0 \/ rounds + Len(input) <= InputCapacity + 1
    BY <1>1 DEF RoundsOK
  <1>3. QED
    BY <1>1, <1>2

LEMMA DrainPlays ==
    ASSUME GoodSetups, Patient, StreamInv, LoopsOK, RoundsOK, Drain
    PROVE  LoopsOK' /\ result' = result
  <1>1. /\ pc = "drain" /\ avail' = produced - seen /\ NoCall
        /\ UNCHANGED <<setup, after, chunk, eof, guard, heard>>
    BY DEF Drain, NoCall, ear
  <1>2. ~(avail' > setup.pcm) /\ rounds # Retries
    <2>1. /\ produced \in Nat /\ seen \in Nat /\ acked \in Nat /\ setup.pcm \in Nat
          /\ acked <= seen /\ produced - acked <= setup.pcm
      BY PlayNumbers, PlayBounds
    <2>2. QED
      BY <1>1, <2>1, RoundsLeft
  <1>3. pc' = "take" /\ result' = result
    BY <1>2 DEF Drain, GoesTo, end
  <1>4. /\ UNCHANGED <<input, closed, produced, acked, back, seen>> /\ Rank' = Rank
    BY <1>1, NoCallRank
  <1>5. RoomOK'
    BY <1>1, <1>3, <1>4 DEF LoopsOK, RoomOK, Taking, Decoded
  <1>6. RepeatOK'
    BY <1>1, <1>3, <1>4 DEF LoopsOK, RepeatOK, Taking, Decoded
  <1>7. FlushOK'
    BY <1>1, <1>3, <1>4 DEF LoopsOK, FlushOK, Taking, Less
  <1>8. PortionOK'
    BY <1>1, <1>3, <1>4 DEF LoopsOK, PortionOK
  <1>9. QED
    BY <1>3, <1>5, <1>6, <1>7, <1>8 DEF LoopsOK

\* What is taken is what was there, or a period.
LEMMA PortionIs ==
    ASSUME GoodSetups, Patient, StreamInv, ~Is("mpega")
    PROVE  /\ Portion \in Nat /\ Portion <= avail /\ (~Is("ahi") => Portion = avail)
           /\ Portion = 0 => avail < setup.pcm /\ (~Is("ahi") \/ eof => avail = 0)
  <1>1. /\ avail \in Nat /\ setup.period \in Nat \ {0} /\ setup.pcm \in Nat \ {0}
        /\ eof \in BOOLEAN /\ (Is("ahi") => setup.period <= setup.pcm)
    BY PlayNumbers, PlaySizes
  <1>2. QED
    BY <1>1 DEF Portion

LEMMA TakePortionPlays ==
    ASSUME GoodSetups, Patient, StreamInv, LoopsOK, TakePortion
    PROVE  LoopsOK' /\ result' = result
  <1>1. /\ pc = "take" /\ pc' = "ack" /\ result' = result
        /\ Take(Portion) /\ avail' = avail - Portion
        /\ UNCHANGED <<setup, after, chunk, eof, guard>>
        /\ UNCHANGED <<input, closed, produced, acked, back>>
    BY DEF TakePortion, GoesTo, place, card, end
  <1>2. ~Is("mpega")
    BY <1>1, StreamClient DEF StreamPlaces
  <1>3. /\ Portion \in Nat /\ Portion <= avail /\ (~Is("ahi") => Portion = avail)
        /\ avail \in Nat /\ seen \in Nat /\ produced \in Nat /\ heard = seen
    BY <1>2, PortionIs, PlayNumbers DEF LoopsOK, PortionOK
  <1>4. seen' = seen + Portion /\ heard' = heard + Portion
    BY <1>1 DEF Take
  <1> DEFINE n == Portion
  <1> HIDE DEF n
  <1>5. seen' = seen + n /\ avail' = avail - n /\ n \in Nat
    BY <1>1, <1>3, <1>4 DEF n
  <1>6. produced - seen = avail => produced' - seen' = avail'
    BY <1>1, <1>3, <1>5
  <1>7. Rank' = Rank
    BY <1>1 DEF Rank
  <1>8. RoomOK'
    BY <1>1 DEF LoopsOK, RoomOK, Taking, Decoded
  <1>9. RepeatOK'
    BY <1>1, <1>6 DEF LoopsOK, RepeatOK, Taking, Decoded
  <1>10. FlushOK'
    BY <1>1, <1>6, <1>7 DEF LoopsOK, FlushOK, Taking, Less
  <1>11. PortionOK'
    <2>1. ~Is("ahi")' => avail' = 0
      BY <1>1, <1>3 DEF Is
    <2>2. heard' = seen'
      BY <1>3, <1>4
    <2>3. QED
      BY <2>1, <2>2 DEF PortionOK
  <1>12. QED
    BY <1>1, <1>8, <1>9, <1>10, <1>11 DEF LoopsOK

\* A call, if there is one, leaves less to do, or nothing was left but what is taken.
LEMMA AckHelps ==
    ASSUME GoodSetups, Patient, StreamInv, pc # "ended", NEW force \in BOOLEAN, Ack(force)
    PROVE  /\ closed' = closed /\ back' = back /\ seen' = seen
           /\ Len(input') \in Nat /\ Len(input') <= Len(input)
           /\ Rank' \in Nat /\ Rank' <= Rank
           /\ (force /\ Zzplay => produced - seen < setup.pcm) =>
                produced' = produced \/ (Len(input') < Len(input) /\ Rank' < Rank)
  <1>1. /\ Len(input) \in Nat /\ Rank \in Nat /\ seen \in Nat /\ acked \in Nat
        /\ produced \in Nat /\ setup.pcm \in Nat /\ pending = seen - acked
        /\ produced - acked <= setup.pcm
    BY PlayNumbers, PlayBounds, RankIs
  <1>2. CASE NoCall
    <2>1. UNCHANGED <<input, closed, produced, back, seen>> /\ Rank' = Rank
      BY <1>2, NoCallRank
    <2>2. QED
      BY <1>1, <2>1
  <1>3. CASE ReadCall /\ ReadDue(force)
    <2>1. pending > 0 \/ (force /\ Zzplay)
      BY <1>3 DEF ReadDue
    <2>2. pending > 0 => produced - seen < setup.pcm
      BY <1>1
    <2>3. /\ closed' = closed /\ back' = back /\ seen' = seen
          /\ Len(input') \in Nat /\ Len(input') <= Len(input)
          /\ produced - seen < setup.pcm /\ Len(input) > 0 => Len(input') < Len(input)
          /\ Len(input) = 0 => produced' = produced
      BY <1>3, ReadDecodes
    <2>4. /\ Rank' \in Nat /\ Rank' <= Rank
          /\ produced - seen < setup.pcm /\ Len(input) > 0 => Rank' < Rank
      BY <1>3, ReadRank
    <2>5. Len(input) = 0 \/ Len(input) > 0
      BY <1>1
    <2>6. QED
      BY <2>1, <2>2, <2>3, <2>4, <2>5
  <1>4. QED
    BY <1>2, <1>3 DEF Ack

LEMMA NoDifference == \A i, k \in Nat : i - k = 0 => i = k
  OBVIOUS

LEMMA SmallerSum ==
    \A few, many, k, n \in Nat :
      /\ few <= many /\ many + k <= n => few + k <= n
      /\ few < many /\ many + k <= n + 1 => few + k <= n
  OBVIOUS

\* Both loops go on to where when a portion has been taken, and its credit returned.
LEMMA TakingGoesOn ==
    ASSUME GoodSetups, Patient, StreamInv, LoopsOK, ~Is("mpega"), pc \in {"take", "ack"},
           NEW force \in BOOLEAN, Ack(force) \/ NoCall,
           force /\ Zzplay /\ ~NoCall => avail = 0,
           UNCHANGED <<setup, after, guard, chunk, eof, avail, heard>>,
           \/ pc' \in {"take", "drain"}
           \/ pc' = after /\ avail < setup.pcm /\ (~Is("ahi") \/ eof => avail = 0)
    PROVE  LoopsOK'
  <1>1. /\ Len(input) \in Nat /\ Rank \in Nat /\ seen \in Nat /\ setup.pcm \in Nat \ {0}
        /\ produced \in Nat /\ avail \in Nat /\ guard \in Nat /\ chunk \in Nat
        /\ InputCapacity \in Nat /\ chunk <= InputCapacity /\ pc # "ended"
    BY PlayNumbers, PlaySizes, RankIs
  <1>2. /\ closed' = closed /\ back' = back /\ seen' = seen
        /\ Len(input') \in Nat /\ Len(input') <= Len(input)
        /\ Rank' \in Nat /\ Rank' <= Rank
        /\ avail = produced - seen =>
             produced' = produced \/ (Len(input') < Len(input) /\ Rank' < Rank)
    <2>1. CASE NoCall
      <3>1. UNCHANGED <<input, closed, produced, back, seen>> /\ Rank' = Rank
        BY <2>1, NoCallRank
      <3>2. QED
        BY <1>1, <3>1
    <2>2. CASE ~NoCall
      <3>1. avail = produced - seen => (force /\ Zzplay => produced - seen < setup.pcm)
        BY <1>1, <2>2
      <3>2. QED
        BY <1>1, <2>2, <3>1, AckHelps
    <2>3. QED
      BY <2>1, <2>2
  <1>3. /\ after \in {"room", "fed", "flushed"} /\ (after = "flushed" => eof)
    BY DEF StreamInv, PlacesOK, ChunkOK
  <1>4. after = "room" => Decoded'
    <2>1. after = "room" => Decoded
      BY DEF LoopsOK, RoomOK, Taking
    <2>2. QED
      BY <1>1, <1>2, <2>1 DEF Decoded
  <1>5. ASSUME after = "fed", back'
        PROVE  /\ 0 < chunk' /\ guard' <= chunk' /\ Len(input') + guard' <= InputCapacity + 1
               /\ Decoded' \/ produced' - seen' = avail
    <2>1. /\ 0 < chunk /\ guard <= chunk /\ Len(input) + guard <= InputCapacity + 1
          /\ Decoded \/ produced - seen = avail
      BY <1>2, <1>5 DEF LoopsOK, RepeatOK, Taking
    <2>2. Decoded => Decoded'
      BY <1>1, <1>2 DEF Decoded
    <2>3. Len(input') < Len(input) => Decoded'
      BY <1>1, <1>2, <2>1 DEF Decoded
    <2>4. produced - seen = avail => Decoded' \/ produced' - seen' = avail
      BY <1>2, <2>3
    <2>5. QED
      BY <1>1, <1>2, <2>1, <2>2, <2>4
  <1>6. after = "fed" /\ ~back' /\ eof' => closed'
    BY <1>2 DEF LoopsOK, RepeatOK, Taking
  <1>7. ASSUME after = "flushed"
        PROVE  /\ closed' /\ Rank' + guard' <= InputCapacity + 2
               /\ Less' \/ produced' - seen' = avail
    <2>1. closed /\ Rank + guard <= InputCapacity + 2 /\ (Less \/ produced - seen = avail)
      BY <1>7 DEF LoopsOK, FlushOK, Taking
    <2> DEFINE now == Rank
               then == Rank'
    <2>2. /\ now \in Nat /\ then \in Nat /\ then <= now /\ guard \in Nat
          /\ InputCapacity + 1 \in Nat /\ now + guard <= InputCapacity + 1 + 1
      BY <1>1, <1>2, <2>1
    <2>3. /\ Less <=> now + guard <= InputCapacity + 1
          /\ Less' <=> then + guard <= InputCapacity + 1
      BY DEF Less
    <2>4. produced - seen = avail => then < now \/ produced' - seen' = avail
      BY <1>2
    <2>5. then + guard <= InputCapacity + 1 + 1
      <3> HIDE DEF now, then
      <3>1. QED
        BY <2>2, SmallerSum
    <2>6. Less \/ then < now => Less'
      <3> HIDE DEF now, then
      <3>1. QED
        BY <2>2, <2>3, SmallerSum
    <2>7. Less' \/ produced' - seen' = avail
      <3> HIDE DEF now, then
      <3>1. QED
        BY <2>1, <2>4, <2>6
    <2>8. then + guard <= InputCapacity + 2
      <3> HIDE DEF now, then
      <3>1. QED
        BY <1>1, <2>2, <2>5
    <2>9. QED
      BY <1>2, <2>1, <2>7, <2>8
  <1>8. RoomOK'
    BY <1>3, <1>4 DEF RoomOK, Taking
  <1>9. RepeatOK'
    <2>1. pc' # "feed"
      BY <1>3
    <2>2. ASSUME pc' = "fed", back'
          PROVE  \/ Decoded'
                 \/ produced' - seen' < setup'.pcm /\ (Is("mp3")' => produced' = seen')
      <3>1. after = "fed" /\ avail < setup.pcm /\ (~Is("ahi") => avail = 0)
        BY <1>3, <2>2
      <3>2. Decoded' \/ produced' - seen' = avail
        BY <1>5, <2>2, <3>1
      <3>3. produced' \in Nat /\ seen' \in Nat
        <4>1. Called
          <5>1. Ack(force) \/ NoCall => NoCall \/ ReadCall
            BY DEF Ack
          <5>2. QED
            BY <1>1, <5>1, NoCallEffect, ReadCallEffect
        <4>2. QED
          BY <1>1, <1>2, <4>1 DEF Called
      <3>4. Is("mp3")' => ~Is("ahi")
        BY DEF Is
      <3>5. produced' - seen' = 0 => produced' = seen'
        BY <3>3, NoDifference
      <3>6. QED
        BY <3>1, <3>2, <3>4, <3>5
    <2>3. QED
      BY <1>3, <1>5, <1>6, <2>1, <2>2 DEF RepeatOK, Taking
  <1>10. FlushOK'
    <2>1. pc' \notin {"flush", "settled"}
      BY <1>3
    <2>2. ASSUME pc' = "flushed"
          PROVE  Less' \/ produced' = seen'
      <3>1. after = "flushed" /\ avail = 0
        BY <1>3, <2>2
      <3>2. Less' \/ produced' - seen' = 0
        BY <1>7, <3>1
      <3>3. produced' \in Nat /\ seen' \in Nat
        <4>1. Called
          <5>1. Ack(force) \/ NoCall => NoCall \/ ReadCall
            BY DEF Ack
          <5>2. QED
            BY <1>1, <5>1, NoCallEffect, ReadCallEffect
        <4>2. QED
          BY <1>1, <1>2, <4>1 DEF Called
      <3>4. QED
        BY <3>2, <3>3, NoDifference
    <2>3. QED
      BY <1>3, <1>7, <2>1, <2>2 DEF FlushOK, Taking
  <1>11. PortionOK'
    <2>1. pc' # "ack"
      BY <1>3
    <2>2. QED
      BY <1>2, <2>1 DEF LoopsOK, PortionOK
  <1>12. QED
    BY <1>8, <1>9, <1>10, <1>11 DEF LoopsOK

LEMMA TookAllPlays ==
    ASSUME GoodSetups, Patient, StreamInv, LoopsOK, TookAll
    PROVE  LoopsOK' /\ result' = result
  <1>1. /\ pc = "take" /\ Portion = 0 /\ pc' = after /\ result' = result
        /\ UNCHANGED <<setup, after, guard, chunk, eof, avail, heard>>
    BY DEF TookAll, GoesTo, ear, end
  <1>2. ~Is("mpega")
    BY <1>1, StreamClient DEF StreamPlaces
  <1>3. avail < setup.pcm /\ (~Is("ahi") \/ eof => avail = 0)
    BY <1>1, <1>2, PortionIs
  <1>4. eof \in BOOLEAN
    BY PlayNumbers
  <1>5. (Ack(eof) /\ ~Is("ahi")) \/ NoCall
    BY DEF TookAll, Is
  <1>6. LoopsOK'
    BY <1>1, <1>2, <1>3, <1>4, <1>5, TakingGoesOn
  <1>7. QED
    BY <1>1, <1>6

LEMMA AckTakenPlays ==
    ASSUME GoodSetups, Patient, StreamInv, LoopsOK, AckTaken
    PROVE  LoopsOK' /\ result' = result
  <1> DEFINE force == Is("zzplay") /\ eof
  <1>1. /\ pc = "ack" /\ ~Is("mpega") /\ result' = result /\ Ack(force)
        /\ pc' = IF Is("ahi") THEN "take" ELSE IF Is("mp3") THEN "drain" ELSE after
        /\ UNCHANGED <<setup, after, guard, chunk, eof, avail, heard>>
    BY DEF AckTaken, GoesTo, place, ear, end
  <1>2. ~Is("ahi") => avail = 0
    BY <1>1 DEF LoopsOK, PortionOK
  <1>3. force \in BOOLEAN /\ (force => ~Is("ahi"))
    BY PlayNumbers DEF Is
  <1> HIDE DEF force
  <1>4. setup.pcm \in Nat \ {0}
    BY PlayNumbers
  <1>5. pc' \in {"take", "drain"} \/ (pc' = after /\ ~Is("ahi"))
    BY <1>1
  <1>6. ~Is("ahi") => avail < setup.pcm /\ (~Is("ahi") \/ eof => avail = 0)
    BY <1>2, <1>4
  <1>7. LoopsOK'
    BY <1>1, <1>2, <1>3, <1>5, <1>6, TakingGoesOn
  <1>8. QED
    BY <1>1, <1>7

LEMMA FedPlays ==
    ASSUME GoodSetups, Patient, StreamInv, LoopsOK, Fed
    PROVE  LoopsOK' /\ result' = result
  <1>1. /\ pc = "fed" /\ ~Is("mpega") /\ pc # "ended" /\ result' = result
        /\ UNCHANGED <<setup, chunk, eof, heard>>
        /\ pc' = IF back' THEN "feed" ELSE IF eof THEN "flush" ELSE "read"
        /\ guard' = IF back' THEN guard ELSE 0
    BY DEF Fed, GoesTo, ear, end
  <1>2. /\ Len(input) \in Nat /\ guard \in Nat /\ chunk \in Nat /\ InputCapacity \in Nat
        /\ chunk <= InputCapacity /\ Len(input) <= InputCapacity
        /\ back \in BOOLEAN /\ setup.pcm \in Nat \ {0}
        /\ produced \in Nat /\ seen \in Nat /\ acked \in Nat /\ pending = seen - acked
        /\ produced = acked => Len(input) = 0
    BY <1>1, PlayNumbers, PlayBounds, PlaySizes
  <1>3. CASE back
    <2>1. Ack(TRUE)
      BY <1>3 DEF Fed
    <2>2. /\ back' = back /\ seen' = seen
          /\ Len(input') \in Nat /\ Len(input') <= Len(input)
      BY <1>1, <2>1, AckHelps
    <2>3. pc' = "feed" /\ guard' = guard
      BY <1>1, <1>3, <2>2
    <2>4. /\ guard <= chunk /\ Len(input) + guard <= InputCapacity + 1
          /\ \/ Decoded
             \/ produced - seen < setup.pcm /\ (Is("mp3") => produced = seen)
      BY <1>1, <1>3 DEF LoopsOK, RepeatOK
    <2>5. Len(input) = 0 => Decoded
      BY <1>2, <2>4 DEF Decoded
    <2>6. Decoded => Decoded'
      BY <1>2, <2>2, <2>3 DEF Decoded
    <2>7. Decoded'
      <3>1. CASE ReadCall
        <4>1. produced - seen < setup.pcm /\ Len(input) > 0 => Len(input') < Len(input)
          BY <1>1, <3>1, ReadDecodes
        <4>2. Len(input') < Len(input) => Decoded'
          BY <1>2, <2>2, <2>3, <2>4 DEF Decoded
        <4>3. Len(input) = 0 \/ Len(input) > 0
          BY <1>2
        <4>4. QED
          BY <2>4, <2>5, <2>6, <4>1, <4>2, <4>3
      <3>2. CASE ~ReadDue(TRUE)
        <4>1. pending = 0 /\ ~Zzplay
          BY <1>2, <3>2, PlayNumbers DEF ReadDue
        <4>2. Is("mp3")
          BY <1>1, <4>1, PlaySizes
        <4>3. seen = acked
          BY <1>2, <4>1, NoDifference
        <4>4. QED
          BY <1>2, <2>4, <2>5, <2>6, <4>2, <4>3
      <3>3. QED
        BY <2>1, <3>1, <3>2 DEF Ack
    <2>8. RoomOK' /\ RepeatOK' /\ FlushOK'
      BY <1>1, <2>3, <2>4, <2>7 DEF RoomOK, RepeatOK, FlushOK, Taking
    <2>9. PortionOK'
      BY <1>1, <2>2, <2>3 DEF LoopsOK, PortionOK
    <2>10. QED
      BY <1>1, <2>8, <2>9 DEF LoopsOK
  <1>4. CASE ~back
    <2>1. NoCall
      BY <1>4 DEF Fed
    <2>2. UNCHANGED <<input, closed, produced, acked, back, seen>> /\ Rank' = Rank
      BY <2>1, NoCallRank
    <2>3. guard' = 0 /\ pc' = IF eof THEN "flush" ELSE "read"
      BY <1>1, <1>4, <2>2
    <2>4. eof => closed'
      BY <1>1, <1>4, <2>2 DEF LoopsOK, RepeatOK
    <2>5. Less'
      <3>1. Rank \in Nat /\ Rank <= Len(input) + 1
        BY RankIs
      <3>2. QED
        BY <1>2, <2>2, <2>3, <3>1 DEF Less
    <2>6. RoomOK' /\ RepeatOK'
      BY <2>3 DEF RoomOK, RepeatOK, Taking
    <2>7. FlushOK'
      BY <2>3, <2>4, <2>5 DEF FlushOK, Taking
    <2>8. PortionOK'
      BY <1>1, <2>2, <2>3 DEF LoopsOK, PortionOK
    <2>9. QED
      BY <1>1, <2>6, <2>7, <2>8 DEF LoopsOK
  <1>5. QED
    BY <1>3, <1>4

LEMMA FlushPlays ==
    ASSUME GoodSetups, Patient, StreamInv, LoopsOK, Flush
    PROVE  LoopsOK' /\ result' = result
  <1>1. /\ pc = "flush" /\ ~Is("mpega") /\ after' = "flushed" /\ NoCall
        /\ UNCHANGED <<setup, heard>>
    BY StreamClient DEF Flush, NoCall, ear, StreamPlaces
  <1>2. closed /\ Less
    BY <1>1 DEF LoopsOK, FlushOK
  <1>3. /\ Rank \in Nat /\ guard \in Nat /\ InputCapacity \in Nat /\ Retries \in Nat
        /\ InputCapacity + 1 < Retries
    BY <1>1, PlayNumbers, PlaySizes, RankIs
  <1>4. Rank + guard <= InputCapacity + 1
    BY <1>2 DEF Less
  <1>5. guard < Retries
    BY <1>3, <1>4
  <1>6. pc' = "drain" /\ guard' = guard + 1 /\ result' = result
    BY <1>5 DEF Flush, GoesTo, end
  <1>7. closed' = closed /\ Rank' = Rank /\ seen' = seen
    BY <1>1, NoCallRank
  <1>8. Rank' + guard' <= InputCapacity + 2
    BY <1>3, <1>4, <1>6, <1>7
  <1>9. RoomOK' /\ RepeatOK'
    BY <1>1, <1>6 DEF RoomOK, RepeatOK, Taking
  <1>10. FlushOK'
    BY <1>2, <1>6, <1>7, <1>8 DEF FlushOK, Taking
  <1>11. PortionOK'
    BY <1>1, <1>6, <1>7 DEF LoopsOK, PortionOK
  <1>12. QED
    BY <1>6, <1>9, <1>10, <1>11 DEF LoopsOK

LEMMA FlushedPlays ==
    ASSUME GoodSetups, Patient, StreamInv, LoopsOK, Flushed
    PROVE  LoopsOK' /\ result' = result
  <1>1. /\ pc = "flushed" /\ pc # "ended" /\ ~Is("mpega") /\ result' = result
        /\ UNCHANGED <<setup, after, guard, heard>>
    BY StreamClient DEF Flushed, GoesTo, place, ear, end, StreamPlaces
  <1>2. /\ closed /\ Rank + guard <= InputCapacity + 2 /\ (Less \/ produced = seen)
        /\ heard = seen
    BY <1>1 DEF LoopsOK, FlushOK, PortionOK
  <1>3. /\ Rank \in Nat /\ guard \in Nat /\ InputCapacity \in Nat /\ Len(input) \in Nat
        /\ produced \in Nat /\ seen \in Nat /\ acked \in Nat /\ pending = seen - acked
        /\ setup.pcm \in Nat \ {0}
    BY PlayNumbers, PlayBounds, RankIs
  <1>4. CASE Is("mp3") /\ pending = 0
    <2>1. pc' = "finish" /\ NoCall
      BY <1>4 DEF Flushed, GoesTo
    <2>2. seen' = seen
      BY <2>1, NoCallRank
    <2>3. QED
      BY <1>1, <1>2, <2>1, <2>2 DEF LoopsOK, RoomOK, RepeatOK, FlushOK, PortionOK, Taking
  <1>5. CASE ~(Is("mp3") /\ pending = 0)
    <2>1. pc' = "settled" /\ Ack(TRUE)
      BY <1>5 DEF Flushed, GoesTo
    <2>2. ReadCall
      <3>1. Zzplay \/ pending > 0
        BY <1>1, <1>5, PlayNumbers, PlaySizes
      <3>2. QED
        BY <2>1, <3>1 DEF Ack, ReadDue
    <2>3. /\ closed' = closed /\ seen' = seen /\ pending' = 0 /\ acked' = seen
          /\ Len(input) = 0 => produced' = produced /\ Len(input') = 0
          /\ closed /\ Len(input') = 0 => done'
      BY <1>1, <2>2, ReadDecodes
    <2>4. /\ Rank' \in Nat /\ Rank' <= Rank
          /\ produced - seen < setup.pcm /\ Len(input) > 0 => Rank' < Rank
          /\ Len(input) = 0 /\ produced = seen => Rank' = 0
      BY <1>1, <2>2, ReadRank
    <2> DEFINE now == Rank
               then == Rank'
    <2>5. /\ now \in Nat /\ then \in Nat /\ guard \in Nat /\ InputCapacity + 1 \in Nat
          /\ then <= now /\ now + guard <= InputCapacity + 1 + 1
      BY <1>2, <1>3, <2>4
    <2>6. /\ Less <=> now + guard <= InputCapacity + 1
          /\ Less' <=> then + guard <= InputCapacity + 1
      BY <1>1 DEF Less
    <2>7. (Less \/ then < now => Less') /\ then + guard <= InputCapacity + 1 + 1
      <3> HIDE DEF now, then
      <3>1. QED
        BY <2>5, <2>6, SmallerSum
    <2>8. then + guard' <= InputCapacity + 2
      <3> HIDE DEF now, then
      <3>1. QED
        BY <1>1, <1>3, <2>5, <2>7
    <2>9. Less' \/ (Zzplay /\ Settles)'
      <3>1. CASE Less
        BY <2>7, <3>1
      <3>2. CASE produced = seen /\ Len(input) > 0
        <4>1. produced - seen < setup.pcm
          BY <1>3, <3>2
        <4>2. QED
          BY <2>4, <2>7, <3>2, <4>1
      <3>3. CASE produced = seen /\ Len(input) = 0
        <4>1. then = 0 /\ produced' = seen' /\ done'
          BY <1>2, <2>3, <2>4, <3>3
        <4>2. now = 0 \/ then < now
          <5> HIDE DEF now, then
          <5>1. QED
            BY <2>5, <4>1
        <4>3. ASSUME now = 0
              PROVE  Zzplay
          <5>1. ~(produced > acked)
            BY <3>3, <4>3 DEF Rank
          <5>2. pending = 0
            BY <1>3, <3>3, <5>1, PlayBounds
          <5>3. QED
            BY <1>1, <1>5, <5>2, PlaySizes
        <4>4. now = 0 => (Zzplay /\ Settles)'
          BY <1>1, <2>3, <4>1, <4>3 DEF Settles, Zzplay
        <4>5. QED
          BY <2>7, <4>2, <4>4
      <3>4. Len(input) > 0 \/ Len(input) = 0
        BY <1>3
      <3>5. QED
        BY <1>2, <3>1, <3>2, <3>3, <3>4
    <2>10. RoomOK' /\ RepeatOK'
      BY <2>1 DEF RoomOK, RepeatOK, Taking
    <2>11. FlushOK'
      BY <1>2, <2>1, <2>3, <2>8, <2>9 DEF FlushOK, Taking
    <2>12. PortionOK'
      BY <1>1, <1>2, <2>1, <2>3 DEF PortionOK
    <2>13. QED
      BY <1>1, <2>10, <2>11, <2>12 DEF LoopsOK
  <1>6. QED
    BY <1>4, <1>5

LEMMA SettledPlays ==
    ASSUME GoodSetups, Patient, StreamInv, LoopsOK, Settled
    PROVE  LoopsOK' /\ result' = result
  <1>1. /\ pc = "settled" /\ result' = result /\ NoCall
        /\ pc' = IF Zzplay /\ Settles THEN "finish" ELSE "flush"
        /\ UNCHANGED <<setup, guard, heard>>
    BY DEF Settled, GoesTo, NoCall, place, ear, end
  <1>2. closed /\ (Less \/ (Zzplay /\ Settles))
    BY <1>1 DEF LoopsOK, FlushOK
  <1>3. closed' = closed /\ Rank' = Rank /\ seen' = seen
    BY <1>1, NoCallRank
  <1>4. pc' = "flush" => closed' /\ Less'
    BY <1>1, <1>2, <1>3 DEF Less
  <1>5. RoomOK' /\ RepeatOK' /\ FlushOK'
    BY <1>1, <1>4 DEF RoomOK, RepeatOK, FlushOK, Taking
  <1>6. PortionOK'
    BY <1>1, <1>3 DEF LoopsOK, PortionOK
  <1>7. QED
    BY <1>1, <1>5, <1>6 DEF LoopsOK

LEMMA FinishPlays ==
    ASSUME GoodSetups, Patient, StreamInv, LoopsOK, Finish
    PROVE  LoopsOK' /\ result' = "ok"
  <1>1. /\ pc = "finish" /\ pc # "ended" /\ ~Is("mpega") /\ pc' = "ended" /\ NoCall
        /\ UNCHANGED <<setup, heard>>
    BY StreamClient DEF Finish, Ends, NoCall, place, ear, StreamPlaces
  <1>2. heard = seen /\ seen' = seen
    BY <1>1, NoCallRank DEF LoopsOK, PortionOK
  <1>3. produced = acked /\ eof
    BY <1>1 DEF StreamInv, EndOK, ChunkOK
  <1>4. produced = seen /\ input = <<>>
    <2>1. produced = acked => input = <<>>
      BY DEF StreamInv, CardOK
    <2>2. QED
      BY <1>3, <2>1, PlayNumbers, PlayBounds
  <1>5. heard = FileLength
    BY <1>1, <1>3, <1>4, WholeHeard
  <1>6. seen # 0
    <2>1. FileLength \in Nat \ {0}
      BY Known, Sizes
    <2>2. QED
      BY <1>2, <1>5, <2>1
  <1>7. result' = "ok"
    BY <1>6 DEF Finish, Ends
  <1>8. LoopsOK'
    BY <1>1, <1>2 DEF LoopsOK, RoomOK, RepeatOK, FlushOK, PortionOK, Taking
  <1>9. QED
    BY <1>7, <1>8

LEMMA StartPlays ==
    ASSUME LoopsOK, Start, ~Is("mpega")
    PROVE  LoopsOK' /\ result' = result
  <1>1. pc' = "read" /\ result' = result /\ UNCHANGED <<heard, seen>>
    BY DEF Start, GoesTo, end, ear, cursor
  <1>2. QED
    BY <1>1 DEF LoopsOK, RoomOK, RepeatOK, FlushOK, PortionOK, Taking

LEMMA AhiPlaysPlays ==
    ASSUME LoopsOK, AhiPlays
    PROVE  LoopsOK' /\ result' = result
  <1>1. /\ UNCHANGED <<pc, setup, after, chunk, eof, guard, before, avail, heard, result>>
        /\ UNCHANGED <<input, closed, produced, acked, done, back, seen, pending>>
    BY DEF AhiPlays, place, cursor, card, ear, end
  <1>2. Rank' = Rank
    BY <1>1 DEF Rank
  <1>3. RoomOK' /\ RepeatOK' /\ PortionOK'
    BY <1>1 DEF LoopsOK, RoomOK, RepeatOK, PortionOK, Taking, Decoded, Is
  <1>4. FlushOK'
    BY <1>1, <1>2 DEF LoopsOK, FlushOK, Taking, Less, Zzplay, Settles
  <1>5. QED
    BY <1>1, <1>3, <1>4 DEF LoopsOK

LEMMA DisturbPlays ==
    ASSUME LoopsOK, Disturb
    PROVE  LoopsOK' /\ disturbed'
  <1>1. pc' = "ended" /\ disturbed' /\ UNCHANGED <<setup, heard, seen>>
    BY DEF Disturb, place, cursor, ear
  <1>2. QED
    BY <1>1 DEF LoopsOK, RoomOK, RepeatOK, FlushOK, PortionOK, Taking

\* Who ends says how.
LEMMA EndIsTold ==
    ASSUME StreamInv, PlayInv, Next, pc' = "ended", result' = "none"
    PROVE  disturbed'
  <1>1. CASE Disturb
    BY <1>1 DEF Disturb
  <1>2. CASE AhiPlays
    BY <1>2 DEF AhiPlays, end, PlayInv
  <1>3. ~(Start \/ ReadFile \/ MakeRoom \/ Feed \/ Drain \/ TakePortion \/ Fed \/ Flush
          \/ Flushed \/ Settled \/ Finish \/ DecodeFrame \/ FrameBegins \/ FrameSource
          \/ FrameFeed \/ CopyFrame \/ AckFrame \/ Seek)
    BY DEF Start, ReadFile, MakeRoom, Feed, Drain, TakePortion, Fed, Flush, Flushed,
       Settled, Finish, DecodeFrame, FrameBegins, FrameSource, FrameFeed, CopyFrame,
       AckFrame, Seek, GoesTo, Ends
  <1>4. ~(TookAll \/ AckTaken)
    BY DEF TookAll, AckTaken, GoesTo, StreamInv, PlacesOK
  <1>5. QED
    BY <1>1, <1>2, <1>3, <1>4 DEF Next, Step

\* mpega.library's loop gives up without an end.
LEMMA FramesPlay ==
    ASSUME GoodSetups, StreamInv, PlayInv, Is("mpega"), Next
    PROVE  PlayInv'
  <1>1. pc \notin StreamPlaces
    BY DEF StreamInv, PlacesOK
  <1>2. setup' = setup
    BY DEF Next, Step, Start, ReadFile, MakeRoom, Feed, Drain, TakePortion, TookAll,
       AckTaken, Fed, Flush, Flushed, Settled, Finish, DecodeFrame, FrameBegins,
       FrameSource, FrameFeed, CopyFrame, AckFrame, AhiPlays, Disturb, Seek, place
  <1>3. result' = "failed" => disturbed'
    <2>1. CASE Disturb
      BY <2>1 DEF Disturb
    <2>2. CASE Seek \/ AhiPlays
      BY <2>2 DEF Seek, AhiPlays, end, PlayInv
    <2>3. CASE Start \/ DecodeFrame \/ FrameBegins \/ CopyFrame \/ AckFrame
      BY <2>3 DEF Start, DecodeFrame, FrameBegins, CopyFrame, AckFrame, GoesTo, end, PlayInv
    <2>4. CASE FrameSource \/ FrameFeed
      BY <2>4 DEF FrameSource, FrameFeed, GoesTo, Ends, end, PlayInv
    <2>5. ~(ReadFile \/ MakeRoom \/ Drain \/ TakePortion \/ TookAll \/ Fed \/ Flush
            \/ Flushed \/ Settled \/ Finish)
      BY <1>1 DEF ReadFile, MakeRoom, Drain, TakePortion, TookAll, Fed, Flush, Flushed,
         Settled, Finish, StreamPlaces
    <2>6. ~(Feed \/ AckTaken)
      BY DEF Feed, AckTaken
    <2>7. QED
      BY <2>1, <2>2, <2>3, <2>4, <2>5, <2>6 DEF Next, Step
  <1>4. QED
    BY <1>2, <1>3, EndIsTold DEF PlayInv, Is

\* The rounds of zz9k-mp3's drain are counted, and fewer than the input ring has units.
LEMMA RoundsStep ==
    ASSUME GoodSetups, Patient, StreamInv, LoopsOK, RoundsOK, ~Is("mpega"), Next
    PROVE  RoundsOK'
  <1>1. /\ Len(input) \in Nat /\ rounds \in Nat /\ InputCapacity \in Nat
        /\ produced \in Nat /\ seen \in Nat /\ avail \in Nat /\ setup.pcm \in Nat \ {0}
    BY PlayNumbers, Known
  <1>2. CASE Drain
    <2>1. /\ pc = "drain" /\ avail' = produced - seen /\ setup' = setup /\ input' = input
          /\ \/ pc' = "ended" /\ rounds' = rounds
             \/ pc' = "take" /\ rounds' = IF Is("mp3") THEN rounds + 1 ELSE 0
      BY <1>2 DEF Drain, Ends, GoesTo, card
    <2>2. CASE Is("mp3")
      <3>1. pc' = "take" => avail' = 0 \/ rounds' + Len(input') <= InputCapacity + 1
        BY <1>1, <2>1, <2>2 DEF RoundsOK
      <3>2. QED
        BY <2>1, <2>2, <3>1 DEF RoundsOK, Is
    <2>3. CASE ~Is("mp3")
      BY <2>1, <2>3 DEF RoundsOK, Is
    <2>4. QED
      BY <2>2, <2>3
  <1>3. CASE TakePortion
    <2>1. /\ pc = "take" /\ pc' = "ack" /\ Portion > 0 /\ Take(Portion)
          /\ UNCHANGED <<setup, rounds, input, produced>>
      BY <1>3 DEF TakePortion, GoesTo, place, card
    <2>2. CASE Is("mp3")
      <3>1. Portion = avail /\ avail = produced - seen
        BY <1>1, <2>1, <2>2, PortionIs DEF StreamInv, TakeOK, Is
      <3>2. seen' = seen + avail
        BY <2>1, <3>1 DEF Take
      <3>3. seen' = produced
        BY <1>1, <3>1, <3>2
      <3>4. rounds + Len(input) <= InputCapacity + 1
        BY <1>1, <2>1, <2>2, <3>1 DEF RoundsOK
      <3>5. QED
        BY <2>1, <2>2, <3>3, <3>4 DEF RoundsOK, Is
    <2>3. CASE ~Is("mp3")
      BY <2>1, <2>3 DEF RoundsOK, Is
    <2>4. QED
      BY <2>2, <2>3
  <1>4. CASE TookAll
    <2>1. pc' = after /\ rounds' = 0 /\ pc' \notin {"drain", "take", "ack"}
      BY <1>4 DEF TookAll, GoesTo, StreamInv, PlacesOK
    <2>2. QED
      BY <2>1 DEF RoundsOK
  <1>5. CASE AckTaken
    <2>1. /\ pc = "ack" /\ UNCHANGED <<setup, rounds, avail>>
          /\ Is("mp3") => pc' = "drain" /\ Ack(FALSE)
      BY <1>5 DEF AckTaken, GoesTo, place, Is
    <2>2. CASE Is("mp3")
      <3>1. produced = seen /\ rounds + Len(input) <= InputCapacity + 1 /\ pc # "ended"
        BY <2>1, <2>2 DEF RoundsOK
      <3>2. /\ seen' = seen /\ Len(input') \in Nat /\ Len(input') <= Len(input)
            /\ produced' = produced \/ Len(input') < Len(input)
        BY <1>1, <2>1, <2>2, <3>1, AckHelps
      <3>3. \/ rounds' + Len(input') <= InputCapacity
            \/ produced' = seen' /\ rounds' + Len(input') <= InputCapacity + 1
        BY <1>1, <2>1, <3>1, <3>2
      <3>4. QED
        BY <2>1, <2>2, <3>3 DEF RoundsOK, Is
    <2>3. CASE ~Is("mp3")
      BY <2>1, <2>3 DEF RoundsOK, Is
    <2>4. QED
      BY <2>2, <2>3
  <1>6. CASE AhiPlays
    BY <1>6 DEF AhiPlays, place, cursor, card, RoundsOK, Is
  <1>7. CASE Disturb
    BY <1>7 DEF Disturb, place, RoundsOK, Is
  <1>8. CASE MakeRoom \/ Feed \/ Flush
    <2>1. /\ pc \in {"room", "feed", "flush"} /\ UNCHANGED <<setup, rounds>>
          /\ pc' \notin {"take", "ack"}
      BY <1>8 DEF MakeRoom, Feed, Flush, GoesTo, Ends
    <2>2. rounds' = 0
      BY <2>1 DEF RoundsOK
    <2>3. Len(input') \in Nat /\ Len(input') <= InputCapacity
      <3>1. StreamInv'
        BY StreamInvStep
      <3>2. QED
        BY <1>1, <3>1 DEF StreamInv, TypeOK, Numbers
    <2>4. QED
      BY <1>1, <2>1, <2>2, <2>3 DEF RoundsOK
  <1>9. CASE Start \/ ReadFile \/ Fed \/ Flushed \/ Settled \/ Finish
    <2>1. pc \notin {"drain", "take", "ack", "ended"} /\ UNCHANGED <<setup, rounds>>
      BY <1>9 DEF Start, ReadFile, Fed, Flushed, Settled, Finish, place
    <2>2. pc' \notin {"drain", "take", "ack"}
      BY <1>9 DEF Start, ReadFile, Fed, Flushed, Settled, Finish, GoesTo, Ends
    <2>3. QED
      BY <2>1, <2>2 DEF RoundsOK
  <1>10. ~(FrameSource \/ FrameFeed \/ DecodeFrame \/ FrameBegins \/ CopyFrame \/ AckFrame \/ Seek)
    <2>1. pc \notin FramePlaces
      BY DEF StreamInv, PlacesOK
    <2>2. QED
      BY <2>1 DEF FrameSource, FrameFeed, DecodeFrame, FrameBegins, CopyFrame, AckFrame,
         Seek, FramePlaces
  <1>11. QED
    BY <1>2, <1>3, <1>4, <1>5, <1>6, <1>7, <1>8, <1>9, <1>10 DEF Next, Step

LEMMA StreamsPlay ==
    ASSUME GoodSetups, Patient, StreamInv, PlayInv, ~Is("mpega"), Next
    PROVE  PlayInv'
  <1>1. LoopsOK /\ RoundsOK /\ (result = "failed" => disturbed)
    BY DEF PlayInv
  <1>2. RoundsOK'
    BY <1>1, RoundsStep
  <1>3. CASE Disturb
    BY <1>1, <1>2, <1>3, DisturbPlays, EndIsTold DEF PlayInv
  <1>4. CASE Finish
    BY <1>1, <1>2, <1>4, FinishPlays, EndIsTold DEF PlayInv
  <1>5. CASE Start \/ ReadFile \/ MakeRoom \/ Feed \/ Drain \/ TakePortion \/ TookAll
             \/ AckTaken \/ Fed \/ Flush \/ Flushed \/ Settled \/ AhiPlays
    <2>1. LoopsOK' /\ result' = result
      BY <1>1, <1>5, StartPlays, ReadFilePlays, MakeRoomPlays, FeedPlays, DrainPlays,
         TakePortionPlays, TookAllPlays, AckTakenPlays, FedPlays, FlushPlays,
         FlushedPlays, SettledPlays, AhiPlaysPlays
    <2>2. disturbed' = disturbed
      <3>1. CASE Start \/ ReadFile \/ TookAll \/ AckTaken \/ Fed \/ Flushed \/ Settled \/ AhiPlays
                 \/ TakePortion
        BY <3>1 DEF Start, ReadFile, TookAll, AckTaken, Fed, Flushed, Settled, AhiPlays,
           TakePortion, GoesTo, end
      <3>2. CASE MakeRoom \/ Feed \/ Drain \/ Flush
        BY <3>2 DEF MakeRoom, Feed, Drain, Flush, GoesTo, Ends, end
      <3>3. QED
        BY <1>5, <3>1, <3>2
    <2>3. QED
      BY <1>1, <1>2, <2>1, <2>2, EndIsTold DEF PlayInv
  <1>6. ~(FrameSource \/ FrameFeed \/ DecodeFrame \/ FrameBegins \/ CopyFrame \/ AckFrame \/ Seek)
    <2>1. pc \notin FramePlaces
      BY DEF StreamInv, PlacesOK
    <2>2. QED
      BY <2>1 DEF FrameSource, FrameFeed, DecodeFrame, FrameBegins, CopyFrame, AckFrame,
         Seek, FramePlaces
  <1>7. QED
    BY <1>3, <1>4, <1>5, <1>6 DEF Next, Step

LEMMA PlayBegins ==
    ASSUME NEW where \in {"start", "ended"}, InitAt(where)
    PROVE  PlayInv
  BY DEF InitAt, PlayInv, LoopsOK, RoomOK, RepeatOK, FlushOK, PortionOK, RoundsOK, Taking

LEMMA PlayInvStep ==
    ASSUME GoodSetups, Patient, StreamInv, PlayInv, [Next]_vars
    PROVE  PlayInv'
  <1>1. CASE UNCHANGED vars
    BY <1>1 DEF vars, PlayInv, LoopsOK, RoomOK, RepeatOK, FlushOK, PortionOK, RoundsOK,
       Taking, Decoded, Less, Rank, Settles, Zzplay, Is
  <1>2. CASE Next
    BY <1>2, FramesPlay, StreamsPlay
  <1>3. QED
    BY <1>1, <1>2

\* What the two invariants say of a stream that has ended.
LEMMA PlayTells ==
    ASSUME StreamInv, PlayInv
    PROVE  StreamPlays
  <1>1. result \in {"none", "ok", "failed"} /\ intact
    BY DEF StreamInv, TypeOK
  <1>2. pc = "ended" /\ result = "ok" => heard = FileLength
    BY DEF StreamInv, EndOK
  <1>3. QED
    BY <1>1, <1>2 DEF PlayInv, StreamPlays

\* No loop of the clients gives up while the card decodes: unless a call fails or the
\* user stops, every stream plays to the end of the file.
THEOREM EveryStreamPlays ==
    ASSUME GoodSetups, Patient
    PROVE  Spec => []StreamPlays
  <1>1. Init => StreamInv /\ PlayInv
    BY InitStream, PlayBegins DEF Init
  <1>2. StreamInv /\ PlayInv /\ [Next]_vars => StreamInv' /\ PlayInv'
    BY StreamInvStep, PlayInvStep
  <1>3. StreamInv /\ PlayInv => StreamPlays
    BY PlayTells
  <1>4. QED
    BY <1>1, <1>2, <1>3, PTL DEF Spec
=============================================================================
