---------------------------- MODULE ZzplayProofs ----------------------------
(***************************************************************************)
(* For any film, any sizes of the buffers, chunks and limits, and any      *)
(* number of loops, pauses and failures: the listener has the sound of a   *)
(* film in its order and all of it when it ends by itself, and no underrun *)
(* is reported that was none.                                              *)
(*                                                                         *)
(* What AHI has been given and has not played is what lies between the     *)
(* unit heard last and the cursor of the copy; the two buffers have it one *)
(* behind the other.  Each underrun reported is paid for by a gap, but for *)
(* the one at the end of the film until the drain takes it back.           *)
(***************************************************************************)
EXTENDS Zzplay, Integers, FiniteSetTheorems, TLAPS

Passing  == {"control", "poll", "fill", "retire", "feed", "decode", "finish"}
Draining == {"poll", "fill", "drain", "look"}

\* Where the program is with which state.
PlacesOK ==
    /\ step \in Passing \cup Draining \cup {"ended"}
    /\ step \in {"control", "retire", "feed", "decode", "finish"} => core # "DRAINING"
    /\ step \in {"drain", "look"} => core = "DRAINING"
    /\ core = "PAUSED" => step = "control"
    /\ step = "fill" => sound.backend = "AHI" /\ sound.prepared
    /\ step = "look" => sound.backend = "AHI"
    /\ step = "finish" => done

FeedTypes == [read : Nat, pending : Nat, eof : BOOLEAN, sent : BOOLEAN]
CardTypes == [has : Nat, at : Nat, closed : BOOLEAN, produced : Nat, acked : Nat]
SoundTypes == [backend : {"AX", "AHI"}, known : BOOLEAN, refresh : BOOLEAN,
               produced : Nat, copied : Nat, prepared : BOOLEAN, started : BOOLEAN,
               draining : BOOLEAN]
SinkTypes == [clock : {"CLOSED", "PREBUFFERING", "PLAYING", "PAUSED", "DRAINING"},
              queued : Nat, submitted : Nat, played : Nat, shown : Nat,
              underruns : Nat, active : BOOLEAN, eos : BOOLEAN]
SlotTypes == [use : {"free", "ready", "pending"}, first : Nat, size : Nat, left : Nat,
              linked : BOOLEAN]

FilmTypes ==
    /\ film \in Films
    /\ feed \in FeedTypes /\ card \in CardTypes /\ sound \in SoundTypes
    /\ ahi \in SinkTypes /\ slots \in [Slots -> SlotTypes]
    /\ since \in Nat /\ loops \in Nat /\ under \in Nat /\ heard \in Nat /\ gaps \in Nat
    /\ pauses \in Nat /\ busy \in Nat
    /\ done \in BOOLEAN /\ inOrder \in BOOLEAN /\ stalled \in BOOLEAN

\* Units of sound among the first k items.
SoundUpTo(k) == Cardinality({j \in Items("audio") : j <= k})

\* What has been read, fed and decoded.
StreamOK ==
    /\ feed.read <= Len(film.items) /\ feed.read = feed.pending + card.has
    /\ feed.eof => feed.read = Len(film.items)
    /\ card.closed => feed.eof /\ feed.pending = 0
    /\ card.at <= card.has /\ card.has - card.at <= CardInput
    /\ card.produced = SoundUpTo(card.at)
    /\ done => card.closed /\ card.at = card.has
    /\ core = "DRAINING" => done

\* What of it the program knows and has copied.
SoundOK ==
    /\ sound.copied <= sound.produced /\ sound.produced <= card.produced
    /\ sound.backend = "AX" => sound.copied = 0 /\ card.acked = 0
    /\ card.acked <= sound.copied
    /\ sound.prepared <=> sound.produced > 0
    /\ core = "DRAINING" => \/ sound.produced = card.produced
                            \/ step = "poll" /\ sound.refresh /\ ~sound.draining

\* The sink and its clock.
SinkOK ==
    /\ sound.started => /\ sound.prepared /\ sound.backend = "AHI" /\ sound.copied > 0
                        /\ ahi.clock \in {"PLAYING", "PAUSED", "DRAINING"}
    /\ ~sound.started =>
         /\ heard = 0 /\ ~ahi.active /\ ahi.underruns = 0 /\ ~sound.draining
         /\ ahi.clock = IF sound.prepared /\ sound.backend = "AHI"
                        THEN "PREBUFFERING" ELSE "CLOSED"
    /\ ahi.clock = "PAUSED" => core = "PAUSED"
    /\ ahi.clock = "DRAINING" => sound.draining
    /\ sound.draining => /\ core = "DRAINING" /\ ahi.eos
                         /\ sound.copied = sound.produced
    /\ ahi.eos => ~ahi.active

\* The buffer that comes after the other one.
Behind(i) == slots[i].linked \/ (i = 1 /\ \A j \in Slots : slots[j].use = "ready")

SlotOK(i) ==
    /\ slots[i].left <= slots[i].size
    /\ slots[i].use = "free" => slots[i].size = 0
    /\ slots[i].use = "ready" => ~sound.started /\ slots[i].left = slots[i].size
                                 /\ ~slots[i].linked
    /\ slots[i].use = "pending" => sound.started
    /\ slots[i].use # "free" => slots[i].size > 0
    /\ slots[i].linked => slots[i].left > 0
    /\ slots[i].left > 0 /\ ~Behind(i) =>
         /\ slots[i].first + slots[i].size = heard + slots[i].left + 1
         /\ slots[1 - i].left > 0 => Behind(1 - i)
    /\ slots[i].left > 0 /\ Behind(i) =>
         /\ slots[1 - i].left > 0 /\ ~Behind(1 - i) /\ slots[i].left = slots[i].size
         /\ slots[i].first = heard + slots[1 - i].left + 1

\* The units between the one heard last and the cursor of the copy.
SlotsOK ==
    /\ \A i \in Slots : SlotOK(i)
    /\ slots[1].use = "ready" => slots[0].use = "ready"
    /\ heard + slots[0].left + slots[1].left = sound.copied
    /\ ahi.queued = slots[0].size + slots[1].size

\* Underruns, and gaps.
Reported == under + ahi.underruns

CountOK ==
    /\ ~ahi.active => Reported <= gaps
    /\ ahi.active => /\ \A i \in Slots : slots[i].use = "free"
                     /\ ahi.underruns > 0 /\ Reported <= gaps + 1
                     /\ sound.copied < Total => Reported <= gaps
                     /\ ~(step = "look" /\ sound.copied = sound.produced)
    /\ ~ahi.active /\ heard = sound.copied /\ heard > 0 /\ heard < Total =>
         Reported < gaps

FilmInv ==
    /\ FilmTypes /\ PlacesOK /\ inOrder
    /\ step = "ended" => ~Running
    /\ step # "ended" => StreamOK /\ SoundOK /\ SinkOK /\ SlotsOK /\ CountOK

---------------------------------------------------------------------------
\* The sound among the items of the stream.

LEMMA ItemsKnown ==
    ASSUME ZzplayAssumption, film \in Films
    PROVE  /\ film.items \in Seq({"video", "audio"}) /\ Len(film.items) \in Nat
           /\ DOMAIN film.items = 1..Len(film.items)
           /\ {FilmPeriod, HighWater, ReadChunk, CardInput, MaxSince} \subseteq Nat \ {0}
           /\ film.loops \in Nat
  BY DEF ZzplayAssumption

LEMMA SoundIsFinite ==
    ASSUME ZzplayAssumption, film \in Films, NEW k \in Nat
    PROVE  /\ IsFiniteSet({j \in Items("audio") : j <= k})
           /\ SoundUpTo(k) \in Nat
           /\ IsFiniteSet(Items("audio")) /\ Total \in Nat /\ SoundUpTo(k) <= Total
  <1>1. Items("audio") \subseteq 1..Len(film.items) /\ Len(film.items) \in Nat
    BY ItemsKnown DEF Items
  <1>2. IsFiniteSet(1..Len(film.items))
    BY <1>1, FS_Interval
  <1>3. IsFiniteSet(Items("audio"))
    BY <1>1, <1>2, FS_Subset
  <1>4. {j \in Items("audio") : j <= k} \in SUBSET Items("audio")
    OBVIOUS
  <1>5. /\ IsFiniteSet({j \in Items("audio") : j <= k})
        /\ Cardinality({j \in Items("audio") : j <= k}) <= Cardinality(Items("audio"))
    BY <1>3, <1>4, FS_Subset
  <1>6. QED
    BY <1>3, <1>5, FS_CardinalityType DEF SoundUpTo, Total

\* None at the beginning, all at the end.
LEMMA SoundAtEnds ==
    ASSUME ZzplayAssumption, film \in Films
    PROVE  SoundUpTo(0) = 0 /\ SoundUpTo(Len(film.items)) = Total
  <1>1. Items("audio") \subseteq 1..Len(film.items) /\ Len(film.items) \in Nat
    BY ItemsKnown DEF Items
  <1>2. {j \in Items("audio") : j <= 0} = {}
    BY <1>1
  <1>3. {j \in Items("audio") : j <= Len(film.items)} = Items("audio")
    BY <1>1
  <1>4. QED
    BY <1>2, <1>3, FS_EmptySet DEF SoundUpTo, Total

\* A run of n units of sound.
LEMMA SoundAfterUnits ==
    ASSUME ZzplayAssumption, film \in Films, NEW at \in Nat, NEW n \in Nat,
           at + n <= Len(film.items), \A k \in 1..n : film.items[at + k] = "audio"
    PROVE  SoundUpTo(at + n) = SoundUpTo(at) + n
  <1> DEFINE S == {j \in Items("audio") : j <= at}
             T == (at + 1)..(at + n)
  <1>1. Items("audio") \subseteq 1..Len(film.items) /\ Len(film.items) \in Nat
    BY ItemsKnown DEF Items
  <1>2. T \subseteq Items("audio")
    <2>1. ASSUME NEW j \in T
          PROVE  j \in Items("audio")
      <3>1. j - at \in 1..n /\ at + (j - at) = j /\ j \in 1..Len(film.items)
        BY <1>1
      <3>2. film.items[j] = "audio"
        BY <3>1
      <3>3. QED
        BY <3>1, <3>2, ItemsKnown DEF Items
    <2>2. QED
      BY <2>1
  <1>3. {j \in Items("audio") : j <= at + n} = S \cup T
    BY <1>1, <1>2
  <1>4. S \cap T = {} /\ IsFiniteSet(S)
    BY <1>1, SoundIsFinite
  <1>5. IsFiniteSet(T) /\ Cardinality(T) = n
    BY FS_Interval
  <1>6. Cardinality(S \cup T) = Cardinality(S) + Cardinality(T) - Cardinality(S \cap T)
    BY <1>4, <1>5, FS_Union
  <1>7. Cardinality(S \cap T) = 0 /\ Cardinality(S) \in Nat
    BY <1>4, FS_EmptySet, FS_CardinalityType
  <1> HIDE DEF S, T
  <1>8. Cardinality(S \cup T) = Cardinality(S) + n
    BY <1>5, <1>6, <1>7
  <1>9. QED
    BY <1>3, <1>8 DEF SoundUpTo, S

\* A frame is no sound.
LEMMA SoundAfterFrame ==
    ASSUME ZzplayAssumption, film \in Films, NEW at \in Nat,
           at < Len(film.items), film.items[at + 1] = "video"
    PROVE  SoundUpTo(at + 1) = SoundUpTo(at)
  <1>1. Items("audio") \subseteq 1..Len(film.items) /\ at + 1 \notin Items("audio")
    BY ItemsKnown DEF Items
  <1>2. {j \in Items("audio") : j <= at + 1} = {j \in Items("audio") : j <= at}
    BY <1>1, ItemsKnown
  <1>3. QED
    BY <1>2 DEF SoundUpTo

---------------------------------------------------------------------------
\* What a step leaves alone.

LEMMA SameFilm ==
    ASSUME film' = film, NEW k
    PROVE  Total' = Total /\ SoundUpTo(k)' = SoundUpTo(k)
  BY DEF Total, SoundUpTo, Items

LEMMA StreamStays ==
    ASSUME StreamOK, UNCHANGED <<film, feed, done>>,
           card'.has = card.has, card'.at = card.at, card'.closed = card.closed,
           card'.produced = card.produced, core' = "DRAINING" => done
    PROVE  StreamOK'
  BY DEF StreamOK, SoundUpTo, Items

LEMMA SinkStays ==
    ASSUME SinkOK, UNCHANGED heard, sound'.started = sound.started,
           sound'.prepared = sound.prepared, sound'.backend = sound.backend,
           sound'.draining = sound.draining, sound'.copied = sound.copied,
           sound'.produced = sound.produced \/ ~sound.draining,
           ahi'.clock = ahi.clock, ahi'.active = ahi.active,
           ahi'.underruns = ahi.underruns, ahi'.eos = ahi.eos,
           core' = core \/ (core # "DRAINING" /\ ahi.clock # "PAUSED")
    PROVE  SinkOK'
  BY DEF SinkOK

LEMMA SlotsStay ==
    ASSUME SlotsOK, UNCHANGED <<slots, heard>>, sound'.started = sound.started,
           sound'.copied = sound.copied, ahi'.queued = ahi.queued
    PROVE  SlotsOK'
  BY DEF SlotsOK, SlotOK, Behind

LEMMA CountStays ==
    ASSUME CountOK, UNCHANGED <<film, under, heard, gaps>>,
           \A i \in Slots : slots[i].use = "free" => slots'[i].use = "free",
           sound'.copied = sound.copied, ahi'.active = ahi.active,
           ahi'.underruns = ahi.underruns,
           step' = "look" => step = "look" /\ sound'.produced = sound.produced
    PROVE  CountOK'
  <1>1. Total' = Total /\ Reported' = Reported
    BY SameFilm DEF Reported
  <1>2. QED
    BY <1>1 DEF CountOK

---------------------------------------------------------------------------
\* Quit: nothing plays on.

\* The values that a session begins with.
LEMMA FreshTypes ==
    /\ FreshFeed \in FeedTypes /\ FreshCard \in CardTypes
    /\ \A b \in {"AX", "AHI"} : FreshSound(b) \in SoundTypes
    /\ \A c \in {"CLOSED", "PREBUFFERING"} : Sink(c) \in SinkTypes
    /\ [i \in Slots |-> Empty] \in [Slots -> SlotTypes]
  BY DEF FreshFeed, FreshCard, FreshSound, Sink, Empty, FeedTypes, CardTypes, SoundTypes,
     SinkTypes, SlotTypes

LEMMA CapturedIsNat == ASSUME FilmTypes PROVE Captured \in Nat
  BY DEF Captured, FilmTypes, SinkTypes

LEMMA QuitKeeps ==
    ASSUME FilmInv, NEW state \in {"STOPPED", "ERROR"}, Quit(state)
    PROVE  FilmInv'
  <1>1. FilmTypes /\ inOrder
    BY DEF FilmInv
  <1>2. /\ step' = "ended" /\ core' = state /\ feed' = FreshFeed /\ card' = FreshCard
        /\ sound' = FreshSound(sound.backend) /\ ahi' = Sink("CLOSED")
        /\ slots' = [i \in Slots |-> Empty] /\ since' = 0 /\ done' = FALSE
        /\ under' = Captured
        /\ UNCHANGED <<film, loops, pauses, busy, heard, inOrder, gaps, stalled>>
    BY DEF Quit, user, ear
  <1>3. sound.backend \in {"AX", "AHI"}
    BY <1>1 DEF FilmTypes, SoundTypes
  <1>4. FilmTypes'
    <2>1. FreshSound(sound.backend) \in SoundTypes /\ Sink("CLOSED") \in SinkTypes
      BY <1>3, FreshTypes
    <2>2. feed' \in FeedTypes /\ card' \in CardTypes /\ sound' \in SoundTypes
          /\ ahi' \in SinkTypes /\ slots' \in [Slots -> SlotTypes]
      BY <1>2, <2>1, FreshTypes
    <2>3. QED
      BY <1>1, <1>2, <2>2, CapturedIsNat DEF FilmTypes
  <1>5. ~(Running)'
    BY <1>2 DEF Running, Sink
  <1>6. PlacesOK'
    BY <1>2 DEF PlacesOK
  <1>7. QED
    BY <1>1, <1>2, <1>4, <1>5, <1>6 DEF FilmInv

---------------------------------------------------------------------------
\* Steps that move nothing but the program, the clock or the user.

LEMMA ControlKeeps ==
    ASSUME FilmInv, Control PROVE FilmInv'
  <1>1. /\ step = "control" /\ core = "PLAYING" /\ step' = "poll"
        /\ UNCHANGED <<film, core, feed, card, frame, done, sound, slots, ahi, since, loops,
                       under, pauses, busy, heard, inOrder, gaps, stalled>>
    BY DEF Control, stream, sink, user, ear
  <1>2. FilmTypes' /\ PlacesOK' /\ inOrder'
    <2>1. FilmTypes'
      BY <1>1 DEF FilmInv, FilmTypes
    <2>2. PlacesOK'
      BY <1>1 DEF FilmInv, PlacesOK, Passing, Draining
    <2>3. QED
      BY <1>1, <2>1, <2>2 DEF FilmInv
  <1>3. StreamOK' /\ SinkOK' /\ SlotsOK' /\ CountOK'
    BY <1>1, StreamStays, SinkStays, SlotsStay, CountStays DEF FilmInv, StreamOK
  <1>4. SoundOK'
    BY <1>1 DEF FilmInv, SoundOK
  <1>5. QED
    BY <1>1, <1>2, <1>3, <1>4 DEF FilmInv

LEMMA FinishKeeps ==
    ASSUME FilmInv, Finish PROVE FilmInv'
  <1>1. /\ step = "finish" /\ step' = "poll" /\ core' = "DRAINING"
        /\ sound' = [sound EXCEPT !.refresh = TRUE]
        /\ UNCHANGED <<film, feed, card, frame, done, slots, ahi, since, loops,
                       under, pauses, busy, heard, inOrder, gaps, stalled>>
    BY DEF Finish, stream, sink, user, ear
  <1>2. FilmTypes /\ PlacesOK /\ StreamOK /\ SoundOK /\ SinkOK /\ SlotsOK /\ CountOK
        /\ inOrder /\ done /\ core # "DRAINING" /\ core # "PAUSED"
    BY <1>1 DEF FilmInv, PlacesOK, Passing, Draining
  <1>3. /\ sound' \in SoundTypes /\ sound'.refresh
        /\ sound'.backend = sound.backend /\ sound'.produced = sound.produced
        /\ sound'.copied = sound.copied /\ sound'.prepared = sound.prepared
        /\ sound'.started = sound.started /\ sound'.draining = sound.draining
    BY <1>1, <1>2 DEF FilmTypes, SoundTypes
  <1>4. FilmTypes' /\ PlacesOK' /\ inOrder'
    <2>1. FilmTypes'
      BY <1>1, <1>2, <1>3 DEF FilmTypes
    <2>2. PlacesOK'
      BY <1>1, <1>2 DEF PlacesOK, Passing, Draining
    <2>3. QED
      BY <1>1, <1>2, <2>1, <2>2
  <1>5. ahi.clock # "PAUSED"
    BY <1>2 DEF SinkOK
  <1>6. StreamOK' /\ SinkOK' /\ SlotsOK' /\ CountOK'
    BY <1>1, <1>2, <1>3, <1>5, StreamStays, SinkStays, SlotsStay, CountStays
  <1>7. SoundOK'
    BY <1>1, <1>2, <1>3 DEF SoundOK, SinkOK
  <1>8. QED
    BY <1>1, <1>4, <1>6, <1>7 DEF FilmInv

LEMMA AhiStallsKeeps ==
    ASSUME FilmInv, AhiStalls PROVE FilmInv'
  <1>1. /\ Running /\ stalled' = TRUE
        /\ UNCHANGED <<film, step, core, feed, card, frame, done, sound, slots, ahi, since,
                       loops, under, pauses, busy, heard, inOrder, gaps>>
    BY DEF AhiStalls, stream, sink, user
  <1>2. FilmTypes' /\ PlacesOK' /\ inOrder' /\ step # "ended"
    BY <1>1 DEF FilmInv, FilmTypes, PlacesOK
  <1>3. StreamOK' /\ SinkOK' /\ SlotsOK' /\ CountOK'
    BY <1>1, <1>2, StreamStays, SinkStays, SlotsStay, CountStays DEF FilmInv, StreamOK
  <1>4. SoundOK'
    BY <1>1, <1>2 DEF FilmInv, SoundOK
  <1>5. QED
    BY <1>1, <1>2, <1>3, <1>4 DEF FilmInv

LEMMA TimeKeeps ==
    ASSUME FilmInv, Time PROVE FilmInv'
  <1>1. /\ Running /\ since' = since + 1
        /\ UNCHANGED <<film, step, core, feed, card, frame, done, sound, slots, ahi,
                       loops, under, pauses, busy, heard, inOrder, gaps, stalled>>
    BY DEF Time, stream, user, ear
  <1>2. FilmTypes' /\ PlacesOK' /\ inOrder' /\ step # "ended"
    BY <1>1 DEF FilmInv, FilmTypes, PlacesOK
  <1>3. StreamOK' /\ SinkOK' /\ SlotsOK' /\ CountOK'
    BY <1>1, <1>2, StreamStays, SinkStays, SlotsStay, CountStays DEF FilmInv, StreamOK
  <1>4. SoundOK'
    BY <1>1, <1>2 DEF FilmInv, SoundOK
  <1>5. QED
    BY <1>1, <1>2, <1>3, <1>4 DEF FilmInv

\* The clock of the sink.
LEMMA PresentedIsNat == ASSUME FilmTypes PROVE Presented \in Nat
  BY DEF Presented, Smaller, Larger, FilmTypes, SinkTypes

LEMMA PauseKeeps ==
    ASSUME FilmInv, Pause PROVE FilmInv'
  <1>1. /\ step = "control" /\ core = "PLAYING" /\ core' = "PAUSED" /\ pauses' = pauses + 1
        /\ UNCHANGED <<film, step, feed, card, frame, done, sound, slots, since,
                       loops, under, busy, heard, inOrder, gaps, stalled>>
        /\ IF sound.started
           THEN ahi' = [ahi EXCEPT !.clock = "PAUSED", !.shown = Presented]
           ELSE ahi' = ahi
    BY DEF Pause, stream, ear
  <1>2. FilmTypes /\ PlacesOK /\ StreamOK /\ SoundOK /\ SinkOK /\ SlotsOK /\ CountOK /\ inOrder
    BY <1>1 DEF FilmInv
  <1>3. /\ ahi' \in SinkTypes /\ ahi'.active = ahi.active /\ ahi'.eos = ahi.eos
        /\ ahi'.underruns = ahi.underruns /\ ahi'.queued = ahi.queued
        /\ ahi'.clock = IF sound.started THEN "PAUSED" ELSE ahi.clock
    BY <1>1, <1>2, PresentedIsNat DEF FilmTypes, SinkTypes
  <1>4. FilmTypes' /\ PlacesOK' /\ inOrder'
    BY <1>1, <1>2, <1>3 DEF FilmTypes, PlacesOK
  <1>5. SinkOK'
    BY <1>1, <1>2, <1>3 DEF SinkOK
  <1>6. StreamOK' /\ SlotsOK' /\ CountOK'
    BY <1>1, <1>2, <1>3, StreamStays, SlotsStay, CountStays
  <1>7. SoundOK'
    BY <1>1, <1>2 DEF SoundOK
  <1>8. QED
    BY <1>1, <1>4, <1>5, <1>6, <1>7 DEF FilmInv

LEMMA ResumeKeeps ==
    ASSUME FilmInv, Resume PROVE FilmInv'
  <1>1. /\ step = "control" /\ core = "PAUSED" /\ core' = "PLAYING"
        /\ UNCHANGED <<film, step, feed, card, frame, done, sound, slots,
                       loops, under, pauses, busy, heard, inOrder, gaps, stalled>>
        /\ IF sound.started
           THEN /\ ahi' = [ahi EXCEPT !.clock = "PLAYING",
                                      !.shown = Larger(ahi.shown, ahi.played)]
                /\ since' = 0
           ELSE ahi' = ahi /\ since' = since
    BY DEF Resume, stream, user, ear
  <1>2. FilmTypes /\ PlacesOK /\ StreamOK /\ SoundOK /\ SinkOK /\ SlotsOK /\ CountOK /\ inOrder
    BY <1>1 DEF FilmInv
  <1>3. /\ ahi' \in SinkTypes /\ ahi'.active = ahi.active /\ ahi'.eos = ahi.eos
        /\ ahi'.underruns = ahi.underruns /\ ahi'.queued = ahi.queued
        /\ ahi'.clock = IF sound.started THEN "PLAYING" ELSE ahi.clock
    BY <1>1, <1>2 DEF FilmTypes, SinkTypes, Larger
  <1>4. FilmTypes' /\ PlacesOK' /\ inOrder'
    BY <1>1, <1>2, <1>3 DEF FilmTypes, PlacesOK
  <1>5. SinkOK'
    BY <1>1, <1>2, <1>3 DEF SinkOK
  <1>6. StreamOK' /\ SlotsOK' /\ CountOK'
    BY <1>1, <1>2, <1>3, StreamStays, SlotsStay, CountStays
  <1>7. SoundOK'
    BY <1>1, <1>2 DEF SoundOK
  <1>8. QED
    BY <1>1, <1>4, <1>5, <1>6, <1>7 DEF FilmInv

---------------------------------------------------------------------------
\* Feeding and decoding.

LEMMA FeedRoundKeeps ==
    ASSUME ZzplayAssumption, FilmInv, FeedRound PROVE FilmInv'
  <1> DEFINE reads  == feed.pending = 0 /\ ~feed.eof
             got    == IF reads THEN Smaller(ReadChunk, Len(film.items) - feed.read) ELSE 0
             next   == [feed EXCEPT !.read = @ + got, !.pending = @ + got,
                                    !.eof = @ \/ (reads /\ got < ReadChunk)]
             taken  == Smaller(next.pending, CardInput - (card.has - card.at))
             closes == next.pending = 0 /\ next.eof /\ ~next.sent
  <1>1. FilmTypes /\ PlacesOK /\ inOrder /\ step = "feed"
    BY DEF FilmInv, FeedRound
  <1>2. StreamOK /\ SoundOK /\ SinkOK /\ SlotsOK /\ CountOK /\ core # "DRAINING"
    BY <1>1 DEF FilmInv, PlacesOK
  <1>3. /\ step' \in {"feed", "decode"}
        /\ UNCHANGED <<film, frame, done, core, slots, ahi, since, loops, under, pauses, busy,
                       heard, inOrder, gaps, stalled>>
    BY DEF FeedRound, sink, user, ear
  <1>4. /\ feed' = [next EXCEPT !.pending = @ - taken, !.sent = @ \/ closes]
        /\ card' = [card EXCEPT !.has = @ + taken, !.closed = @ \/ closes]
        /\ sound' = [sound EXCEPT !.refresh = @ \/ next.pending > 0 \/ closes]
    BY DEF FeedRound
  <1>5. /\ Len(film.items) \in Nat /\ ReadChunk \in Nat \ {0} /\ CardInput \in Nat
        /\ feed.read \in Nat /\ feed.pending \in Nat /\ card.has \in Nat /\ card.at \in Nat
        /\ card.produced \in Nat /\ card.acked \in Nat
        /\ feed.eof \in BOOLEAN /\ feed.sent \in BOOLEAN /\ card.closed \in BOOLEAN
    BY <1>1, ItemsKnown DEF FilmTypes, FeedTypes, CardTypes
  <1>6. /\ got \in Nat /\ got <= Len(film.items) - feed.read
        /\ reads /\ got < ReadChunk => got = Len(film.items) - feed.read
        /\ ~reads => got = 0
    <2>1. feed.read <= Len(film.items) /\ Len(film.items) - feed.read \in Nat
      <3>1. feed.read <= Len(film.items)
        BY <1>2 DEF StreamOK
      <3>2. QED
        BY <1>5, <3>1
    <2>2. CASE reads
      <3>1. got = Smaller(ReadChunk, Len(film.items) - feed.read)
        BY <2>2
      <3> HIDE DEF got, reads
      <3>2. QED
        BY <1>5, <2>1, <2>2, <3>1 DEF Smaller
    <2>3. CASE ~reads
      <3>1. got = 0
        BY <2>3
      <3> HIDE DEF got, reads
      <3>2. QED
        BY <2>1, <2>3, <3>1
    <2>4. QED
      BY <2>2, <2>3
  <1> DEFINE atEnd == feed.eof \/ (reads /\ got < ReadChunk)
  <1>7. atEnd \in BOOLEAN /\ reads \in BOOLEAN
    BY <1>5
  <1>8. /\ atEnd => feed.read + got = Len(film.items)
        /\ feed.eof => atEnd /\ got = 0
    <2>1. feed.eof => ~reads /\ got = 0 /\ feed.read = Len(film.items)
      <3>1. feed.eof => feed.read = Len(film.items)
        BY <1>2 DEF StreamOK
      <3>2. QED
        BY <1>6, <3>1
    <2>2. reads /\ got < ReadChunk => feed.read + got = Len(film.items)
      <3> HIDE DEF got, reads
      <3>1. QED
        BY <1>5, <1>6
    <2>3. feed.eof => feed.read + got = Len(film.items)
      <3> HIDE DEF got, reads
      <3>1. QED
        BY <1>5, <2>1
    <2> HIDE DEF got, reads
    <2>4. QED
      BY <2>1, <2>2, <2>3
  <1> HIDE DEF got, reads
  <1>9. /\ next \in FeedTypes /\ next.read = feed.read + got
        /\ next.pending = feed.pending + got /\ next.eof = atEnd /\ next.sent = feed.sent
    <2> DEFINE r == feed.read + got
               p == feed.pending + got
    <2>1. next = [feed EXCEPT !.read = r, !.pending = p, !.eof = atEnd]
      OBVIOUS
    <2>2. r \in Nat /\ p \in Nat /\ feed \in FeedTypes
      BY <1>1, <1>5, <1>6 DEF FilmTypes
    <2> HIDE DEF r, p, next, atEnd
    <2>3. next \in FeedTypes /\ next.read = r /\ next.pending = p /\ next.eof = atEnd
          /\ next.sent = feed.sent
      BY <1>7, <2>1, <2>2 DEF FeedTypes
    <2>4. QED
      BY <2>3 DEF r, p
  <1> HIDE DEF next, atEnd
  <1>10. /\ taken \in Nat /\ taken <= next.pending
         /\ taken <= CardInput - (card.has - card.at)
    <2>1. next.pending \in Nat
      BY <1>9 DEF FeedTypes
    <2>2. CardInput - (card.has - card.at) \in Nat
      <3>1. card.at <= card.has /\ card.has - card.at <= CardInput
        BY <1>2 DEF StreamOK
      <3>2. QED
        BY <1>5, <3>1
    <2>3. QED
      BY <2>1, <2>2 DEF Smaller
  <1> HIDE DEF taken
  <1>11. closes \in BOOLEAN /\ (closes => next.eof /\ next.pending = 0)
    OBVIOUS
  <1> HIDE DEF closes
  <1>12. /\ feed' \in FeedTypes /\ feed'.read = feed.read + got
         /\ feed'.pending = feed.pending + got - taken /\ feed'.eof = next.eof
    <2> DEFINE p == feed.pending + got - taken
               s == next.sent \/ closes
    <2>1. feed' = [next EXCEPT !.pending = p, !.sent = s]
      <3>1. next.pending - taken = p
        <4>1. next.pending = feed.pending + got
          BY <1>9
        <4>2. QED
          BY <1>5, <1>6, <1>10, <4>1
      <3>2. QED
        BY <1>4, <3>1
    <2>2. p \in Nat /\ s \in BOOLEAN
      <3>1. next.pending = feed.pending + got /\ next.sent \in BOOLEAN
        BY <1>5, <1>9
      <3>2. taken \in Nat /\ taken <= feed.pending + got
        BY <1>10, <3>1
      <3>3. p \in Nat
        BY <1>5, <1>6, <3>2
      <3>4. QED
        BY <3>1, <3>3
    <2> HIDE DEF p, s
    <2>3. feed' \in FeedTypes /\ feed'.read = next.read /\ feed'.pending = p
          /\ feed'.eof = next.eof
      BY <1>9, <2>1, <2>2 DEF FeedTypes
    <2>4. QED
      BY <1>9, <2>3 DEF p
  <1>13. /\ card' \in CardTypes /\ card'.has = card.has + taken /\ card'.at = card.at
         /\ card'.closed = (card.closed \/ closes) /\ card'.produced = card.produced
         /\ card'.acked = card.acked
    <2> DEFINE h == card.has + taken
               c == card.closed \/ closes
    <2>1. card' = [card EXCEPT !.has = h, !.closed = c]
      BY <1>4
    <2>2. h \in Nat /\ c \in BOOLEAN
      BY <1>5, <1>10
    <2> HIDE DEF h, c
    <2>3. card' \in CardTypes /\ card'.has = h /\ card'.at = card.at
          /\ card'.closed = c /\ card'.produced = card.produced
          /\ card'.acked = card.acked
      BY <1>1, <2>1, <2>2 DEF FilmTypes, CardTypes
    <2>4. QED
      BY <2>3 DEF h, c
  <1>14. /\ sound' \in SoundTypes
         /\ sound'.backend = sound.backend /\ sound'.produced = sound.produced
         /\ sound'.copied = sound.copied /\ sound'.prepared = sound.prepared
         /\ sound'.started = sound.started /\ sound'.draining = sound.draining
    <2>1. (sound.refresh \/ next.pending > 0 \/ closes) \in BOOLEAN
      OBVIOUS
    <2>2. QED
      BY <1>1, <1>4, <2>1 DEF FilmTypes, SoundTypes
  <1>15. FilmTypes' /\ PlacesOK'
    <2>1. FilmTypes'
      BY <1>1, <1>3, <1>12, <1>13, <1>14 DEF FilmTypes
    <2>2. PlacesOK'
      BY <1>1, <1>3 DEF PlacesOK, Passing
    <2>3. QED
      BY <2>1, <2>2
  <1>16. StreamOK'
    <2>1. /\ feed'.read <= Len(film.items) /\ feed'.read = feed'.pending + card'.has
          /\ card'.at <= card'.has /\ card'.has - card'.at <= CardInput
      <3>1. /\ feed.read = feed.pending + card.has /\ card.at <= card.has
        BY <1>2 DEF StreamOK
      <3>2. /\ feed'.read = feed.read + got /\ feed'.pending = feed.pending + got - taken
            /\ taken <= feed.pending + got
        BY <1>9, <1>10, <1>12
      <3>3. card'.at <= card'.has /\ card'.has - card'.at <= CardInput
        BY <1>5, <1>10, <1>13, <3>1
      <3>4. feed'.read <= Len(film.items)
        BY <1>5, <1>6, <3>2
      <3>5. feed'.read = feed'.pending + card'.has
        BY <1>5, <1>6, <1>10, <1>13, <3>1, <3>2
      <3>6. QED
        BY <3>3, <3>4, <3>5
    <2>2. feed'.eof => feed'.read = Len(film.items)
      BY <1>8, <1>9, <1>12
    <2>3. card.closed => next.eof /\ next.pending = 0
      BY <1>2, <1>5, <1>8, <1>9 DEF StreamOK
    <2>4. card'.closed => next.eof /\ next.pending = 0 /\ taken = 0
      BY <1>10, <1>11, <1>13, <2>3
    <2>5. card'.closed => feed'.eof /\ feed'.pending = 0
      <3>1. card'.closed => feed.pending + got = 0 /\ taken = 0 /\ next.eof
        BY <1>9, <2>4
      <3>2. QED
        BY <1>5, <1>6, <1>10, <1>12, <3>1
    <2>6. done => card'.closed /\ card'.at = card'.has
      <3>1. done => card.closed /\ card.at = card.has /\ taken = 0
        BY <1>2, <1>10, <2>3 DEF StreamOK
      <3>2. QED
        BY <1>5, <1>13, <3>1
    <2>7. card'.produced = SoundUpTo(card.at)'
      BY <1>2, <1>3, <1>13 DEF StreamOK, SoundUpTo, Items
    <2>8. QED
      BY <1>2, <1>3, <2>1, <2>2, <2>5, <2>6, <2>7 DEF StreamOK
  <1>17. SinkOK' /\ SlotsOK' /\ CountOK'
    BY <1>2, <1>3, <1>14, SinkStays, SlotsStay, CountStays
  <1>18. SoundOK'
    BY <1>2, <1>3, <1>13, <1>14 DEF SoundOK
  <1>19. QED
    BY <1>1, <1>3, <1>15, <1>16, <1>17, <1>18 DEF FilmInv

LEMMA DecodeKeeps ==
    ASSUME ZzplayAssumption, FilmInv, Decode PROVE FilmInv'
  <1>1. FilmTypes /\ PlacesOK /\ inOrder /\ step = "decode"
    BY DEF FilmInv, Decode
  <1>2. StreamOK /\ SoundOK /\ SinkOK /\ SlotsOK /\ CountOK /\ core # "DRAINING"
    BY <1>1 DEF FilmInv, PlacesOK
  <1>3. /\ step' = "control" /\ sound' = [sound EXCEPT !.refresh = TRUE]
        /\ UNCHANGED <<film, feed, core, slots, ahi, since, loops, under, pauses, busy,
                       heard, inOrder, gaps, stalled>>
    BY DEF Decode, sink, user, ear
  <1>4. PICK n \in Decodable :
          LET at == card.at + n
              atEnd == at = card.has
              shows == ~atEnd /\ film.items[at + 1] = "video"
          IN /\ card' = [card EXCEPT !.at = IF shows THEN at + 1 ELSE at,
                                     !.produced = @ + n]
             /\ done' = (atEnd /\ card.closed)
    BY DEF Decode
  <1>5. /\ Len(film.items) \in Nat /\ CardInput \in Nat
        /\ feed.read \in Nat /\ feed.pending \in Nat /\ card.has \in Nat /\ card.at \in Nat
        /\ card.produced \in Nat /\ card.acked \in Nat /\ film \in Films
    BY <1>1, ItemsKnown DEF FilmTypes, FeedTypes, CardTypes
  <1>6. /\ n \in Nat /\ n <= card.has - card.at
        /\ \A k \in 1..n : film.items[card.at + k] = "audio"
    BY <1>2, <1>5 DEF Decodable, StreamOK
  <1> DEFINE at    == card.at + n
             atEnd == at = card.has
             shows == ~atEnd /\ film.items[at + 1] = "video"
             to    == IF shows THEN at + 1 ELSE at
  <1>7. card' = [card EXCEPT !.at = to, !.produced = @ + n]
    BY <1>4
  <1>8. at \in Nat /\ at <= card.has /\ (shows => at < card.has) /\ card.has <= Len(film.items)
    <2>1. at \in Nat /\ at <= card.has
      BY <1>5, <1>6
    <2>2. card.has <= Len(film.items)
      BY <1>2, <1>5 DEF StreamOK
    <2>3. QED
      BY <1>5, <2>1, <2>2
  <1>9. card.produced + n = SoundUpTo(to)
    <2>1. SoundUpTo(at) = SoundUpTo(card.at) + n
      <3>1. card.at + n <= Len(film.items)
        BY <1>5, <1>8
      <3>2. QED
        BY <1>5, <1>6, <3>1, SoundAfterUnits
    <2>2. shows => SoundUpTo(at + 1) = SoundUpTo(at)
      BY <1>5, <1>8, SoundAfterFrame
    <2>3. QED
      BY <1>2, <2>1, <2>2 DEF StreamOK
  <1>10. done' \in BOOLEAN /\ (done' => card.closed /\ to = card.has)
    BY <1>4
  <1>11. to \in Nat /\ to <= card.has /\ card.at <= to
    BY <1>5, <1>6, <1>8
  <1>12. /\ card' \in CardTypes /\ card'.has = card.has /\ card'.at = to
         /\ card'.closed = card.closed /\ card'.produced = card.produced + n
         /\ card'.acked = card.acked
    <2> DEFINE p == card.produced + n
    <2>1. card' = [card EXCEPT !.at = to, !.produced = p]
      BY <1>7
    <2>2. p \in Nat
      BY <1>5, <1>6
    <2> HIDE DEF to, p
    <2>3. card' \in CardTypes /\ card'.has = card.has /\ card'.at = to
         /\ card'.closed = card.closed /\ card'.produced = p /\ card'.acked = card.acked
      BY <1>1, <1>11, <2>1, <2>2 DEF FilmTypes, CardTypes
    <2>4. QED
      BY <2>3 DEF p
  <1> HIDE DEF to, at, shows, atEnd
  <1>13. /\ sound' \in SoundTypes
         /\ sound'.backend = sound.backend /\ sound'.produced = sound.produced
         /\ sound'.copied = sound.copied /\ sound'.prepared = sound.prepared
         /\ sound'.started = sound.started /\ sound'.draining = sound.draining
    BY <1>1, <1>3 DEF FilmTypes, SoundTypes
  <1>14. FilmTypes' /\ PlacesOK'
    <2>1. FilmTypes'
      BY <1>1, <1>3, <1>12, <1>10, <1>13 DEF FilmTypes
    <2>2. PlacesOK'
      BY <1>1, <1>3 DEF PlacesOK, Passing
    <2>3. QED
      BY <2>1, <2>2
  <1>15. StreamOK'
    <2>1. SoundUpTo(card.at)' = Cardinality({j \in Items("audio") : j <= card'.at})
      BY <1>3 DEF SoundUpTo, Items
    <2>2. card'.produced = SoundUpTo(card.at)'
      BY <1>9, <1>12, <2>1 DEF SoundUpTo
    <2>3. QED
      BY <1>2, <1>3, <1>5, <1>11, <1>12, <1>10, <2>2 DEF StreamOK
  <1>16. SinkOK' /\ SlotsOK' /\ CountOK'
    BY <1>2, <1>3, <1>13, SinkStays, SlotsStay, CountStays
  <1>17. SoundOK'
    <2>1. sound.produced \in Nat /\ sound'.produced <= card'.produced
      BY <1>1, <1>2, <1>5, <1>6, <1>12, <1>13 DEF SoundOK, FilmTypes, SoundTypes
    <2>2. QED
      BY <1>2, <1>3, <1>12, <1>13, <2>1 DEF SoundOK
  <1>18. QED
    BY <1>1, <1>3, <1>14, <1>15, <1>16, <1>17 DEF FilmInv

---------------------------------------------------------------------------
\* AHI plays.

LEMMA SlotsKnown ==
    ASSUME FilmTypes, NEW i \in Slots
    PROVE  /\ slots[i] \in SlotTypes /\ slots[i].first \in Nat /\ slots[i].size \in Nat
           /\ slots[i].left \in Nat /\ slots[i].linked \in BOOLEAN
           /\ slots[i].use \in {"free", "ready", "pending"}
           /\ 1 - i \in Slots /\ 1 - i # i /\ 1 - (1 - i) = i /\ Slots = {i, 1 - i}
  <1>1. slots[i] \in SlotTypes
    BY DEF FilmTypes
  <1>2. 1 - i \in Slots /\ 1 - i # i /\ 1 - (1 - i) = i /\ Slots = {i, 1 - i}
    BY DEF Slots
  <1>3. QED
    BY <1>1, <1>2 DEF SlotTypes

\* While the sink runs, a buffer comes after the other one when it is linked.
LEMMA StartedIsSent ==
    ASSUME FilmTypes, SlotsOK, sound.started, NEW i \in Slots
    PROVE  slots[i].use # "ready" /\ (Behind(i) <=> slots[i].linked)
  <1>1. \A j \in Slots : slots[j].use # "ready"
    BY DEF SlotsOK, SlotOK
  <1>2. 1 \in Slots
    BY DEF Slots
  <1>3. QED
    BY <1>1, <1>2 DEF Behind

LEMMA RunningIsStarted ==
    ASSUME SinkOK, ahi.clock \in {"PLAYING", "DRAINING"} PROVE sound.started
  BY DEF SinkOK

\* The sum over both buffers, whichever of them is named first.
LEMMA InEitherOrder ==
    ASSUME NEW i \in Slots, FilmTypes, SlotsOK
    PROVE  heard + slots[i].left + slots[1 - i].left = sound.copied
  <1>1. 0 \in Slots /\ 1 \in Slots /\ i \in {0, 1}
    BY DEF Slots
  <1>2. slots[0].left \in Nat /\ slots[1].left \in Nat /\ heard \in Nat
    BY <1>1, SlotsKnown DEF FilmTypes
  <1>3. heard + slots[0].left + slots[1].left = sound.copied
    BY DEF SlotsOK
  <1>4. heard + slots[1].left + slots[0].left = heard + slots[0].left + slots[1].left
    BY <1>2
  <1>5. QED
    BY <1>1, <1>3, <1>4

LEMMA AhiPlayKeeps ==
    ASSUME ZzplayAssumption, FilmInv, AhiPlay PROVE FilmInv'
  <1>1. FilmTypes /\ PlacesOK /\ inOrder /\ Running /\ step # "ended"
    BY DEF FilmInv, AhiPlay
  <1>2. StreamOK /\ SoundOK /\ SinkOK /\ SlotsOK /\ CountOK
    BY <1>1 DEF FilmInv
  <1>3. PICK i \in Slots :
          /\ Unplayed(slots[i]) /\ ~slots[i].linked
          /\ slots' = [slots EXCEPT ![i].left = @ - 1,
                                    ![1 - i].linked = @ /\ ~(slots[i].left = 1)]
          /\ heard' = slots[i].first + slots[i].size - slots[i].left
          /\ inOrder' = (inOrder /\ slots[i].first + slots[i].size - slots[i].left = heard + 1)
          /\ gaps' = IF /\ slots[i].left = 1 /\ ~Unplayed(slots[1 - i])
                        /\ slots[i].first + slots[i].size - slots[i].left < Total
                     THEN gaps + 1 ELSE gaps
    BY DEF AhiPlay
  <1>4. UNCHANGED <<film, step, core, feed, card, frame, done, sound, ahi, since, loops, under,
                    pauses, busy, stalled>>
    BY DEF AhiPlay, stream, user
  <1> DEFINE j == 1 - i
             one == slots[i]
             two == slots[j]
  <1>5. /\ j \in Slots /\ j # i /\ Slots = {i, j} /\ 1 - i = j /\ 1 - j = i
        /\ one \in SlotTypes /\ two \in SlotTypes
        /\ one.first \in Nat /\ one.size \in Nat /\ one.left \in Nat
        /\ two.first \in Nat /\ two.size \in Nat /\ two.left \in Nat
        /\ heard + one.left + two.left = sound.copied
    BY <1>1, <1>2, SlotsKnown, InEitherOrder
  <1>6. sound.started /\ heard \in Nat /\ gaps \in Nat /\ sound.copied \in Nat
    BY <1>1, <1>2, RunningIsStarted DEF Running, FilmTypes, SoundTypes
  <1>7. /\ one.use = "pending" /\ two.use # "ready"
        /\ (Behind(i) <=> one.linked) /\ (Behind(j) <=> two.linked)
    BY <1>1, <1>2, <1>3, <1>5, <1>6, StartedIsSent DEF Unplayed
  <1> HIDE DEF j
  <1>8. /\ one.left > 0 /\ ~one.linked /\ one.left <= one.size
        /\ one.first + one.size = heard + one.left + 1
        /\ two.left > 0 => /\ two.linked /\ two.left = two.size
                           /\ two.first = heard + one.left + 1
        /\ two.linked => two.left > 0
    BY <1>2, <1>3, <1>5, <1>7 DEF SlotsOK, SlotOK, Unplayed
  <1>9. one.first + one.size - one.left = heard + 1
    BY <1>5, <1>6, <1>8
  <1>10. heard' = heard + 1 /\ inOrder'
    BY <1>1, <1>3, <1>9
  <1> DEFINE less == one.left - 1
             tied == two.linked /\ ~(one.left = 1)
  <1>11. less \in Nat /\ tied \in BOOLEAN
    BY <1>5, <1>8
  <1>12. slots' = [slots EXCEPT ![i].left = less, ![j].linked = tied]
    BY <1>3, <1>5 DEF j
  <1> HIDE DEF less, tied
  <1>13. /\ slots' \in [Slots -> SlotTypes]
         /\ slots'[i] = [one EXCEPT !.left = less] /\ slots'[j] = [two EXCEPT !.linked = tied]
    BY <1>1, <1>5, <1>11, <1>12 DEF FilmTypes, SlotTypes
  <1> HIDE DEF one, two
  <1>14. /\ slots'[i].use = one.use /\ slots'[i].first = one.first
         /\ slots'[i].size = one.size /\ slots'[i].linked = one.linked
         /\ slots'[i].left = less
         /\ slots'[j].use = two.use /\ slots'[j].first = two.first
         /\ slots'[j].size = two.size /\ slots'[j].linked = tied
         /\ slots'[j].left = two.left
    BY <1>5, <1>13 DEF SlotTypes
  <1>15. FilmTypes'
    <2>1. gaps' \in Nat /\ heard' \in Nat /\ inOrder' \in BOOLEAN
      BY <1>3, <1>6, <1>10
    <2>2. QED
      BY <1>1, <1>4, <1>13, <2>1 DEF FilmTypes
  <1>16. PlacesOK'
    BY <1>1, <1>4 DEF PlacesOK
  <1>17. StreamOK' /\ SoundOK'
    BY <1>2, <1>4, StreamStays DEF SoundOK, StreamOK
  <1>18. SinkOK'
    BY <1>2, <1>4, <1>6 DEF SinkOK
  <1>19. SlotsOK'
    <2>1. less = one.left - 1 /\ (tied <=> two.linked /\ one.left # 1)
      BY DEF less, tied
    <2>2. (Behind(i)' <=> one.linked) /\ (Behind(j)' <=> tied)
      <3>1. slots'[i].use # "ready" /\ slots'[j].use # "ready"
        BY <1>7, <1>14
      <3>2. \E k \in Slots : slots'[k].use # "ready"
        BY <3>1
      <3>3. QED
        BY <1>14, <3>2 DEF Behind
    <2>3. SlotOK(i)'
      <3>1. /\ slots'[i].left <= slots'[i].size
            /\ slots'[i].use = "pending" /\ slots'[i].size > 0
        BY <1>5, <1>7, <1>8, <1>14, <2>1
      <3>2. slots'[i].left > 0 => /\ slots'[i].first + slots'[i].size = heard' + slots'[i].left + 1
                                  /\ slots'[j].left > 0 => Behind(j)'
        <4>1. one.first + one.size = (heard + 1) + less + 1
          BY <1>5, <1>6, <1>8, <2>1
        <4>2. less > 0 /\ two.left > 0 => tied
          BY <1>5, <1>8, <2>1
        <4>3. QED
          BY <1>10, <1>14, <2>2, <4>1, <4>2
      <3>3. ~Behind(i)' /\ ~slots'[i].linked
        BY <1>8, <1>14, <2>2
      <3>4. QED
        BY <1>4, <1>5, <1>6, <3>1, <3>2, <3>3 DEF SlotOK
    <2>4. SlotOK(j)'
      <3>1. SlotOK(j)
        BY <1>2, <1>5 DEF SlotsOK
      <3>2. tied => two.left > 0 /\ two.linked /\ less > 0
        BY <1>5, <1>8, <2>1
      <3>3. two.left > 0 /\ ~tied =>
              two.first + two.size = (heard + 1) + two.left + 1 /\ ~(less > 0)
        BY <1>5, <1>6, <1>8, <2>1
      <3>4. tied => two.left = two.size /\ two.first = (heard + 1) + less + 1
        BY <1>5, <1>6, <1>8, <2>1
      <3>5. two.use = "free" => two.size = 0
        BY <3>1 DEF SlotOK, two
      <3>6. slots'[j].use = "free" => slots'[j].size = 0
        BY <1>14, <3>5
      <3>7. /\ two.left <= two.size /\ two.use # "free" => two.size > 0
        BY <3>1 DEF SlotOK, two
      <3>8. /\ slots'[j].left <= slots'[j].size
            /\ slots'[j].use # "free" => slots'[j].size > 0
            /\ slots'[j].linked => slots'[j].left > 0
            /\ slots'[j].use # "ready"
        BY <1>7, <1>14, <3>1, <3>2 DEF SlotOK, two
      <3>9. slots'[j].left > 0 /\ ~Behind(j)' =>
              /\ slots'[j].first + slots'[j].size = heard' + slots'[j].left + 1
              /\ slots'[i].left > 0 => Behind(i)'
        BY <1>10, <1>14, <2>2, <3>3
      <3>10. slots'[j].left > 0 /\ Behind(j)' =>
              /\ slots'[i].left > 0 /\ ~Behind(i)' /\ slots'[j].left = slots'[j].size
              /\ slots'[j].first = heard' + slots'[i].left + 1
        BY <1>8, <1>10, <1>14, <2>2, <3>2, <3>4
      <3>11. QED
        BY <1>4, <1>5, <1>6, <1>14, <3>6, <3>8, <3>9, <3>10 DEF SlotOK
    <2>5. heard' + slots'[0].left + slots'[1].left = sound'.copied
      <3>1. i \in {0, 1} /\ j \in {0, 1}
        BY <1>5 DEF Slots
      <3>2. (heard + 1) + less + two.left = sound.copied
            /\ (heard + 1) + two.left + less = sound.copied
        BY <1>5, <1>6, <1>8, <2>1
      <3>3. heard' + slots'[0].left + slots'[1].left = sound.copied
        BY <1>5, <1>10, <1>14, <3>1, <3>2
      <3>4. QED
        BY <1>4, <3>3
    <2>6. ahi'.queued = slots'[0].size + slots'[1].size /\ slots'[1].use # "ready"
      <3>1. i \in {0, 1} /\ j \in {0, 1}
        BY <1>5 DEF Slots
      <3>2. slots'[0].size = slots[0].size /\ slots'[1].size = slots[1].size
            /\ slots'[1].use # "ready"
        BY <1>5, <1>7, <1>14, <3>1 DEF one, two
      <3>3. QED
        BY <1>2, <1>4, <3>2 DEF SlotsOK
    <2>7. QED
      BY <1>5, <2>3, <2>4, <2>5, <2>6 DEF SlotsOK
  <1>20. CountOK'
    <2>1. ~ahi.active /\ Reported <= gaps
      BY <1>2, <1>5, <1>7 DEF CountOK, one
    <2>2. Reported' = Reported /\ Total' = Total /\ Reported \in Nat
      BY <1>1, <1>4, SameFilm DEF Reported, FilmTypes, SinkTypes
    <2>3. gaps' >= gaps /\ gaps' \in Nat
      BY <1>3, <1>6
    <2>4. ASSUME heard + 1 = sound.copied, heard + 1 < Total
          PROVE  gaps' = gaps + 1
      <3>1. one.left = 1 /\ two.left = 0
        BY <1>5, <1>6, <1>8, <2>4
      <3>2. QED
        BY <1>3, <1>9, <2>4, <3>1 DEF Unplayed, one, two, j
    <2>5. ~ahi'.active
      BY <1>4, <2>1
    <2>6. gaps \in Nat /\ Reported' <= gaps'
      <3>1. gaps \in Nat
        BY <1>1 DEF FilmTypes
      <3>2. QED
        BY <2>1, <2>2, <2>3, <3>1
    <2>7. ASSUME heard' = sound'.copied, heard' > 0, heard' < Total'
          PROVE  Reported' < gaps'
      <3>1. gaps' = gaps + 1
        BY <1>4, <1>6, <1>10, <2>2, <2>4, <2>7
      <3>2. QED
        BY <2>1, <2>2, <2>6, <3>1
    <2>8. QED
      BY <2>5, <2>6, <2>7 DEF CountOK
  <1>21. QED
    BY <1>1, <1>4, <1>10, <1>15, <1>16, <1>17, <1>18, <1>19, <1>20 DEF FilmInv

---------------------------------------------------------------------------
\* The first half of the pump.

\* Sound that has not been played keeps the sink from being at its start.
LEMMA NothingCopied ==
    ASSUME FilmTypes, SlotsOK, ~sound.started, sound.copied = 0
    PROVE  ahi.queued = 0 /\ \A i \in Slots : slots[i].use = "free" /\ slots[i].size = 0
  <1>1. ASSUME NEW i \in Slots
        PROVE  slots[i].use = "free" /\ slots[i].size = 0
    <2>1. SlotOK(i) /\ heard + slots[i].left + slots[1 - i].left = 0
      BY InEitherOrder DEF SlotsOK
    <2>2. slots[i].left = 0
      <3>1. heard \in Nat /\ slots[i].left \in Nat /\ 1 - i \in Slots
        BY SlotsKnown DEF FilmTypes
      <3>2. slots[1 - i].left \in Nat
        BY <3>1, SlotsKnown
      <3>3. QED
        BY <2>1, <3>1, <3>2
    <2>3. slots[i].use = "free"
      BY <2>1, <2>2, SlotsKnown DEF SlotOK
    <2>4. QED
      BY <2>1, <2>3 DEF SlotOK
  <1>2. QED
    BY <1>1 DEF SlotsOK, Slots

\* What the program learns of the card.
LEMMA PollReads ==
    ASSUME FilmInv, Poll
    PROVE  /\ sound' \in SoundTypes /\ card' \in CardTypes
           /\ sound'.backend = sound.backend /\ sound'.copied = sound.copied
           /\ sound'.started = sound.started /\ sound'.draining = sound.draining
           /\ (sound'.prepared <=> sound'.produced > 0) /\ (sound.prepared => sound'.prepared)
           /\ sound.produced <= sound'.produced /\ sound'.produced <= card'.produced
           /\ core = "DRAINING" => sound'.produced = card'.produced
           /\ card'.has = card.has /\ card'.at = card.at /\ card'.closed = card.closed
           /\ card'.produced = card.produced /\ card'.acked \in {card.acked, sound.copied}
  <1> DEFINE read     == sound.refresh \/ ~sound.known
             made     == IF read THEN card.produced ELSE sound.produced
             prepared == sound.prepared \/ (~sound.prepared /\ made > 0)
  <1>1. /\ card' = IF read THEN [card EXCEPT !.acked = sound.copied] ELSE card
        /\ sound' = [sound EXCEPT !.known = TRUE, !.refresh = FALSE, !.produced = made,
                                  !.prepared = prepared]
    BY DEF Poll
  <1>2. FilmTypes /\ SoundOK /\ step = "poll"
    BY DEF FilmInv, Poll
  <1>3. /\ sound \in SoundTypes /\ card \in CardTypes /\ sound.produced \in Nat
        /\ sound.copied \in Nat /\ card.produced \in Nat /\ sound.prepared \in BOOLEAN
    BY <1>2 DEF FilmTypes, SoundTypes, CardTypes
  <1>4. made \in Nat /\ prepared \in BOOLEAN /\ (prepared <=> made > 0)
        /\ sound.produced <= made /\ made <= card.produced
        /\ (core = "DRAINING" => made = card.produced)
    <2>1. sound.produced <= card.produced /\ (sound.prepared <=> sound.produced > 0)
          /\ (core = "DRAINING" => sound.produced = card.produced \/ sound.refresh)
      BY <1>2 DEF SoundOK
    <2>2. QED
      BY <1>3, <2>1
  <1>5. sound.prepared => prepared
    OBVIOUS
  <1> HIDE DEF made, prepared
  <1>6. /\ sound' \in SoundTypes /\ sound'.backend = sound.backend
        /\ sound'.copied = sound.copied /\ sound'.started = sound.started
        /\ sound'.draining = sound.draining /\ sound'.produced = made
        /\ sound'.prepared = prepared
    BY <1>1, <1>3, <1>4 DEF SoundTypes
  <1>7. /\ card' \in CardTypes
        /\ card'.has = card.has /\ card'.at = card.at /\ card'.closed = card.closed
        /\ card'.produced = card.produced /\ card'.acked \in {card.acked, sound.copied}
    <2>1. CASE read
      BY <1>1, <1>3, <2>1 DEF CardTypes
    <2>2. CASE ~read
      BY <1>1, <1>3, <2>2
    <2>3. QED
      BY <2>1, <2>2
  <1>8. QED
    BY <1>4, <1>5, <1>6, <1>7

\* The rest of the state after it, whatever becomes of the sink.
LEMMA PollMoves ==
    ASSUME FilmInv, Poll, FilmTypes'
    PROVE  PlacesOK' /\ inOrder' /\ StreamOK' /\ SoundOK' /\ step' # "ended" /\ step' # "look"
  <1>1. FilmTypes /\ PlacesOK /\ StreamOK /\ SoundOK /\ inOrder /\ step = "poll"
    BY DEF FilmInv, Poll
  <1>2. /\ step' = IF sound'.backend = "AHI" /\ sound'.prepared THEN "fill" ELSE Pumped
        /\ UNCHANGED <<film, feed, frame, done, core, inOrder>>
    BY PollReads DEF Poll, ear
  <1>3. /\ Pumped \in {"drain", "retire", "finish", "feed"}
        /\ Pumped = "drain" <=> core = "DRAINING"
        /\ Pumped = "finish" => done
    BY DEF Pumped
  <1>4. PlacesOK'
    <2>1. core # "PAUSED"
      BY <1>1 DEF PlacesOK
    <2>2. QED
      BY <1>1, <1>2, <1>3, <2>1 DEF PlacesOK, Passing, Draining
  <1>5. StreamOK'
    BY <1>1, <1>2, PollReads, StreamStays DEF StreamOK
  <1>6. SoundOK'
    <2>1. card.acked \in Nat /\ sound.copied \in Nat /\ sound.produced \in Nat
          /\ sound'.produced \in Nat
      BY <1>1, PollReads DEF FilmTypes, CardTypes, SoundTypes
    <2>2. card'.acked \in {card.acked, sound.copied} /\ card'.acked <= sound.copied
          /\ (sound.backend = "AX" => card'.acked = 0 /\ sound.copied = 0)
      BY <1>1, <2>1, PollReads DEF SoundOK
    <2>3. sound.copied <= sound'.produced
      BY <1>1, <2>1, PollReads DEF SoundOK
    <2>4. QED
      BY <1>2, <2>2, <2>3, PollReads DEF SoundOK
  <1>7. QED
    BY <1>1, <1>2, <1>3, <1>4, <1>5, <1>6

\* The buffers that have been played are taken back.
LEMMA Reaped ==
    ASSUME FilmInv, Poll, sound.backend = "AHI", sound.prepared
    PROVE  /\ FilmTypes' /\ SlotsOK' /\ SinkOK' /\ CountOK'
  <1>1. FilmTypes /\ SoundOK /\ SinkOK /\ SlotsOK /\ CountOK /\ step = "poll"
    BY DEF FilmInv, Poll
  <1>2. /\ ahi' = Polled /\ since' = 0
        /\ slots' = [i \in Slots |-> IF i \in Played THEN Empty ELSE slots[i]]
        /\ UNCHANGED <<film, feed, frame, done, core, loops, under, pauses, busy, heard,
                       inOrder, gaps, stalled>>
    BY DEF Poll, user, ear
  <1>3. step' # "look"
    BY PollReads DEF Poll, Pumped
  <1>4. 0 \in Slots /\ 1 \in Slots /\ Slots = {0, 1} /\ Played \subseteq Slots
    BY DEF Slots, Played
  <1>5. ASSUME NEW i \in Slots
        PROVE  /\ slots[i] \in SlotTypes /\ slots[i].size \in Nat /\ slots[i].left \in Nat
               /\ PlayedOf(i) \in Nat /\ PlayedOf(i) <= slots[i].size
               /\ i \in Played => slots[i].left = 0 /\ ~slots[i].linked
                                  /\ slots[i].use = "pending"
    <2>1. SlotOK(i) /\ slots[i] \in SlotTypes
      BY <1>1 DEF SlotsOK, FilmTypes
    <2>2. slots[i].size \in Nat /\ slots[i].left \in Nat
      BY <2>1 DEF SlotTypes
    <2>3. i \in Played => slots[i].left = 0 /\ ~slots[i].linked /\ slots[i].use = "pending"
      BY <2>1, <2>2 DEF Played, SlotOK
    <2>4. QED
      BY <2>1, <2>2, <2>3 DEF PlayedOf
  <1>6. /\ ahi.queued \in Nat /\ ahi.played \in Nat /\ ahi.submitted \in Nat
        /\ ahi.underruns \in Nat /\ ahi \in SinkTypes
        /\ ahi.queued = slots[0].size + slots[1].size
    BY <1>1 DEF FilmTypes, SinkTypes, SlotsOK
  <1> DEFINE q == ahi.queued - PlayedUnits
             p == ahi.played + PlayedUnits
             s == Smaller(Larger(Presented, ahi.played + PlayedUnits), ahi.submitted)
             reaped == [ahi EXCEPT !.queued = q, !.played = p, !.shown = s]
             dry == /\ ahi.clock = "PLAYING" /\ ~ahi.eos /\ q = 0
                    /\ \A i \in Slots \ Played : slots[i].use = "free"
  <1>7. /\ PlayedUnits \in Nat /\ q \in Nat /\ p \in Nat /\ s \in Nat
        /\ q = (slots[0].size - PlayedOf(0)) + (slots[1].size - PlayedOf(1))
    <2>1. PlayedUnits \in Nat /\ PlayedUnits <= ahi.queued
      BY <1>4, <1>5, <1>6 DEF PlayedUnits
    <2>2. q = (slots[0].size - PlayedOf(0)) + (slots[1].size - PlayedOf(1))
      BY <1>4, <1>5, <1>6 DEF PlayedUnits
    <2>3. s \in Nat
      BY <1>1, <1>6, <2>1, PresentedIsNat DEF Smaller, Larger
    <2>4. QED
      BY <1>6, <2>1, <2>2, <2>3
  <1>8. reaped.queued = q
    BY <1>6 DEF SinkTypes
  <1>9. ahi' = IF dry /\ ~ahi.active
               THEN [reaped EXCEPT !.underruns = @ + 1, !.active = TRUE] ELSE reaped
    BY <1>2, <1>8 DEF Polled
  <1> HIDE DEF q, p, s
  <1>10. /\ reaped \in SinkTypes /\ reaped.clock = ahi.clock /\ reaped.queued = q
         /\ reaped.underruns = ahi.underruns /\ reaped.active = ahi.active
         /\ reaped.eos = ahi.eos
    BY <1>6, <1>7 DEF SinkTypes
  <1> HIDE DEF reaped, dry
  <1>11. /\ ahi' \in SinkTypes /\ ahi'.clock = ahi.clock /\ ahi'.queued = q
         /\ ahi'.eos = ahi.eos
         /\ dry /\ ~ahi.active => ahi'.underruns = ahi.underruns + 1 /\ ahi'.active
         /\ ~(dry /\ ~ahi.active) => /\ ahi'.underruns = ahi.underruns
                                     /\ ahi'.active = ahi.active
    <2> DEFINE more == reaped.underruns + 1
    <2>1. more \in Nat /\ more = ahi.underruns + 1
      BY <1>6, <1>10
    <2>2. ahi' = IF dry /\ ~ahi.active
                 THEN [reaped EXCEPT !.underruns = more, !.active = TRUE] ELSE reaped
      BY <1>9
    <2> HIDE DEF more
    <2>3. CASE dry /\ ~ahi.active
      BY <1>10, <2>1, <2>2, <2>3 DEF SinkTypes
    <2>4. CASE ~(dry /\ ~ahi.active)
      BY <1>10, <2>2, <2>4 DEF SinkTypes
    <2>5. QED
      BY <2>3, <2>4
  <1>12. slots' \in [Slots -> SlotTypes]
    BY <1>1, <1>2, FreshTypes DEF FilmTypes, Empty, SlotTypes
  <1>13. FilmTypes'
    BY <1>1, <1>2, <1>11, <1>12, PollReads DEF FilmTypes
  <1>14. ASSUME NEW i \in Slots
         PROVE  /\ i \notin Played => slots'[i] = slots[i]
                /\ i \in Played => /\ slots'[i].use = "free" /\ slots'[i].size = 0
                                   /\ slots'[i].left = 0 /\ ~slots'[i].linked
                /\ slots'[i].left = slots[i].left
                /\ slots'[i].size = slots[i].size - PlayedOf(i)
                /\ slots'[i].linked <=> slots[i].linked
                /\ slots'[i].use = "ready" <=> slots[i].use = "ready"
    <2>1. CASE i \in Played
      <3>1. slots'[i] = Empty
        BY <1>2, <2>1
      <3>2. PlayedOf(i) = slots[i].size /\ slots[i].left = 0 /\ ~slots[i].linked
            /\ slots[i].use = "pending" /\ slots[i].size \in Nat
            /\ slots[i].linked \in BOOLEAN
        BY <1>1, <1>5, <2>1, SlotsKnown DEF PlayedOf
      <3>3. /\ slots'[i].use = "free" /\ slots'[i].size = 0 /\ slots'[i].left = 0
            /\ ~slots'[i].linked
        BY <3>1 DEF Empty
      <3>4. slots[i].size - PlayedOf(i) = 0
        BY <3>2
      <3>5. QED
        BY <2>1, <3>2, <3>3, <3>4
    <2>2. CASE i \notin Played
      <3>1. slots'[i] = slots[i] /\ PlayedOf(i) = 0 /\ slots[i].size \in Nat
        BY <1>2, <1>5, <2>2 DEF PlayedOf
      <3>2. QED
        BY <2>2, <3>1
    <2>3. QED
      BY <2>1, <2>2
  <1>15. SlotsOK'
    <2>1. ASSUME NEW i \in Slots PROVE Behind(i)' <=> Behind(i)
      BY <1>14 DEF Behind
    <2>2. ASSUME NEW i \in Slots PROVE SlotOK(i)'
      <3>1. SlotOK(i) /\ 1 - i \in Slots
        BY <1>1, SlotsKnown DEF SlotsOK
      <3>2. /\ Behind(i)' <=> Behind(i)
            /\ Behind(1 - i)' <=> Behind(1 - i)
        BY <2>1, <3>1
      <3>3. slots'[1 - i].left = slots[1 - i].left
        BY <1>14, <3>1
      <3>4. sound'.started = sound.started /\ heard' = heard
        BY <1>2, PollReads
      <3>5. CASE i \in Played
        BY <1>14, <3>1, <3>2, <3>3, <3>4, <3>5 DEF SlotOK
      <3>6. CASE i \notin Played
        BY <1>14, <3>1, <3>2, <3>3, <3>4, <3>6 DEF SlotOK
      <3>7. QED
        BY <3>5, <3>6
    <2>3. heard' + slots'[0].left + slots'[1].left = sound'.copied
      BY <1>1, <1>2, <1>4, <1>14, PollReads DEF SlotsOK
    <2>4. ahi'.queued = slots'[0].size + slots'[1].size
      BY <1>4, <1>7, <1>11, <1>14
    <2>5. slots'[1].use = "ready" => slots'[0].use = "ready"
      BY <1>1, <1>4, <1>14 DEF SlotsOK
    <2>6. QED
      BY <2>2, <2>3, <2>4, <2>5 DEF SlotsOK
  <1>16. dry => /\ ahi.clock = "PLAYING" /\ ~ahi.eos /\ sound.started
                /\ heard = sound.copied /\ heard > 0
                /\ \A i \in Slots : slots'[i].use = "free"
    <2>1. SUFFICES ASSUME dry
                   PROVE  /\ ahi.clock = "PLAYING" /\ ~ahi.eos /\ sound.started
                          /\ heard = sound.copied /\ heard > 0
                          /\ \A i \in Slots : slots'[i].use = "free"
      OBVIOUS
    <2>2. ahi.clock = "PLAYING" /\ ~ahi.eos /\ \A i \in Slots \ Played : slots[i].use = "free"
      BY <2>1 DEF dry
    <2>3. sound.started /\ sound.copied > 0
      BY <1>1, <2>2 DEF SinkOK
    <2>4. \A i \in Slots : slots'[i].use = "free"
      BY <1>14, <2>2
    <2>5. \A i \in Slots : slots[i].left = 0
      <3>1. ASSUME NEW i \in Slots PROVE slots[i].left = 0
        <4>1. i \notin Played => slots[i].size = 0 /\ slots[i].left <= slots[i].size
          BY <1>1, <2>2 DEF SlotsOK, SlotOK
        <4>2. QED
          BY <1>5, <4>1
      <3>2. QED
        BY <3>1
    <2>6. heard = sound.copied
      BY <1>1, <1>4, <2>5 DEF SlotsOK, FilmTypes
    <2>7. QED
      BY <2>2, <2>3, <2>4, <2>6
  <1>17. SinkOK'
    <2>1. ahi'.eos => ~ahi'.active
      BY <1>1, <1>11, <1>16 DEF SinkOK
    <2>2. sound.draining => sound'.produced = sound.produced
      <3>1. sound.draining => core = "DRAINING"
        BY <1>1 DEF SinkOK
      <3>2. QED
        BY <1>1, <3>1, PollReads DEF SoundOK
    <2>3. QED
      BY <1>1, <1>2, <1>11, <1>16, <2>1, <2>2, PollReads DEF SinkOK
  <1>18. CountOK'
    <2>1. Total' = Total /\ Reported' = under + ahi'.underruns
      BY <1>2, SameFilm DEF Reported
    <2>2. under \in Nat /\ gaps \in Nat /\ heard \in Nat
      BY <1>1 DEF FilmTypes
    <2>3. CASE dry /\ ~ahi.active
      <3>1. Reported <= gaps /\ (heard < Total => Reported < gaps)
        BY <1>1, <1>16, <2>3 DEF CountOK
      <3>2. ahi'.underruns = ahi.underruns + 1 /\ ahi'.active /\ Reported = under + ahi.underruns
        BY <1>11, <2>3 DEF Reported
      <3>3. /\ under + ahi'.underruns <= gaps + 1
            /\ heard < Total => under + ahi'.underruns <= gaps
            /\ ahi'.underruns > 0
        BY <1>6, <2>2, <3>1, <3>2
      <3>4. QED
        BY <1>2, <1>3, <1>16, <2>1, <2>3, <3>2, <3>3, PollReads DEF CountOK
    <2>4. CASE ~(dry /\ ~ahi.active)
      <3>1. \A i \in Slots : slots[i].use = "free" => slots'[i].use = "free"
        BY <1>14
      <3>2. QED
        BY <1>1, <1>2, <1>3, <1>11, <2>4, <3>1, PollReads, CountStays
    <2>5. QED
      BY <2>3, <2>4
  <1>19. QED
    BY <1>13, <1>15, <1>17, <1>18

\* The sink is prepared, or there is none yet.
LEMMA NotReaped ==
    ASSUME FilmInv, Poll, ~(sound.backend = "AHI" /\ sound.prepared)
    PROVE  FilmTypes' /\ SlotsOK' /\ SinkOK' /\ CountOK'
  <1>1. FilmTypes /\ SoundOK /\ SinkOK /\ SlotsOK /\ CountOK /\ step = "poll"
    BY DEF FilmInv, Poll
  <1>2. /\ UNCHANGED <<slots, since, film, feed, frame, done, core, loops, under, pauses,
                       busy, heard, inOrder, gaps, stalled>>
        /\ ahi' = IF ~sound.prepared /\ sound'.produced > 0 /\ sound.backend = "AHI"
                  THEN Sink("PREBUFFERING") ELSE ahi
    <2>1. sound'.produced = IF sound.refresh \/ ~sound.known THEN card.produced
                            ELSE sound.produced
      BY <1>1 DEF Poll, FilmTypes, SoundTypes
    <2>2. QED
      BY <2>1 DEF Poll, user, ear
  <1>3. ~sound.started /\ step' # "look"
    BY <1>1, PollReads DEF SinkOK, Poll, Pumped
  <1>4. /\ Sink("PREBUFFERING") \in SinkTypes /\ ~Sink("PREBUFFERING").active
        /\ Sink("PREBUFFERING").underruns = 0 /\ Sink("PREBUFFERING").queued = 0
        /\ Sink("PREBUFFERING").clock = "PREBUFFERING" /\ ~Sink("PREBUFFERING").eos
    BY FreshTypes DEF Sink
  <1>5. ahi \in SinkTypes /\ ~ahi.active /\ ahi.underruns = 0
    BY <1>1, <1>3 DEF SinkOK, FilmTypes
  <1>6. ahi' \in SinkTypes /\ ~ahi'.active /\ ahi'.underruns = 0
    BY <1>2, <1>4, <1>5
  <1>7. FilmTypes'
    BY <1>1, <1>2, <1>6, PollReads DEF FilmTypes
  <1>8. ahi'.queued = ahi.queued
    <2>1. CASE ~sound.prepared
      <3>1. sound.copied = 0
        <4>1. sound.copied \in Nat /\ sound.produced \in Nat
          BY <1>1 DEF FilmTypes, SoundTypes
        <4>2. sound.copied <= sound.produced /\ ~(sound.produced > 0)
          BY <1>1, <2>1 DEF SoundOK
        <4>3. QED
          BY <4>1, <4>2
      <3>2. QED
        BY <1>1, <1>2, <1>3, <1>4, <3>1, NothingCopied
    <2>2. CASE sound.prepared
      BY <1>2, <2>2
    <2>3. QED
      BY <2>1, <2>2
  <1>9. SlotsOK'
    BY <1>1, <1>2, <1>8, PollReads, SlotsStay
  <1>10. SinkOK'
    <2>1. heard' = 0 /\ ~sound'.started /\ ~sound'.draining
      BY <1>1, <1>2, <1>3, PollReads DEF SinkOK
    <2>2. ahi'.clock = IF sound'.prepared /\ sound'.backend = "AHI"
                       THEN "PREBUFFERING" ELSE "CLOSED"
      <3>1. ahi.clock = "CLOSED"
        BY <1>1, <1>3 DEF SinkOK
      <3>2. sound.prepared => sound.backend # "AHI"
        OBVIOUS
      <3>3. QED
        BY <1>2, <1>4, <3>1, <3>2, PollReads
    <2>3. QED
      BY <1>6, <2>1, <2>2 DEF SinkOK
  <1>11. CountOK'
    <2>1. ahi'.active <=> ahi.active
      BY <1>5, <1>6
    <2>2. Total' = Total /\ Reported' = Reported
      BY <1>2, <1>5, <1>6, SameFilm DEF Reported
    <2>3. QED
      BY <1>1, <1>2, <1>5, <1>6, <2>2, PollReads DEF CountOK
  <1>12. QED
    BY <1>7, <1>9, <1>10, <1>11

LEMMA PollKeeps ==
    ASSUME FilmInv, Poll PROVE FilmInv'
  <1>1. FilmTypes' /\ SlotsOK' /\ SinkOK' /\ CountOK'
    BY Reaped, NotReaped
  <1>2. QED
    BY <1>1, PollMoves DEF FilmInv

---------------------------------------------------------------------------
\* The second half of the pump.

\* A free buffer gets n units, and is sent when AHI plays.
LEMMA SlotFilled ==
    ASSUME FilmTypes, SlotsOK, SinkOK, sound.prepared, sound.backend = "AHI",
           ahi.clock \in {"PREBUFFERING", "PLAYING"},
           NEW i \in FreeSlots, \A k \in FreeSlots : i <= k, NEW n \in Nat, n > 0,
           NEW ready, ready = [slots EXCEPT ![i] =
                                  [use |-> "ready", first |-> sound.copied + 1,
                                   size |-> n, left |-> n, linked |-> FALSE]],
           slots' = IF ahi.clock = "PLAYING" THEN Sent(ready) ELSE ready,
           sound'.copied = sound.copied + n, sound'.started = sound.started,
           ahi'.queued = ahi.queued + n, heard' = heard
    PROVE  slots' \in [Slots -> SlotTypes] /\ SlotsOK'
  <1> DEFINE j == 1 - i
             unit == sound.copied + 1
             full == [use |-> "ready", first |-> unit, size |-> n, left |-> n,
                      linked |-> FALSE]
  <1>1. /\ i \in Slots /\ j \in Slots /\ j # i /\ 1 - j = i /\ Slots = {i, j}
        /\ slots[i].use = "free" /\ i \in {0, 1} /\ j \in {0, 1}
    BY SlotsKnown DEF FreeSlots, Slots
  <1> HIDE DEF j
  <1>2. /\ slots[j] \in SlotTypes /\ slots[j].left \in Nat /\ slots[j].size \in Nat
        /\ slots[j].first \in Nat /\ slots[i].left \in Nat /\ slots[i].size \in Nat
        /\ slots[j].use \in {"free", "ready", "pending"} /\ slots[j].linked \in BOOLEAN
    BY <1>1, SlotsKnown
  <1>3. sound.copied \in Nat /\ unit \in Nat /\ heard \in Nat /\ ahi.queued \in Nat
    BY DEF FilmTypes, SoundTypes, SinkTypes
  <1>4. SlotOK(i) /\ SlotOK(j)
    BY <1>1 DEF SlotsOK
  <1>5. slots[i].size = 0 /\ slots[i].left = 0
    BY <1>1, <1>2, <1>4 DEF SlotOK
  <1>6. sound.started <=> ahi.clock = "PLAYING"
    BY DEF SinkOK
  <1>7. /\ heard + slots[j].left = sound.copied
        /\ ahi.queued = slots[j].size
    <2>1. heard + slots[i].left + slots[j].left = sound.copied
      BY <1>1, InEitherOrder DEF j
    <2>2. slots[0].size + slots[1].size = slots[j].size
      BY <1>1, <1>2, <1>5
    <2>3. QED
      BY <1>2, <1>3, <1>5, <2>1, <2>2 DEF SlotsOK
  <1>8. slots[j].left > 0 =>
          ~Behind(j) /\ slots[j].first + slots[j].size = heard + slots[j].left + 1
    BY <1>1, <1>4, <1>5, <1>2 DEF SlotOK, j
  <1>9. ready \in [Slots -> SlotTypes] /\ ready[i] = full /\ ready[j] = slots[j]
    <2>1. full \in SlotTypes
      BY <1>3 DEF SlotTypes
    <2>2. ready = [slots EXCEPT ![i] = full] /\ slots \in [Slots -> SlotTypes]
      BY DEF FilmTypes
    <2> HIDE DEF full
    <2>3. i \in Slots /\ j \in Slots /\ i # j
      BY <1>1
    <2>4. ready \in [Slots -> SlotTypes]
      BY <2>1, <2>2, <2>3
    <2>5. ready[i] = full /\ ready[j] = slots[j]
      BY <2>2, <2>3
    <2>6. QED
      BY <2>4, <2>5
  <1>10. /\ full.use = "ready" /\ full.first = unit /\ full.size = n /\ full.left = n
         /\ ~full.linked /\ full \in SlotTypes
    BY <1>3 DEF SlotTypes
  <1> HIDE DEF full, unit
  <1>11. /\ slots' \in [Slots -> SlotTypes] /\ slots'[j] = slots[j]
         /\ slots'[i].first = unit /\ slots'[i].size = n /\ slots'[i].left = n
         /\ slots'[i].use = IF sound.started THEN "pending" ELSE "ready"
         /\ slots'[i].linked => sound.started /\ slots[j].left > 0
         /\ sound.started /\ slots[j].left > 0 => slots'[i].linked
    <2>1. CASE ahi.clock # "PLAYING"
      BY <1>1, <1>6, <1>9, <1>10, <2>1
    <2>2. CASE ahi.clock = "PLAYING"
      <3> DEFINE tied == \/ Unplayed(ready[j])
                         \/ i = 1 /\ ready[0].use = "ready"
      <3>1. slots[j].use # "ready"
        BY <1>1, <1>6, <2>2, StartedIsSent
      <3>2. slots' = Sent(ready)
        BY <2>2
      <3>3. tied \in BOOLEAN
        OBVIOUS
      <3>4. slots'[j] = slots[j] /\ slots'[i] = [full EXCEPT !.use = "pending", !.linked = tied]
        <4>1. slots'[j] = slots[j]
          BY <1>1, <1>9, <3>1, <3>2 DEF Sent
        <4>2. slots'[i] = [ready[i] EXCEPT !.use = "pending", !.linked = tied]
          BY <1>1, <1>9, <1>10, <3>2 DEF Sent, j
        <4>3. QED
          BY <1>9, <4>1, <4>2
      <3>5. tied <=> slots[j].left > 0
        <4>1. i = 1 => ready[0].use # "ready"
          BY <1>1, <1>9, <3>1
        <4>2. slots[j].left > 0 => slots[j].use = "pending"
          BY <1>2, <1>4, <3>1 DEF SlotOK
        <4>3. QED
          BY <1>2, <1>9, <4>1, <4>2 DEF Unplayed
      <3> HIDE DEF tied
      <3>6. /\ [full EXCEPT !.use = "pending", !.linked = tied] \in SlotTypes
            /\ slots'[i].first = unit /\ slots'[i].size = n /\ slots'[i].left = n
            /\ slots'[i].use = "pending" /\ (slots'[i].linked <=> tied)
        <4> DEFINE gone == [full EXCEPT !.use = "pending", !.linked = tied]
        <4>1. gone \in SlotTypes /\ gone.use = "pending" /\ gone.linked = tied
              /\ gone.first = full.first /\ gone.size = full.size /\ gone.left = full.left
          BY <1>10, <3>3 DEF SlotTypes
        <4> HIDE DEF gone
        <4>2. slots'[i] = gone
          BY <3>4 DEF gone
        <4>3. QED
          BY <1>10, <4>1, <4>2 DEF gone
      <3>7. slots' \in [Slots -> SlotTypes]
        <4>1. slots' = [k \in Slots |-> slots'[k]]
          BY <3>2 DEF Sent
        <4>2. \A k \in Slots : slots'[k] \in SlotTypes
          BY <1>1, <1>2, <3>4, <3>6
        <4>3. QED
          BY <4>1, <4>2
      <3>8. QED
        BY <1>6, <2>2, <3>4, <3>5, <3>6, <3>7
    <2>3. QED
      BY <2>1, <2>2
  <1>12. slots[j].use = "ready" => i = 1 /\ j = 0 /\ ~sound.started
    BY <1>1, <1>4 DEF SlotsOK, SlotOK
  <1>13. slots[j].use # "ready" /\ ~sound.started => slots[j].use = "free" /\ i = 0
    <2>1. slots[j].use # "ready" /\ ~sound.started => slots[j].use = "free"
      BY <1>2, <1>4 DEF SlotOK
    <2>2. slots[j].use = "free" => i <= j
      BY <1>1 DEF FreeSlots
    <2>3. QED
      BY <1>1, <2>1, <2>2
  <1>14. Behind(j)' <=> slots[j].linked
    <2>1. j = 1 => slots'[1].use # "ready" \/ slots'[0].use # "ready"
      BY <1>1, <1>11, <1>12
    <2>2. QED
      BY <1>1, <1>11, <2>1 DEF Behind, Slots
  <1>15. ~slots[j].linked
    BY <1>2, <1>4, <1>8 DEF SlotOK, Behind
  <1>16. Behind(i)' <=> slots[j].left > 0
    <2>1. CASE sound.started
      <3>1. slots'[i].use # "ready"
        BY <1>11, <2>1
      <3>2. QED
        BY <1>1, <1>11, <2>1, <3>1 DEF Behind
    <2>2. CASE ~sound.started /\ slots[j].use = "ready"
      <3>1. slots[j].left > 0
        BY <1>2, <1>4, <2>2 DEF SlotOK
      <3>2. \A k \in Slots : slots'[k].use = "ready"
        BY <1>1, <1>11, <2>2
      <3>3. QED
        BY <1>12, <2>2, <3>1, <3>2 DEF Behind
    <2>3. CASE ~sound.started /\ slots[j].use # "ready"
      <3>1. slots[j].use = "free" /\ i = 0
        BY <1>13, <2>3
      <3>2. slots[j].left = 0 /\ ~slots'[i].linked
        BY <1>2, <1>4, <1>11, <2>3, <3>1 DEF SlotOK
      <3>3. QED
        BY <3>1, <3>2 DEF Behind
    <2>4. QED
      BY <2>1, <2>2, <2>3
  <1>17. SlotOK(i)'
    <2>1. /\ slots'[i].left > 0 /\ slots'[i].left = slots'[i].size /\ slots'[i].use # "free"
          /\ slots'[i].use = "ready" => ~sound.started /\ ~slots'[i].linked
          /\ slots'[i].use = "pending" => sound.started
      BY <1>11
    <2>2. slots[j].left = 0 => slots'[i].first + slots'[i].size = heard + slots'[i].left + 1
      BY <1>2, <1>3, <1>7, <1>11 DEF unit
    <2>3. slots'[i].first = heard + slots[j].left + 1
      BY <1>2, <1>3, <1>7, <1>11 DEF unit
    <2>4. slots'[1 - i].left = slots[j].left /\ (Behind(1 - i)' <=> Behind(j)')
      BY <1>11 DEF j
    <2>5. slots'[i].left <= slots'[i].size /\ slots'[i].size > 0
      BY <1>11
    <2>6. QED
      BY <1>2, <1>14, <1>15, <1>16, <2>1, <2>2, <2>3, <2>4, <2>5 DEF SlotOK
  <1>18. SlotOK(j)'
    <2>1. slots'[1 - j].left > 0 /\ (Behind(1 - j)' <=> Behind(i)')
      BY <1>1, <1>11
    <2>2. slots'[j] = slots[j]
      BY <1>11
    <2>3. QED
      BY <1>2, <1>4, <1>8, <1>14, <1>15, <1>16, <2>1, <2>2 DEF SlotOK
  <1>19. heard' + slots'[0].left + slots'[1].left = sound'.copied
         /\ ahi'.queued = slots'[0].size + slots'[1].size
    <2>1. heard + slots[j].left + n = sound.copied + n /\ heard + n + slots[j].left = sound.copied + n
          /\ ahi.queued + n = slots[j].size + n /\ slots[j].size + n = n + slots[j].size
      BY <1>2, <1>3, <1>7
    <2>2. QED
      BY <1>1, <1>11, <2>1
  <1>20. slots'[1].use = "ready" => slots'[0].use = "ready"
    BY <1>1, <1>11, <1>12, <1>13
  <1>21. QED
    BY <1>1, <1>11, <1>17, <1>18, <1>19, <1>20 DEF SlotsOK

\* A pass goes on after the pump.
LEMMA PumpedPlaces ==
    ASSUME FilmInv, step \in {"poll", "fill"}
    PROVE  /\ Pumped \in {"drain", "retire", "finish", "feed"}
           /\ Pumped = "drain" <=> core = "DRAINING"
           /\ Pumped = "finish" => done
           /\ core # "PAUSED"
  <1>1. core # "PAUSED"
    BY DEF FilmInv, PlacesOK
  <1>2. QED
    BY <1>1 DEF Pumped

\* What the copy of a period does to the rest.
LEMMA CopyKeeps ==
    ASSUME ZzplayAssumption, FilmInv, step = "fill",
           NEW n \in Nat, n > 0, n <= Available,
           slots' \in [Slots -> SlotTypes], SlotsOK',
           ahi.clock \in {"PREBUFFERING", "PLAYING"},
           ahi' = [ahi EXCEPT !.queued = @ + n, !.submitted = @ + n, !.active = FALSE],
           sound' = [sound EXCEPT !.copied = @ + n, !.produced = card.produced],
           card' = [card EXCEPT !.acked = sound.copied + n],
           UNCHANGED <<film, step, core, feed, frame, done, since, loops,
                       under, pauses, busy, heard, inOrder, gaps, stalled>>
    PROVE  FilmInv'
  <1>1. FilmTypes /\ PlacesOK /\ StreamOK /\ SoundOK /\ SinkOK /\ SlotsOK /\ CountOK /\ inOrder
        /\ sound.backend = "AHI" /\ sound.prepared /\ core # "PAUSED"
    BY DEF FilmInv, PlacesOK
  <1>2. /\ sound \in SoundTypes /\ card \in CardTypes /\ ahi \in SinkTypes
        /\ sound.copied \in Nat /\ sound.produced \in Nat /\ card.produced \in Nat
        /\ ahi.queued \in Nat /\ ahi.submitted \in Nat /\ ahi.underruns \in Nat
        /\ card.acked \in Nat /\ under \in Nat /\ gaps \in Nat /\ heard \in Nat
    BY <1>1 DEF FilmTypes, SoundTypes, CardTypes, SinkTypes
  <1> DEFINE c == sound.copied + n
             q == ahi.queued + n
             s == ahi.submitted + n
  <1>3. c \in Nat /\ q \in Nat /\ s \in Nat /\ c > 0 /\ c <= sound.produced /\ sound.copied < c
    BY <1>2 DEF Available
  <1>4. sound.copied < sound.produced /\ sound.produced <= card.produced
        /\ card.produced > 0 /\ c <= card.produced
    BY <1>1, <1>2, <1>3 DEF SoundOK
  <1>5. /\ ahi' = [ahi EXCEPT !.queued = q, !.submitted = s, !.active = FALSE]
        /\ sound' = [sound EXCEPT !.copied = c, !.produced = card.produced]
        /\ card' = [card EXCEPT !.acked = c]
    OBVIOUS
  <1> HIDE DEF c, q, s
  <1>6. /\ sound' \in SoundTypes /\ sound'.copied = c /\ sound'.produced = card.produced
        /\ sound'.backend = sound.backend /\ sound'.prepared = sound.prepared
        /\ sound'.started = sound.started /\ sound'.draining = sound.draining
        /\ sound'.refresh = sound.refresh
    BY <1>2, <1>3, <1>5 DEF SoundTypes
  <1>7. /\ card' \in CardTypes /\ card'.has = card.has /\ card'.at = card.at
        /\ card'.closed = card.closed /\ card'.produced = card.produced /\ card'.acked = c
    BY <1>2, <1>3, <1>5 DEF CardTypes
  <1>8. /\ ahi' \in SinkTypes /\ ahi'.clock = ahi.clock /\ ~ahi'.active
        /\ ahi'.underruns = ahi.underruns /\ ahi'.eos = ahi.eos
    <2>1. ahi \in SinkTypes /\ q \in Nat /\ s \in Nat
      BY <1>2, <1>3
    <2>2. /\ ahi'.clock = ahi.clock /\ ahi'.underruns = ahi.underruns /\ ahi'.eos = ahi.eos
          /\ ahi'.active = FALSE
      BY <1>5, <2>1 DEF SinkTypes
    <2>3. ahi' \in SinkTypes
      BY <1>5, <2>1 DEF SinkTypes
    <2>4. QED
      BY <2>2, <2>3
  <1>9. FilmTypes'
    BY <1>1, <1>6, <1>7, <1>8 DEF FilmTypes
  <1>10. PlacesOK'
    BY <1>1, <1>6 DEF PlacesOK
  <1>11. StreamOK'
    <2>1. core' = "DRAINING" => done
      BY <1>1 DEF StreamOK
    <2>2. QED
      BY <1>1, <1>7, <2>1, StreamStays
  <1>12. SoundOK'
    BY <1>1, <1>2, <1>3, <1>4, <1>6, <1>7 DEF SoundOK
  <1>13. SinkOK'
    <2>1. ~sound.draining
      BY <1>1, <1>2, <1>4 DEF SinkOK
    <2>2. QED
      BY <1>1, <1>3, <1>6, <1>8, <2>1 DEF SinkOK
  <1>14. CountOK'
    <2>1. sound.copied < Total
      <3>1. card.produced = SoundUpTo(card.at) /\ card.at \in Nat /\ film \in Films
        BY <1>1, <1>2 DEF StreamOK, FilmTypes, CardTypes
      <3>2. SoundUpTo(card.at) <= Total /\ Total \in Nat
        BY <3>1, SoundIsFinite
      <3>3. QED
        BY <1>2, <1>4, <3>1, <3>2
    <2>2. Reported <= gaps
      BY <1>1, <2>1 DEF CountOK
    <2>3. heard <= sound.copied
      <3>1. 0 \in Slots /\ slots[0].left \in Nat /\ slots[1 - 0].left \in Nat
        BY <1>1, SlotsKnown DEF Slots
      <3>2. heard + slots[0].left + slots[1 - 0].left = sound.copied
        BY <1>1, <3>1, InEitherOrder
      <3>3. QED
        BY <1>2, <3>1, <3>2
    <2>4. heard' # sound'.copied
      BY <1>2, <1>3, <1>6, <2>3
    <2>5. Reported' = Reported
      BY <1>8 DEF Reported
    <2>6. QED
      BY <1>8, <2>2, <2>4, <2>5 DEF CountOK
  <1>15. QED
    BY <1>1, <1>9, <1>10, <1>11, <1>12, <1>13, <1>14 DEF FilmInv

LEMMA FillKeeps ==
    ASSUME ZzplayAssumption, FilmInv, Fill PROVE FilmInv'
  <1>1. FilmTypes /\ PlacesOK /\ StreamOK /\ SoundOK /\ SinkOK /\ SlotsOK /\ CountOK /\ inOrder
        /\ sound.backend = "AHI" /\ sound.prepared /\ core # "PAUSED" /\ step = "fill"
    BY DEF FilmInv, PlacesOK, Fill
  <1>2. CASE /\ step' = Pumped
             /\ UNCHANGED <<stream, core, sound, sink, loops, under, user, ear>>
    <2>1. UNCHANGED <<film, core, feed, card, frame, done, sound, slots, ahi, since, loops,
                      under, pauses, busy, heard, inOrder, gaps, stalled>>
      BY <1>2 DEF stream, sink, user, ear
    <2>2. /\ step' \in {"drain", "retire", "finish", "feed"}
          /\ step' = "drain" <=> core = "DRAINING"
          /\ step' = "finish" => done
      BY <1>1, <1>2, PumpedPlaces
    <2>3. FilmTypes'
      BY <1>1, <2>1 DEF FilmTypes
    <2>4. PlacesOK'
      BY <1>1, <2>1, <2>2 DEF PlacesOK, Passing, Draining
    <2>5. StreamOK' /\ SinkOK' /\ SlotsOK' /\ CountOK'
      BY <1>1, <2>1, <2>2, StreamStays, SinkStays, SlotsStay, CountStays DEF StreamOK
    <2>6. SoundOK'
      BY <1>1, <2>1, <2>2 DEF SoundOK
    <2>7. QED
      BY <1>1, <2>1, <2>2, <2>3, <2>4, <2>5, <2>6 DEF FilmInv
  <1>3. CASE Quit("ERROR")
    BY <1>3, QuitKeeps
  <1> DEFINE i == CHOOSE j \in FreeSlots : \A k \in FreeSlots : j <= k
             n == Smaller(Available, FilmPeriod)
             ready == [slots EXCEPT ![i] = [use |-> "ready", first |-> sound.copied + 1,
                                            size |-> n, left |-> n, linked |-> FALSE]]
  <1>4. CASE /\ Available > 0 /\ FreeSlots # {}
             /\ ahi.clock \in {"PREBUFFERING", "PLAYING", "PAUSED"}
             /\ slots' = IF ahi.clock = "PLAYING" THEN Sent(ready) ELSE ready
             /\ ahi' = [ahi EXCEPT !.queued = @ + n, !.submitted = @ + n, !.active = FALSE]
             /\ sound' = [sound EXCEPT !.copied = @ + n, !.produced = card.produced]
             /\ card' = [card EXCEPT !.acked = sound.copied + n]
             /\ UNCHANGED <<film, step, core, feed, frame, done, since, loops,
                            under, user, ear>>
    <2>1. i \in FreeSlots /\ \A k \in FreeSlots : i <= k
      <3>1. FreeSlots \subseteq {0, 1} /\ FreeSlots # {}
        BY <1>4 DEF FreeSlots, Slots
      <3>2. \E j \in FreeSlots : \A k \in FreeSlots : j <= k
        <4>1. CASE 0 \in FreeSlots
          BY <3>1, <4>1
        <4>2. CASE 0 \notin FreeSlots
          <5>1. FreeSlots = {1}
            BY <3>1, <4>2
          <5>2. QED
            BY <5>1
        <4>3. QED
          BY <4>1, <4>2
      <3>3. QED
        BY <3>2
    <2> HIDE DEF i
    <2>2. n \in Nat /\ n > 0 /\ n <= Available
      <3>1. Available \in Int /\ FilmPeriod \in Nat \ {0} /\ Available > 0
        BY <1>1, <1>4, ItemsKnown DEF Available, FilmTypes, SoundTypes
      <3>2. QED
        BY <3>1 DEF Smaller
    <2> HIDE DEF n
    <2>3. ahi.clock \in {"PREBUFFERING", "PLAYING"}
      BY <1>1, <1>4 DEF SinkOK
    <2>4. UNCHANGED <<film, step, core, feed, frame, done, since, loops, under, pauses, busy,
                      heard, inOrder, gaps, stalled>>
      BY <1>4 DEF user, ear
    <2>5. /\ sound'.copied = sound.copied + n /\ sound'.started = sound.started
          /\ ahi'.queued = ahi.queued + n
      BY <1>1, <1>4 DEF FilmTypes, SoundTypes, SinkTypes
    <2>6. slots' \in [Slots -> SlotTypes] /\ SlotsOK'
      BY <1>1, <1>4, <2>1, <2>2, <2>3, <2>4, <2>5, SlotFilled
    <2>7. QED
      BY <1>1, <1>4, <2>2, <2>3, <2>4, <2>6, CopyKeeps
  <1>5. QED
    BY <1>2, <1>3, <1>4 DEF Fill

---------------------------------------------------------------------------
\* The buffers are sent when the sink starts.

\* Sound begins to play: buffers that are ready are pending from now on, the second
\* one linked to the first.
LEMMA StartKeeps ==
    ASSUME FilmTypes, SoundOK, SinkOK, SlotsOK, CountOK, ~sound.started, sound.prepared,
           sound.backend = "AHI", ahi.queued > 0,
           slots' = Sent(slots), heard' = heard, sound'.copied = sound.copied,
           sound'.started, ahi'.queued = ahi.queued
    PROVE  slots' \in [Slots -> SlotTypes] /\ SlotsOK' /\ sound.copied > 0
           /\ \A i \in Slots : slots[i].use = "free" => slots'[i].use = "free"
  <1>1. heard = 0 /\ heard \in Nat /\ 0 \in Slots /\ 1 \in Slots /\ Slots = {0, 1}
    BY DEF SinkOK, FilmTypes, Slots
  <1>2. ASSUME NEW i \in Slots
        PROVE  /\ slots[i] \in SlotTypes /\ slots[i].first \in Nat /\ slots[i].size \in Nat
               /\ slots[i].left \in Nat /\ slots[i].use \in {"free", "ready"}
               /\ slots[i].use = "ready" => slots[i].left = slots[i].size
                                            /\ slots[i].size > 0
               /\ slots[i].use = "free" => slots[i].left = 0 /\ slots[i].size = 0
               /\ ~slots[i].linked
    <2>1. SlotOK(i) /\ slots[i].left \in Nat /\ slots[i].size \in Nat /\ slots[i].first \in Nat
          /\ slots[i] \in SlotTypes /\ slots[i].use \in {"free", "ready", "pending"}
      BY SlotsKnown DEF SlotsOK
    <2>2. slots[i].use \in {"free", "ready"}
      BY <2>1 DEF SlotOK
    <2>3. slots[i].use = "free" => slots[i].left = 0 /\ slots[i].size = 0
      BY <2>1 DEF SlotOK
    <2>4. QED
      BY <2>1, <2>2, <2>3 DEF SlotOK
  <1>3. slots[1].use = "ready" => slots[0].use = "ready"
    BY DEF SlotsOK
  <1>4. slots[0].left + slots[1].left = sound.copied
        /\ ahi.queued = slots[0].size + slots[1].size
    <2>1. heard + slots[0].left + slots[1].left = sound.copied
          /\ ahi.queued = slots[0].size + slots[1].size
      BY DEF SlotsOK
    <2>2. slots[0].left \in Nat /\ slots[1].left \in Nat
      BY <1>1, <1>2
    <2>3. QED
      BY <1>1, <2>1, <2>2
  <1>5. slots[0].use = "ready"
    <2>1. CASE slots[0].use = "free"
      <3>1. slots[1].use = "free"
        BY <1>1, <1>2, <1>3, <2>1
      <3>2. slots[0].size = 0 /\ slots[1].size = 0
        BY <1>1, <1>2, <2>1, <3>1
      <3>3. QED
        BY <1>4, <3>2
    <2>2. QED
      BY <1>1, <1>2, <2>1
  <1>6. /\ slots[0].first + slots[0].size = slots[0].left + 1
        /\ slots[1].use = "ready" => slots[1].first = slots[0].left + 1
    <2>1. ~Behind(0) /\ SlotOK(0) /\ SlotOK(1)
      BY <1>1, <1>2 DEF Behind, SlotsOK
    <2>2. slots[1].use = "ready" => Behind(1)
      BY <1>1, <1>5 DEF Behind
    <2>3. slots[0].left > 0
      BY <1>1, <1>2, <1>5
    <2>4. slots[0].first + slots[0].size = heard + slots[0].left + 1
      BY <2>1, <2>3 DEF SlotOK
    <2>5. slots[1].use = "ready" => slots[1].first = heard + slots[0].left + 1
      BY <1>1, <1>2, <2>1, <2>2 DEF SlotOK
    <2>6. QED
      BY <1>1, <1>2, <2>4, <2>5
  <1>7. sound.copied > 0
    BY <1>1, <1>2, <1>4, <1>5
  <1> DEFINE all(i) == [slots[i] EXCEPT !.use = "pending", !.linked = (i = 1)]
  <1>8. /\ slots'[0] = all(0)
        /\ slots'[1] = IF slots[1].use = "ready" THEN all(1) ELSE slots[1]
    <2>1. \A i \in Slots : ~Unplayed(slots[1 - i])
      <3>1. \A i \in Slots : 1 - i \in Slots
        BY SlotsKnown
      <3>2. QED
        BY <1>2, <3>1 DEF Unplayed
    <2> DEFINE tie(i) == Unplayed(slots[1 - i]) \/ (i = 1 /\ slots[0].use = "ready")
    <2>2. \A i \in Slots : (tie(i)) = (i = 1)
      BY <1>5, <2>1
    <2>3. \A i \in Slots : slots[i].use = "ready" =>
              slots'[i] = [slots[i] EXCEPT !.use = "pending", !.linked = tie(i)]
      BY DEF Sent
    <2>4. \A i \in Slots : slots[i].use # "ready" => slots'[i] = slots[i]
      BY DEF Sent
    <2> HIDE DEF tie
    <2>5. \A i \in Slots : slots[i].use = "ready" => slots'[i] = all(i)
      BY <2>2, <2>3
    <2> HIDE DEF all
    <2>6. QED
      BY <1>1, <1>5, <2>4, <2>5
  <1>9. ASSUME NEW i \in Slots
        PROVE  /\ all(i) \in SlotTypes /\ all(i).use = "pending" /\ (all(i).linked <=> i = 1)
               /\ all(i).first = slots[i].first /\ all(i).size = slots[i].size
               /\ all(i).left = slots[i].left
    <2> DEFINE one == slots[i]
               tied == i = 1
    <2>1. one \in SlotTypes /\ tied \in BOOLEAN
      BY <1>2
    <2> HIDE DEF one, tied
    <2>2. LET sent == [one EXCEPT !.use = "pending", !.linked = tied]
          IN  /\ sent \in SlotTypes /\ sent.use = "pending" /\ sent.linked = tied
              /\ sent.first = one.first /\ sent.size = one.size /\ sent.left = one.left
      BY <2>1 DEF SlotTypes
    <2>3. QED
      BY <2>2 DEF one, tied
  <1> HIDE DEF all
  <1>10. /\ slots'[0] \in SlotTypes /\ slots'[0].use = "pending" /\ ~slots'[0].linked
         /\ slots'[0].first = slots[0].first /\ slots'[0].size = slots[0].size
         /\ slots'[0].left = slots[0].left
    BY <1>1, <1>8, <1>9
  <1>11. /\ slots'[1] \in SlotTypes
         /\ slots'[1].use = IF slots[1].use = "ready" THEN "pending" ELSE "free"
         /\ slots'[1].linked <=> slots[1].use = "ready"
         /\ slots'[1].first = slots[1].first /\ slots'[1].size = slots[1].size
         /\ slots'[1].left = slots[1].left
    <2>1. CASE slots[1].use = "ready"
      BY <1>1, <1>8, <1>9, <2>1
    <2>2. CASE slots[1].use # "ready"
      BY <1>1, <1>2, <1>8, <2>2
    <2>3. QED
      BY <2>1, <2>2
  <1>12. slots' \in [Slots -> SlotTypes]
    <2>1. slots' = [k \in Slots |-> slots'[k]]
      BY DEF Sent
    <2>2. \A k \in Slots : slots'[k] \in SlotTypes
      BY <1>1, <1>10, <1>11
    <2>3. QED
      BY <2>1, <2>2
  <1>13. ~Behind(0)' /\ (Behind(1)' <=> slots[1].use = "ready")
    BY <1>1, <1>10, <1>11 DEF Behind
  <1>14. SlotOK(0)'
    <2>1. slots'[0].left > 0 /\ slots'[0].left = slots'[0].size
          /\ slots'[0].first + slots'[0].size = heard' + slots'[0].left + 1
          /\ slots'[0].left <= slots'[0].size /\ slots'[0].size > 0
      BY <1>1, <1>2, <1>5, <1>6, <1>10
    <2>2. slots'[1].left > 0 => Behind(1)'
      BY <1>1, <1>2, <1>11, <1>13
    <2>3. QED
      BY <1>10, <1>13, <2>1, <2>2 DEF SlotOK
  <1>15. SlotOK(1)'
    <2>1. CASE slots[1].use = "ready"
      <3>1. /\ slots'[1].left > 0 /\ slots'[1].left = slots'[1].size
            /\ slots'[1].first = heard' + slots'[0].left + 1 /\ slots'[0].left > 0
            /\ slots'[1].left <= slots'[1].size /\ slots'[1].size > 0
            /\ slots'[1].use = "pending"
        BY <1>1, <1>2, <1>5, <1>6, <1>10, <1>11, <2>1
      <3>2. QED
        BY <1>13, <2>1, <3>1 DEF SlotOK
    <2>2. CASE slots[1].use # "ready"
      <3>1. /\ slots'[1].left = 0 /\ slots'[1].size = 0 /\ slots'[1].use = "free"
            /\ ~slots'[1].linked
        BY <1>1, <1>2, <1>11, <2>2
      <3>2. QED
        BY <3>1 DEF SlotOK
    <2>3. QED
      BY <2>1, <2>2
  <1>16. heard' + slots'[0].left + slots'[1].left = sound'.copied
         /\ ahi'.queued = slots'[0].size + slots'[1].size
    <2>1. heard + slots[0].left + slots[1].left = sound.copied
      BY DEF SlotsOK
    <2>2. QED
      BY <1>4, <1>10, <1>11, <2>1
  <1>17. SlotsOK'
    BY <1>1, <1>10, <1>11, <1>14, <1>15, <1>16 DEF SlotsOK
  <1>18. ASSUME NEW i \in Slots, slots[i].use = "free"
         PROVE  slots'[i].use = "free"
    BY <1>1, <1>5, <1>11, <1>18
  <1>19. QED
    BY <1>7, <1>12, <1>17, <1>18

\* To send is nothing while the sink runs: all that is ready has been sent.
LEMMA NothingToSend ==
    ASSUME FilmTypes, SlotsOK, sound.started
    PROVE  Sent(slots) = slots
  <1>1. \A i \in Slots : slots[i].use # "ready"
    BY StartedIsSent
  <1>2. slots = [i \in Slots |-> slots[i]]
    BY DEF FilmTypes
  <1>3. Sent(slots) = [i \in Slots |-> slots[i]]
    BY <1>1 DEF Sent
  <1>4. QED
    BY <1>2, <1>3

---------------------------------------------------------------------------
\* zzplay_retire_held_frame.

LEMMA TwoSlots == Cardinality(Slots) = 2
  <1>1. IsFiniteSet({0}) /\ Cardinality({0}) = 1
    BY FS_Singleton
  <1>2. Slots = {0} \cup {1} /\ 1 \notin {0}
    BY DEF Slots
  <1>3. Cardinality({0} \cup {1}) = Cardinality({0}) + 1
    BY <1>1, <1>2, FS_AddElement
  <1>4. QED
    BY <1>1, <1>2, <1>3

\* The sound goes to AHI: none of it had been copied.
LEMMA FallbackKeeps ==
    ASSUME FilmInv, step # "ended", step' \notin {"look", "ended"}, Fallback,
           sound.backend = "AX", sound.prepared, step = "drain" \/ core # "DRAINING",
           UNCHANGED <<film, core, card, under, heard, gaps>>
    PROVE  /\ sound' \in SoundTypes /\ ahi' \in SinkTypes /\ sound'.backend = "AHI"
           /\ SoundOK' /\ SinkOK' /\ SlotsOK' /\ CountOK' /\ UNCHANGED <<slots, since>>
  <1>1. FilmTypes /\ PlacesOK /\ SoundOK /\ SinkOK /\ SlotsOK /\ CountOK
    BY DEF FilmInv
  <1>2. /\ sound' = [sound EXCEPT !.backend = "AHI", !.copied = card.acked,
                                  !.refresh = @ \/ core = "DRAINING"]
        /\ ahi' = Sink("PREBUFFERING") /\ UNCHANGED <<slots, since>>
    BY DEF Fallback
  <1>3. card.acked = 0 /\ sound.copied = 0 /\ ~sound.started
    BY <1>1 DEF SoundOK, SinkOK
  <1>4. /\ sound' \in SoundTypes /\ sound'.backend = "AHI" /\ sound'.copied = 0
        /\ sound'.produced = sound.produced /\ sound'.prepared = sound.prepared
        /\ sound'.started = sound.started /\ sound'.draining = sound.draining
    <2> DEFINE r == sound.refresh \/ core = "DRAINING"
    <2>1. sound' = [sound EXCEPT !.backend = "AHI", !.copied = 0, !.refresh = r]
      BY <1>2, <1>3
    <2>2. r \in BOOLEAN /\ sound \in SoundTypes
      BY <1>1 DEF FilmTypes, SoundTypes
    <2> HIDE DEF r
    <2>3. QED
      BY <2>1, <2>2 DEF SoundTypes
  <1>5. /\ ahi' \in SinkTypes /\ ahi'.clock = "PREBUFFERING" /\ ahi'.queued = 0
        /\ ~ahi'.active /\ ahi'.underruns = 0 /\ ~ahi'.eos
    BY <1>2, FreshTypes DEF Sink
  <1>6. ahi.queued = 0 /\ ~ahi.active /\ ahi.underruns = 0
    BY <1>1, <1>3, NothingCopied DEF SinkOK
  <1>7. SoundOK'
    <2>1. core = "DRAINING" => sound.produced = card.produced
      BY <1>1 DEF SoundOK
    <2>2. sound.produced <= card.produced /\ 0 <= sound.produced
          /\ (sound.prepared <=> sound.produced > 0)
      BY <1>1 DEF SoundOK, FilmTypes, SoundTypes
    <2>3. QED
      BY <1>3, <1>4, <2>1, <2>2 DEF SoundOK
  <1>8. SinkOK'
    BY <1>1, <1>3, <1>4, <1>5 DEF SinkOK
  <1>9. SlotsOK'
    BY <1>1, <1>2, <1>3, <1>4, <1>5, <1>6, SlotsStay
  <1>10. CountOK'
    <2>1. (ahi'.active <=> ahi.active) /\ Reported' = Reported /\ Total' = Total
      BY <1>5, <1>6, SameFilm DEF Reported
    <2>2. QED
      BY <1>1, <1>2, <1>3, <1>4, <1>6, <2>1 DEF CountOK
  <1>11. QED
    BY <1>2, <1>4, <1>5, <1>7, <1>8, <1>9, <1>10

LEMMA RetireFrameKeeps ==
    ASSUME ZzplayAssumption, FilmInv, RetireFrame PROVE FilmInv'
  <1>1. FilmTypes /\ PlacesOK /\ StreamOK /\ SoundOK /\ SinkOK /\ SlotsOK /\ CountOK /\ inOrder
        /\ step = "retire" /\ core \notin {"DRAINING", "PAUSED"}
    BY DEF FilmInv, PlacesOK, RetireFrame
  <1>2. /\ step' = "control"
        /\ UNCHANGED <<film, core, feed, card, done, loops, under, pauses, heard, inOrder,
                       gaps, stalled>>
    BY DEF RetireFrame, ear
  <1>3. /\ sound \in SoundTypes /\ ahi \in SinkTypes /\ ahi.shown \in Nat
        /\ ahi.played \in Nat /\ busy \in Nat
    BY <1>1 DEF FilmTypes, SinkTypes
  <1>4. busy' \in Nat
    BY <1>3 DEF RetireFrame, Retire
  <1>5. PlacesOK' /\ StreamOK'
    <2>1. StreamOK'
      BY <1>1, <1>2, StreamStays
    <2>2. QED
      BY <1>1, <1>2, <2>1 DEF PlacesOK, Passing
  <1>6. SUFFICES /\ sound' \in SoundTypes /\ ahi' \in SinkTypes /\ since' \in Nat
                 /\ slots' \in [Slots -> SlotTypes]
                 /\ SoundOK' /\ SinkOK' /\ SlotsOK' /\ CountOK'
    BY <1>1, <1>2, <1>4, <1>5 DEF FilmInv, FilmTypes
  <1>7. CASE Starts /\ sound.backend = "AX" /\ Fallback
    <2>1. sound.prepared
      BY <1>7 DEF Starts
    <2>2. /\ sound' \in SoundTypes /\ ahi' \in SinkTypes
          /\ SoundOK' /\ SinkOK' /\ SlotsOK' /\ CountOK' /\ UNCHANGED <<slots, since>>
      BY <1>1, <1>2, <1>7, <2>1, FallbackKeeps
    <2>3. QED
      BY <1>1, <2>2 DEF FilmTypes
  <1>8. CASE Starts /\ sound.backend = "AHI" /\ Play /\ sound' = [sound EXCEPT !.started = TRUE]
    <2> DEFINE s == Larger(ahi.shown, ahi.played)
    <2>1. s \in Nat
      BY <1>3 DEF Larger
    <2>2. ahi' = [ahi EXCEPT !.clock = "PLAYING", !.shown = s] /\ slots' = Sent(slots)
          /\ since' = 0
      BY <1>8 DEF Play
    <2> HIDE DEF s
    <2>3. /\ ahi' \in SinkTypes /\ ahi'.clock = "PLAYING" /\ ahi'.queued = ahi.queued
          /\ ahi'.active = ahi.active /\ ahi'.underruns = ahi.underruns
          /\ ahi'.eos = ahi.eos
      BY <1>3, <2>1, <2>2 DEF SinkTypes
    <2>4. /\ sound' \in SoundTypes /\ sound'.started /\ sound'.backend = sound.backend
          /\ sound'.copied = sound.copied /\ sound'.produced = sound.produced
          /\ sound'.prepared = sound.prepared /\ sound'.draining = sound.draining
      BY <1>3, <1>8 DEF SoundTypes
    <2>5. ~sound.started /\ sound.prepared /\ ahi.queued >= FilmPeriod * 2
      BY <1>8, TwoSlots DEF Starts, StartReady
    <2>6. ahi.queued > 0
      <3>1. FilmPeriod \in Nat \ {0} /\ ahi.queued \in Nat
        BY <1>1, <1>3, ItemsKnown DEF SinkTypes, FilmTypes
      <3>2. QED
        BY <2>5, <3>1
    <2>7. slots' \in [Slots -> SlotTypes] /\ SlotsOK' /\ sound.copied > 0
          /\ \A i \in Slots : slots[i].use = "free" => slots'[i].use = "free"
      BY <1>1, <1>2, <1>8, <2>2, <2>3, <2>4, <2>5, <2>6, StartKeeps
    <2>8. SoundOK'
      BY <1>1, <1>2, <2>4 DEF SoundOK
    <2>9. SinkOK'
      BY <1>1, <1>2, <1>8, <2>3, <2>4, <2>5, <2>7 DEF SinkOK
    <2>10. CountOK'
      BY <1>1, <1>2, <2>3, <2>4, <2>7, CountStays
    <2>11. QED
      BY <2>2, <2>3, <2>4, <2>7, <2>8, <2>9, <2>10
  <1>9. CASE /\ ~Starts /\ sound.started
             /\ ahi' = [ahi EXCEPT !.shown = Presented] /\ since' = 0
             /\ UNCHANGED <<sound, slots>>
    <2>1. /\ ahi' \in SinkTypes /\ ahi'.clock = ahi.clock /\ ahi'.queued = ahi.queued
          /\ ahi'.active = ahi.active /\ ahi'.underruns = ahi.underruns
          /\ ahi'.eos = ahi.eos
      BY <1>1, <1>3, <1>9, PresentedIsNat DEF SinkTypes
    <2>2. SoundOK'
      BY <1>1, <1>2, <1>9 DEF SoundOK
    <2>3. SinkOK' /\ SlotsOK' /\ CountOK'
      BY <1>1, <1>2, <1>9, <2>1, SinkStays, SlotsStay, CountStays
    <2>4. QED
      BY <1>1, <1>9, <2>1, <2>2, <2>3 DEF FilmTypes
  <1>10. CASE ~Starts /\ ~sound.started /\ UNCHANGED <<sound, sink>>
    <2>1. UNCHANGED <<sound, slots, ahi, since>>
      BY <1>10 DEF sink
    <2>2. SoundOK'
      BY <1>1, <1>2, <2>1 DEF SoundOK
    <2>3. SinkOK' /\ SlotsOK' /\ CountOK'
      BY <1>1, <1>2, <2>1, SinkStays, SlotsStay, CountStays
    <2>4. QED
      BY <1>1, <2>1, <2>2, <2>3 DEF FilmTypes
  <1>11. QED
    BY <1>7, <1>8, <1>9, <1>10 DEF RetireFrame

---------------------------------------------------------------------------
\* The end of the film.

\* In the drain the card has decoded all there is.
LEMMA AllDecoded ==
    ASSUME ZzplayAssumption, FilmTypes, StreamOK, core = "DRAINING"
    PROVE  card.produced = Total
  <1>1. /\ feed.read = Len(film.items) /\ feed.pending = 0 /\ card.at = card.has
        /\ feed.read = feed.pending + card.has /\ card.produced = SoundUpTo(card.at)
    BY DEF StreamOK
  <1>2. film \in Films /\ card.has \in Nat
    BY DEF FilmTypes, CardTypes
  <1>3. card.at = Len(film.items)
    BY <1>1, <1>2
  <1>4. QED
    BY <1>1, <1>2, <1>3, SoundAtEnds

\* With nothing in the buffers, all that has been copied has been heard.
LEMMA NothingLeft ==
    ASSUME FilmTypes, SlotsOK, \A i \in Slots : slots[i].size = 0
    PROVE  heard = sound.copied
  <1>1. 0 \in Slots /\ 1 \in Slots
    BY DEF Slots
  <1>2. ASSUME NEW i \in Slots PROVE slots[i].left = 0
    BY <1>2, SlotsKnown DEF SlotsOK, SlotOK
  <1>3. heard + 0 + 0 = sound.copied /\ heard \in Nat
    BY <1>1, <1>2 DEF SlotsOK, FilmTypes
  <1>4. QED
    BY <1>3

\* zzplay_restart_session: a session begins anew, or the film is over.
LEMMA OverKeeps ==
    ASSUME ZzplayAssumption, FilmInv, step # "ended", Over, Reported <= gaps,
           heard = Total \/ stalled
    PROVE  FilmInv'
  <1>1. FilmTypes /\ PlacesOK /\ inOrder
    BY DEF FilmInv
  <1>2. CASE loops = 0
    BY <1>2, QuitKeeps DEF Over
  <1>3. CASE loops # 0
    <2>1. /\ loops' = loops - 1 /\ under' = Captured /\ core' = "PLAYING"
          /\ step' = "control" /\ feed' = FreshFeed /\ card' = FreshCard /\ done' = FALSE
          /\ sound' = FreshSound(sound.backend) /\ slots' = [i \in Slots |-> Empty]
          /\ ahi' = Sink("CLOSED") /\ since' = 0 /\ heard' = 0 /\ stalled' = FALSE
          /\ inOrder' = (inOrder /\ (heard = Total \/ stalled))
          /\ UNCHANGED <<film, frame, gaps, pauses, busy>>
      BY <1>3 DEF Over, user
    <2>2. sound.backend \in {"AX", "AHI"} /\ loops \in Nat /\ under \in Nat
          /\ ahi.underruns \in Nat /\ gaps \in Nat
      BY <1>1 DEF FilmTypes, SoundTypes, SinkTypes
    <2>3. FilmTypes'
      <3>1. feed' \in FeedTypes /\ card' \in CardTypes /\ sound' \in SoundTypes
            /\ ahi' \in SinkTypes /\ slots' \in [Slots -> SlotTypes]
        BY <2>1, <2>2, FreshTypes
      <3>2. loops' \in Nat /\ under' \in Nat
        BY <1>1, <1>3, <2>1, <2>2, CapturedIsNat
      <3>3. QED
        BY <1>1, <2>1, <3>1, <3>2 DEF FilmTypes
    <2>4. PlacesOK' /\ inOrder'
      BY <1>1, <2>1 DEF PlacesOK, Passing
    <2>5. StreamOK'
      <3>1. film \in Films /\ CardInput \in Nat /\ Len(film.items) \in Nat
        BY <1>1, ItemsKnown DEF FilmTypes
      <3>2. SoundUpTo(0) = 0
        BY <3>1, SoundAtEnds
      <3>3. SoundUpTo(0)' = 0
        BY <2>1, <3>2, SameFilm
      <3>4. (SoundUpTo(card.at))' = SoundUpTo(0)'
        BY <2>1 DEF FreshCard, SoundUpTo, Items
      <3>5. QED
        BY <2>1, <3>1, <3>3, <3>4 DEF StreamOK, FreshFeed, FreshCard
    <2>6. SoundOK' /\ SinkOK'
      BY <2>1 DEF SoundOK, SinkOK, FreshSound, FreshCard, Sink
    <2>7. SlotsOK'
      <3>1. ASSUME NEW i \in Slots PROVE slots'[i] = Empty
        BY <2>1
      <3>2. 0 \in Slots /\ 1 \in Slots
        BY DEF Slots
      <3>3. ASSUME NEW i \in Slots PROVE SlotOK(i)'
        BY <3>1 DEF SlotOK, Empty
      <3>4. QED
        BY <2>1, <3>1, <3>2, <3>3 DEF SlotsOK, Empty, Sink, FreshSound
    <2>8. CountOK'
      <3>1. Captured <= gaps
        BY <2>2 DEF Captured, Reported
      <3>2. ~ahi'.active /\ Reported' = Captured /\ heard' = 0
        <4>1. Captured \in Nat
          BY <1>1, CapturedIsNat
        <4>2. QED
          BY <2>1, <4>1 DEF Sink, Reported
      <3>3. QED
        BY <2>1, <3>1, <3>2 DEF CountOK
    <2>9. QED
      BY <2>1, <2>3, <2>4, <2>5, <2>6, <2>7, <2>8 DEF FilmInv
  <1>4. QED
    BY <1>2, <1>3

\* When the program looks, no underrun is reported that was none, and the drain
\* that is over has been heard to the end.
LEMMA LookSees ==
    ASSUME ZzplayAssumption, FilmInv, step = "look"
    PROVE  Reported <= gaps /\ (Drained => heard = Total)
  <1>1. FilmTypes /\ StreamOK /\ SoundOK /\ SinkOK /\ SlotsOK /\ CountOK /\ core = "DRAINING"
    BY DEF FilmInv, PlacesOK
  <1>2. card.produced = Total /\ sound.produced = card.produced
    BY <1>1, AllDecoded DEF SoundOK
  <1>3. sound.copied \in Nat /\ sound.produced \in Nat /\ sound.copied <= sound.produced
    BY <1>1 DEF FilmTypes, SoundTypes, SoundOK
  <1>4. Reported <= gaps
    <2>1. CASE ahi.active
      <3>1. sound.copied # sound.produced
        BY <1>1, <2>1 DEF CountOK
      <3>2. sound.copied < Total
        BY <1>2, <1>3, <3>1
      <3>3. QED
        BY <1>1, <2>1, <3>2 DEF CountOK
    <2>2. CASE ~ahi.active
      BY <1>1, <2>2 DEF CountOK
    <2>3. QED
      BY <2>1, <2>2
  <1>5. ASSUME Drained PROVE heard = Total
    <2>1. sound.copied = sound.produced
      BY <1>1, <1>5 DEF Drained, SinkOK
    <2>2. ASSUME NEW i \in Slots PROVE slots[i].size = 0
      BY <1>1, <1>5, SlotsKnown DEF Drained, InUse, SlotsOK, SlotOK
    <2>3. QED
      BY <1>1, <1>2, <2>1, <2>2, NothingLeft
  <1>6. QED
    BY <1>4, <1>5

LEMMA LookKeeps ==
    ASSUME ZzplayAssumption, FilmInv, Look PROVE FilmInv'
  <1>1. FilmTypes /\ PlacesOK /\ StreamOK /\ SoundOK /\ SinkOK /\ SlotsOK /\ CountOK /\ inOrder
        /\ step = "look" /\ core = "DRAINING"
    BY DEF FilmInv, PlacesOK, Look
  <1>2. CASE (Drained \/ stalled) /\ Over
    <2>1. Reported <= gaps /\ (heard = Total \/ stalled)
      BY <1>1, <1>2, LookSees
    <2>2. QED
      BY <1>1, <1>2, <2>1, OverKeeps
  <1>3. CASE step' = "poll" /\ UNCHANGED <<stream, core, sound, sink, loops, under, user, ear>>
    <2>1. UNCHANGED <<film, core, feed, card, frame, done, sound, slots, ahi, since, loops,
                      under, pauses, busy, heard, inOrder, gaps, stalled>>
      BY <1>3 DEF stream, sink, user, ear
    <2>2. FilmTypes' /\ PlacesOK'
      <3>1. FilmTypes'
        BY <1>1, <2>1 DEF FilmTypes
      <3>2. PlacesOK'
        BY <1>1, <1>3, <2>1 DEF PlacesOK, Draining
      <3>3. QED
        BY <3>1, <3>2
    <2>3. StreamOK' /\ SinkOK' /\ SlotsOK' /\ CountOK'
      BY <1>1, <1>3, <2>1, StreamStays, SinkStays, SlotsStay, CountStays DEF StreamOK
    <2>4. SoundOK'
      BY <1>1, <2>1 DEF SoundOK
    <2>5. QED
      BY <1>1, <1>3, <2>1, <2>2, <2>3, <2>4 DEF FilmInv
  <1>4. QED
    BY <1>2, <1>3 DEF Look

\* zzplay_ahi_mark_end_of_stream: the underrun that was none is taken back.
LEMMA EndIsNoGap ==
    ASSUME FilmTypes, SlotsOK, CountOK, SinkOK, NEW sunk,
           sunk = IF sound.prepared /\ CaughtUp THEN EndOfStream(ahi) ELSE ahi
    PROVE  /\ sunk \in SinkTypes /\ sunk.clock = ahi.clock /\ sunk.queued = ahi.queued
           /\ sunk.active => ahi.active
           /\ ~(sound.prepared /\ CaughtUp) => sunk = ahi
           /\ ~ahi.active => sunk.underruns = ahi.underruns
           /\ ahi.eos => sunk.eos
           /\ sound.prepared /\ CaughtUp => sunk.eos /\ ~sunk.active
                                            /\ under + sunk.underruns <= gaps
  <1>1. /\ ahi \in SinkTypes /\ ahi.underruns \in Nat /\ under \in Nat /\ gaps \in Nat
        /\ ahi.eos \in BOOLEAN /\ ahi.active \in BOOLEAN
    BY DEF FilmTypes, SinkTypes
  <1>2. ASSUME ahi.active
        PROVE  /\ ~InUse({"ready", "pending"}) /\ ahi.queued = 0 /\ ahi.underruns > 0
               /\ Reported <= gaps + 1 /\ ~ahi.eos
    <2>1. \A i \in Slots : slots[i].use = "free" /\ SlotOK(i)
      BY <1>2 DEF CountOK, SlotsOK
    <2>2. \A i \in Slots : slots[i].size = 0
      BY <2>1 DEF SlotOK
    <2>3. 0 \in Slots /\ 1 \in Slots
      BY DEF Slots
    <2>4. QED
      BY <1>2, <2>1, <2>2, <2>3 DEF CountOK, SlotsOK, InUse, SinkOK
  <1>3. CASE ~(sound.prepared /\ CaughtUp)
    BY <1>1, <1>3
  <1>4. CASE sound.prepared /\ CaughtUp /\ ahi.active
    <2> DEFINE u == ahi.underruns - 1
    <2>1. sunk = [ahi EXCEPT !.eos = TRUE, !.underruns = u, !.active = FALSE]
      BY <1>2, <1>4 DEF EndOfStream
    <2>2. u \in Nat /\ under + u <= gaps
      BY <1>1, <1>2, <1>4 DEF Reported
    <2> HIDE DEF u
    <2>3. /\ sunk \in SinkTypes /\ sunk.clock = ahi.clock /\ sunk.queued = ahi.queued
          /\ sunk.eos /\ ~sunk.active /\ sunk.underruns = u
      BY <1>1, <2>1, <2>2 DEF SinkTypes
    <2>4. QED
      BY <1>4, <2>2, <2>3
  <1>5. CASE sound.prepared /\ CaughtUp /\ ~ahi.active
    <2>1. /\ sunk \in SinkTypes /\ sunk.clock = ahi.clock /\ sunk.queued = ahi.queued
          /\ sunk.eos /\ sunk.underruns = ahi.underruns /\ sunk.active = ahi.active
      <3>1. CASE ahi.eos
        BY <1>1, <1>5, <3>1 DEF EndOfStream
      <3>2. CASE ~ahi.eos
        <4>1. sunk = [ahi EXCEPT !.eos = TRUE]
          BY <1>5, <3>2 DEF EndOfStream
        <4>2. QED
          BY <1>1, <4>1 DEF SinkTypes
      <3>3. QED
        BY <3>1, <3>2
    <2>2. under + ahi.underruns <= gaps
      BY <1>5 DEF CountOK, Reported
    <2>3. QED
      BY <1>5, <2>1, <2>2
  <1>6. QED
    BY <1>3, <1>4, <1>5

\* The sound that never began: there is none, or it begins in the drain.
LEMMA NoSound ==
    ASSUME ZzplayAssumption, FilmInv, step = "drain", ~sound.started,
           ~sound.prepared \/ (CaughtUp /\ ahi.queued = 0)
    PROVE  Reported <= gaps /\ heard = Total
  <1>1. FilmTypes /\ StreamOK /\ SoundOK /\ SinkOK /\ SlotsOK /\ CountOK /\ core = "DRAINING"
    BY DEF FilmInv, PlacesOK
  <1>2. card.produced = Total /\ sound.produced = card.produced
    BY <1>1, AllDecoded DEF SoundOK
  <1>3. heard = 0 /\ ~ahi.active
    BY <1>1 DEF SinkOK
  <1>4. sound.produced = 0
    <2>1. CASE ~sound.prepared
      BY <1>1, <2>1 DEF SoundOK, FilmTypes, SoundTypes
    <2>2. CASE CaughtUp /\ ahi.queued = 0
      <3>1. 0 \in Slots /\ 1 \in Slots /\ Slots = {0, 1}
        BY DEF Slots
      <3>2. slots[0].size \in Nat /\ slots[1].size \in Nat
            /\ slots[0].size + slots[1].size = 0
        BY <1>1, <2>2, <3>1, SlotsKnown DEF SlotsOK
      <3>3. slots[0].size = 0 /\ slots[1].size = 0
        BY <3>2
      <3>4. heard = sound.copied
        BY <1>1, <3>1, <3>3, NothingLeft
      <3>5. QED
        BY <1>3, <2>2, <3>4 DEF CaughtUp
    <2>3. QED
      BY <2>1, <2>2
  <1>5. Reported <= gaps
    BY <1>1, <1>3 DEF CountOK
  <1>6. QED
    BY <1>2, <1>3, <1>4, <1>5

LEMMA DrainKeeps ==
    ASSUME ZzplayAssumption, FilmInv, Drain PROVE FilmInv'
  <1>1. FilmTypes /\ PlacesOK /\ StreamOK /\ SoundOK /\ SinkOK /\ SlotsOK /\ CountOK /\ inOrder
        /\ step = "drain" /\ core = "DRAINING"
    BY DEF FilmInv, PlacesOK, Drain
  <1>2. CASE sound.backend = "AX" /\ sound.prepared
    <2>1. /\ Fallback /\ step' = "poll"
          /\ UNCHANGED <<film, feed, card, frame, done, core, loops, under, pauses, busy,
                         heard, inOrder, gaps, stalled>>
      BY <1>2 DEF Drain, stream, user, ear
    <2>2. /\ sound' \in SoundTypes /\ ahi' \in SinkTypes
          /\ SoundOK' /\ SinkOK' /\ SlotsOK' /\ CountOK' /\ UNCHANGED <<slots, since>>
      BY <1>1, <1>2, <2>1, FallbackKeeps
    <2>3. FilmTypes'
      BY <1>1, <2>1, <2>2 DEF FilmTypes
    <2>4. PlacesOK'
      BY <1>1, <2>1 DEF PlacesOK, Draining
    <2>5. StreamOK'
      BY <1>1, <2>1, StreamStays DEF StreamOK
    <2>6. QED
      BY <1>1, <2>1, <2>2, <2>3, <2>4, <2>5 DEF FilmInv
  <1>3. CASE sound.backend = "AX" /\ ~sound.prepared
    <2>1. Over /\ ~sound.started
      BY <1>1, <1>3 DEF Drain, SinkOK
    <2>2. QED
      BY <1>1, <1>3, <2>1, NoSound, OverKeeps
  <1> DEFINE sunk   == IF sound.prepared /\ CaughtUp THEN EndOfStream(ahi) ELSE ahi
             plays  == ~sound.started /\ sound.prepared /\ ahi.queued > 0
             drains == CaughtUp /\ ~sound.draining
  <1>4. CASE sound.backend # "AX" /\ drains /\ ~sound.started /\ ~plays
    <2>1. Over
      BY <1>4 DEF Drain
    <2>2. ahi.queued \in Nat
      BY <1>1 DEF FilmTypes, SinkTypes
    <2>3. ~sound.prepared \/ (CaughtUp /\ ahi.queued = 0)
      BY <1>4, <2>2
    <2>4. QED
      BY <1>1, <1>4, <2>1, <2>3, NoSound, OverKeeps
  <1>5. CASE sound.backend # "AX" /\ ~(drains /\ ~sound.started /\ ~plays)
    <2>1. /\ step' = "look"
          /\ ahi' = [sunk EXCEPT !.clock = IF drains THEN "DRAINING"
                                           ELSE IF plays THEN "PLAYING" ELSE @]
          /\ slots' = IF plays \/ drains THEN Sent(slots) ELSE slots
          /\ since' = IF plays THEN 0 ELSE since
          /\ sound' = [sound EXCEPT !.started = @ \/ plays, !.draining = @ \/ drains]
          /\ UNCHANGED <<film, feed, card, frame, done, core, loops, under, pauses, busy,
                         heard, inOrder, gaps, stalled>>
      BY <1>5 DEF Drain, stream, user, ear
    <2>2. /\ sunk \in SinkTypes /\ sunk.clock = ahi.clock /\ sunk.queued = ahi.queued
          /\ sunk.active => ahi.active
          /\ ~(sound.prepared /\ CaughtUp) => sunk = ahi
          /\ ~ahi.active => sunk.underruns = ahi.underruns
          /\ ahi.eos => sunk.eos
          /\ sound.prepared /\ CaughtUp => sunk.eos /\ ~sunk.active
                                           /\ under + sunk.underruns <= gaps
      BY <1>1, EndIsNoGap
    <2>3. sound.backend = "AHI" /\ sound \in SoundTypes /\ ahi.queued \in Nat
          /\ sound.started \in BOOLEAN /\ sound.draining \in BOOLEAN
      BY <1>1, <1>5 DEF FilmTypes, SoundTypes, SinkTypes
    <2>4. plays \in BOOLEAN /\ drains \in BOOLEAN
      BY DEF CaughtUp
    <2>5. /\ drains => CaughtUp /\ ~sound.draining /\ (sound.started \/ plays)
          /\ plays => ~sound.started /\ sound.prepared /\ ahi.queued > 0
          /\ ~plays /\ ~drains /\ sound.prepared /\ ~sound.started => ahi.queued = 0
      BY <1>5, <2>3
    <2>6. sound.started => sound.prepared
      BY <1>1 DEF SinkOK
    <2> HIDE DEF sunk, plays, drains
    <2>7. /\ sound' \in SoundTypes /\ sound'.backend = "AHI"
          /\ sound'.copied = sound.copied /\ sound'.produced = sound.produced
          /\ sound'.prepared = sound.prepared
          /\ sound'.started <=> sound.started \/ plays
          /\ sound'.draining <=> sound.draining \/ drains
      <3> DEFINE s == sound.started \/ plays
                 d == sound.draining \/ drains
      <3>1. sound' = [sound EXCEPT !.started = s, !.draining = d] /\ s \in BOOLEAN
            /\ d \in BOOLEAN
        BY <2>1, <2>3, <2>4
      <3> HIDE DEF s, d
      <3>2. sound' \in SoundTypes /\ sound'.backend = "AHI"
            /\ sound'.copied = sound.copied /\ sound'.produced = sound.produced
            /\ sound'.prepared = sound.prepared /\ sound'.started = s /\ sound'.draining = d
        BY <2>3, <3>1 DEF SoundTypes
      <3>3. QED
        BY <3>2 DEF s, d
    <2> DEFINE c == IF drains THEN "DRAINING" ELSE IF plays THEN "PLAYING" ELSE sunk.clock
    <2>8. c \in {"CLOSED", "PREBUFFERING", "PLAYING", "PAUSED", "DRAINING"}
      BY <2>2 DEF SinkTypes
    <2>9. ahi' = [sunk EXCEPT !.clock = c]
      BY <2>1
    <2>10. c = IF drains THEN "DRAINING" ELSE IF plays THEN "PLAYING" ELSE ahi.clock
      BY <2>2
    <2> HIDE DEF c
    <2>11. /\ ahi' \in SinkTypes /\ ahi'.clock = c /\ ahi'.queued = ahi.queued
           /\ ahi'.active = sunk.active /\ ahi'.underruns = sunk.underruns
           /\ ahi'.eos = sunk.eos
      BY <2>2, <2>8, <2>9 DEF SinkTypes
    <2>12. slots' \in [Slots -> SlotTypes] /\ SlotsOK' /\ (plays => sound.copied > 0)
           /\ \A i \in Slots : ~plays /\ slots[i].use = "free" => slots'[i].use = "free"
      <3>1. CASE plays
        <4>1. slots' = Sent(slots)
          BY <2>1, <3>1
        <4>2. QED
          BY <1>1, <2>1, <2>3, <2>5, <2>7, <2>11, <3>1, <4>1, StartKeeps
      <3>2. CASE ~plays
        <4>1. slots' = slots
          BY <1>1, <2>1, <2>5, <3>2, NothingToSend
        <4>2. SlotsOK'
          BY <1>1, <2>1, <2>7, <2>11, <3>2, <4>1, SlotsStay DEF SlotsOK, SlotOK, Behind
        <4>3. QED
          BY <1>1, <3>2, <4>1, <4>2 DEF FilmTypes
      <3>3. QED
        BY <3>1, <3>2
    <2>13. FilmTypes'
      <3>1. since' \in Nat
        BY <1>1, <2>1 DEF FilmTypes
      <3>2. QED
        BY <1>1, <2>1, <2>7, <2>11, <2>12, <3>1 DEF FilmTypes
    <2>14. PlacesOK'
      BY <1>1, <2>1, <2>7 DEF PlacesOK, Draining
    <2>15. StreamOK' /\ SoundOK'
      <3>1. StreamOK'
        BY <1>1, <2>1, StreamStays DEF StreamOK
      <3>2. SoundOK'
        BY <1>1, <2>1, <2>7 DEF SoundOK
      <3>3. QED
        BY <3>1, <3>2
    <2>16. SinkOK'
      <3>1. sound'.started => /\ sound.prepared /\ sound.copied > 0
                              /\ ahi'.clock \in {"PLAYING", "PAUSED", "DRAINING"}
        <4>1. CASE plays
          BY <2>5, <2>10, <2>11, <2>12, <4>1
        <4>2. CASE ~plays
          BY <1>1, <2>7, <2>10, <2>11, <4>2 DEF SinkOK
        <4>3. QED
          BY <4>1, <4>2
      <3>2. ~sound'.started =>
              /\ heard = 0 /\ ~ahi'.active /\ ahi'.underruns = 0 /\ ~sound'.draining
              /\ ahi'.clock = IF sound.prepared THEN "PREBUFFERING" ELSE "CLOSED"
        <4>1. ASSUME ~sound'.started
              PROVE  ~sound.started /\ ~plays /\ ~drains
          BY <2>5, <2>7, <4>1
        <4>2. ~sound.started => ~ahi.active /\ ahi.underruns = 0 /\ heard = 0
                                /\ ~sound.draining
                                /\ ahi.clock = IF sound.prepared THEN "PREBUFFERING"
                                               ELSE "CLOSED"
          BY <1>1, <2>3 DEF SinkOK
        <4>3. QED
          BY <2>2, <2>7, <2>10, <2>11, <4>1, <4>2
      <3>3. ahi'.clock # "PAUSED"
        BY <1>1, <2>10, <2>11 DEF SinkOK
      <3>4. ahi'.clock = "DRAINING" => sound'.draining
        BY <1>1, <2>7, <2>10, <2>11 DEF SinkOK
      <3>5. sound'.draining => ahi'.eos /\ sound.copied = sound.produced
        BY <1>1, <2>2, <2>5, <2>6, <2>7, <2>11 DEF SinkOK, CaughtUp
      <3>6. ahi'.eos => ~ahi'.active
        BY <1>1, <2>2, <2>11 DEF SinkOK
      <3>7. QED
        BY <1>1, <2>1, <2>7, <3>1, <3>2, <3>3, <3>4, <3>5, <3>6 DEF SinkOK
    <2>17. CountOK'
      <3>1. card.produced = Total /\ sound.produced = card.produced /\ Total' = Total
        BY <1>1, <2>1, AllDecoded, SameFilm DEF SoundOK
      <3>2. Reported' = under + sunk.underruns
        BY <2>1, <2>11 DEF Reported
      <3>3. CASE sound.prepared /\ CaughtUp
        <4>1. sound'.copied = Total /\ ~ahi'.active /\ Reported' <= gaps
          BY <2>2, <2>7, <2>11, <3>1, <3>2, <3>3 DEF CaughtUp
        <4>2. ~(heard = Total /\ heard < Total)
          BY <1>1 DEF FilmTypes
        <4>3. QED
          BY <2>1, <3>1, <4>1, <4>2 DEF CountOK
      <3>4. CASE ~(sound.prepared /\ CaughtUp)
        <4>1. sunk = ahi /\ Reported' = Reported
          BY <2>2, <3>2, <3>4 DEF Reported
        <4>2. ahi.active => sound.started /\ sound.prepared /\ ~CaughtUp /\ ~plays
          BY <1>1, <2>5, <2>6, <3>4 DEF SinkOK
        <4>3. ahi'.active => /\ \A i \in Slots : slots'[i].use = "free"
                             /\ sound'.copied # sound'.produced
          BY <1>1, <2>7, <2>11, <2>12, <4>1, <4>2 DEF CountOK, CaughtUp
        <4>4. QED
          BY <1>1, <2>1, <2>7, <2>11, <3>1, <4>1, <4>3 DEF CountOK
      <3>5. QED
        BY <3>3, <3>4
    <2>18. QED
      BY <1>1, <2>1, <2>13, <2>14, <2>15, <2>16, <2>12, <2>17 DEF FilmInv
  <1>6. QED
    BY <1>2, <1>3, <1>4, <1>5

---------------------------------------------------------------------------
\* The invariant.

\* It holds when a session begins and where there is none.
LEMMA FilmBegins ==
    ASSUME ZzplayAssumption, NEW where, NEW state, FilmInitAt(where, state),
           \/ where = "control" /\ state = "PLAYING"
           \/ where = "ended" /\ state = "STOPPED"
    PROVE  FilmInv
  <1>1. /\ film \in Films /\ step = where /\ core = state /\ feed = FreshFeed
        /\ card = FreshCard /\ done = FALSE /\ ahi = Sink("CLOSED") /\ since = 0
        /\ slots = [i \in Slots |-> Empty] /\ loops = film.loops /\ under = 0
        /\ pauses = 0 /\ busy = 0 /\ heard = 0 /\ inOrder = TRUE /\ gaps = 0
        /\ stalled = FALSE
    BY DEF FilmInitAt
  <1>2. PICK b \in {"AX", "AHI"} : sound = FreshSound(b)
    BY DEF FilmInitAt
  <1>3. film.loops \in Nat /\ CardInput \in Nat /\ Len(film.items) \in Nat
    BY <1>1, ItemsKnown
  <1>4. FilmTypes
    <2>1. feed \in FeedTypes /\ card \in CardTypes /\ sound \in SoundTypes
          /\ ahi \in SinkTypes /\ slots \in [Slots -> SlotTypes]
      BY <1>1, <1>2, FreshTypes
    <2>2. QED
      BY <1>1, <1>3, <2>1 DEF FilmTypes
  <1>5. PlacesOK
    BY <1>1 DEF PlacesOK, Passing
  <1>6. StreamOK
    <2>1. SoundUpTo(card.at) = 0 /\ core # "DRAINING"
      BY <1>1, SoundAtEnds DEF FreshCard
    <2>2. QED
      BY <1>1, <1>3, <2>1 DEF StreamOK, FreshFeed, FreshCard
  <1>7. SoundOK /\ SinkOK
    BY <1>1, <1>2 DEF SoundOK, SinkOK, FreshSound, FreshCard, Sink
  <1>8. SlotsOK
    <2>1. ASSUME NEW i \in Slots PROVE slots[i] = Empty /\ SlotOK(i)
      BY <1>1 DEF SlotOK, Empty
    <2>2. 0 \in Slots /\ 1 \in Slots
      BY DEF Slots
    <2>3. QED
      BY <1>1, <1>2, <2>1, <2>2 DEF SlotsOK, Empty, Sink, FreshSound
  <1>9. CountOK /\ ~Running
    BY <1>1 DEF CountOK, Reported, Running, Sink
  <1>10. QED
    BY <1>1, <1>4, <1>5, <1>6, <1>7, <1>8, <1>9 DEF FilmInv

LEMMA FilmInvStep ==
    ASSUME ZzplayAssumption, FilmInv, [FilmNext]_filmVars PROVE FilmInv'
  <1>1. CASE Program
    <2>1. CASE Control BY <2>1, ControlKeeps
    <2>2. CASE Poll BY <2>2, PollKeeps
    <2>3. CASE Fill BY <2>3, FillKeeps
    <2>4. CASE RetireFrame BY <2>4, RetireFrameKeeps
    <2>5. CASE FeedRound BY <2>5, FeedRoundKeeps
    <2>6. CASE Decode BY <2>6, DecodeKeeps
    <2>7. CASE Finish BY <2>7, FinishKeeps
    <2>8. CASE Drain BY <2>8, DrainKeeps
    <2>9. CASE Look BY <2>9, LookKeeps
    <2>10. QED
      BY <1>1, <2>1, <2>2, <2>3, <2>4, <2>5, <2>6, <2>7, <2>8, <2>9 DEF Program
  <1>2. CASE Pause BY <1>2, PauseKeeps
  <1>3. CASE Resume BY <1>3, ResumeKeeps
  <1>4. CASE UserStops BY <1>4, QuitKeeps DEF UserStops
  <1>5. CASE CallFails BY <1>5, QuitKeeps DEF CallFails
  <1>6. CASE AhiPlay BY <1>6, AhiPlayKeeps
  <1>7. CASE AhiStalls BY <1>7, AhiStallsKeeps
  <1>8. CASE Time BY <1>8, TimeKeeps
  <1>9. CASE UNCHANGED filmVars
    <2>1. UNCHANGED <<film, step, core, feed, card, frame, done, sound, slots, ahi, since,
                      loops, under, pauses, busy, heard, inOrder, gaps, stalled>>
      BY <1>9 DEF filmVars
    <2>2. FilmTypes' /\ PlacesOK' /\ inOrder' /\ (step' = "ended" => ~Running')
      BY <2>1 DEF FilmInv, FilmTypes, PlacesOK, Running
    <2>3. CASE step = "ended"
      BY <2>1, <2>2, <2>3 DEF FilmInv
    <2>4. CASE step # "ended"
      <3>1. StreamOK /\ SoundOK /\ SinkOK /\ SlotsOK /\ CountOK
        BY <2>4 DEF FilmInv
      <3>2. StreamOK' /\ SinkOK' /\ SlotsOK' /\ CountOK'
        BY <2>1, <3>1, StreamStays, SinkStays, SlotsStay, CountStays DEF StreamOK
      <3>3. SoundOK'
        BY <2>1, <2>4, <3>1 DEF SoundOK
      <3>4. QED
        BY <2>2, <3>2, <3>3 DEF FilmInv
    <2>5. QED
      BY <2>3, <2>4
  <1>10. QED
    BY <1>1, <1>2, <1>3, <1>4, <1>5, <1>6, <1>7, <1>8, <1>9 DEF FilmNext

\* What the invariant says at the end of a film.
LEMMA FilmInvTells ==
    ASSUME ZzplayAssumption, FilmInv PROVE HeardWhole /\ UnderrunsAreGaps
  <1>1. inOrder
    BY DEF FilmInv
  <1>2. ASSUME PlayedOut PROVE heard = Total /\ Captured <= gaps
    <2>1. Reported <= gaps /\ heard = Total /\ FilmTypes
      BY <1>2, LookSees DEF PlayedOut, FilmInv
    <2>2. Captured <= Reported /\ Captured \in Nat /\ Reported \in Nat /\ gaps \in Nat
      BY <2>1 DEF Captured, Reported, FilmTypes, SinkTypes
    <2>3. QED
      BY <2>1, <2>2
  <1>3. QED
    BY <1>1, <1>2 DEF HeardWhole, UnderrunsAreGaps

LEMMA FilmInvariant == ASSUME ZzplayAssumption PROVE FilmSpec => []FilmInv
  <1>1. ASSUME FilmInit PROVE FilmInv
    BY <1>1, FilmBegins DEF FilmInit
  <1>2. ASSUME FilmInv, [FilmNext]_filmVars PROVE FilmInv'
    BY <1>2, FilmInvStep
  <1>3. QED
    BY <1>1, <1>2, PTL DEF FilmSpec

\* The listener has the sound of the film in its order, and all of it when the film
\* has ended by itself: whatever the sizes of the film, the buffers and the chunks,
\* and whenever AHI, the clock and the user come in between.  (zzplay_ahi_submit to
\* zzplay_ahi_drained, zzplay_drain_audio.)
THEOREM SoundIsHeardWhole == ASSUME ZzplayAssumption PROVE FilmSpec => []HeardWhole
  <1>1. FilmInv => HeardWhole
    BY FilmInvTells
  <1>2. QED
    BY <1>1, FilmInvariant, PTL

\* Each underrun reported at the end of a film is a time AHI ran dry before the end
\* of it, those of the loops before included: the last one is taken back when it was
\* the end.  (zzplay_ahi_poll, zzplay_ahi_mark_end_of_stream.)
THEOREM ReportedAreGaps == ASSUME ZzplayAssumption PROVE FilmSpec => []UnderrunsAreGaps
  <1>1. FilmInv => UnderrunsAreGaps
    BY FilmInvTells
  <1>2. QED
    BY <1>1, FilmInvariant, PTL
=============================================================================
