------------------------------- MODULE Zzplay -------------------------------
(***************************************************************************)
(* zzplay plays an MPEG-1 Program Stream (tools/zzplay.c): it feeds the    *)
(* file to the card, the card decodes a frame at a time and puts the sound *)
(* of the stream into a PCM ring, and zzplay copies the sound to AHI in    *)
(* two linked buffers (zzplay-ahi.c) and shows each frame when the sound   *)
(* has come to it (zzplay-audio-clock.c, zzplay-sync.c).                   *)
(*                                                                         *)
(* One frame lasts as long as one unit of sound, which is the unit of time *)
(* as well.  A unit is its number in the film.  AHI plays and the clock    *)
(* runs between any two steps of the program.                              *)
(***************************************************************************)
EXTENDS Naturals, Sequences, FiniteSets

CONSTANTS
    Films,       \* what is in the file, and how it is to be played
    FilmPeriod,  \* units in an AHI buffer
    HighWater,   \* units of PCM the card decodes ahead
    ReadChunk,   \* items of the stream in a chunk of the file
    CardInput,   \* items the card takes ahead
    MaxPauses,   \* bound: pauses by the user
    MaxBusy,     \* bound: frames the card is too busy to show
    MaxSince     \* bound: time between two looks at the clock

NoFrame == <<>>

\* The items of the stream in its order, when its first frame and its first unit
\* of sound are due, whether AUTO has chosen the AX codec, and the loops to play.
FilmType == [items : Seq({"video", "audio"}), video : Nat, audio : Nat,
             auto : BOOLEAN, loops : Nat]

\* What a module that instantiates this one assumes of the constants.
ZzplayAssumption ==
    /\ \A f \in Films : f.items \in Seq({"video", "audio"})
    /\ \A f \in Films : f.video \in Nat /\ f.audio \in Nat
    /\ \A f \in Films : f.auto \in BOOLEAN /\ f.loops \in Nat
    /\ {FilmPeriod, HighWater, ReadChunk, CardInput, MaxSince} \subseteq Nat \ {0}
    /\ FilmPeriod <= HighWater
    /\ {MaxPauses, MaxBusy} \subseteq Nat

VARIABLES
    film,     \* what is played
    step,     \* where the program is
    core,     \* core.state
    feed,     \* ZZPlayTransport: items read, pending, eof, eof_sent
    card,     \* items it has, has decoded, EOF, PCM produced and acknowledged
    frame,    \* the frame held, if any: when it is due
    done,     \* media_done
    sound,    \* the PCM ring as the program knows it, and what has been prepared
    slots,    \* the two buffers of AHI
    ahi,      \* the sink and its clock
    since,    \* time since the clock was looked at
    loops,    \* loops left
    under,    \* final_underruns
    pauses,   \* pauses so far
    busy,     \* frames not shown so far
    heard,    \* ghost: the unit the listener had last
    inOrder,  \* ghost: each came after the one before it
    gaps,     \* ghost: times AHI ran dry before the end
    stalled   \* ghost: AHI has stopped for ever

stream  == <<film, feed, card, frame, done>>
sink    == <<slots, ahi, since>>
user    == <<pauses, busy>>
ear     == <<heard, inOrder, gaps, stalled>>
filmVars == <<film, step, core, feed, card, frame, done, sound, slots, ahi, since,
              loops, under, pauses, busy, heard, inOrder, gaps, stalled>>

Slots == {0, 1}

Empty == [use |-> "free", first |-> 0, size |-> 0, left |-> 0, linked |-> FALSE]

\* zzplay_begin_session, over a transport at the start of the file.
FreshFeed  == [read |-> 0, pending |-> 0, eof |-> FALSE, sent |-> FALSE]
FreshCard  == [has |-> 0, at |-> 0, closed |-> FALSE, produced |-> 0, acked |-> 0]
FreshSound(backend) ==
    [backend |-> backend, known |-> FALSE, refresh |-> TRUE, produced |-> 0,
     copied |-> 0, prepared |-> FALSE, started |-> FALSE, draining |-> FALSE]

\* zzplay_ahi_prepare, and the sink before it and after zzplay_ahi_close.
Sink(clock) == [clock |-> clock, queued |-> 0, submitted |-> 0, played |-> 0,
                shown |-> 0, underruns |-> 0, active |-> FALSE, eos |-> FALSE]

FilmInitAt(where, state) ==
    /\ film \in Films /\ step = where /\ core = state
    /\ feed = FreshFeed /\ card = FreshCard /\ frame = NoFrame /\ done = FALSE
    /\ sound = FreshSound(IF film.auto THEN "AX" ELSE "AHI")
    /\ slots = [i \in Slots |-> Empty] /\ ahi = Sink("CLOSED") /\ since = 0
    /\ loops = film.loops /\ under = 0 /\ pauses = 0 /\ busy = 0
    /\ heard = 0 /\ inOrder = TRUE /\ gaps = 0 /\ stalled = FALSE

\* The buffers are there, the session has begun and the timer is open.
FilmInit == FilmInitAt("control", "PLAYING")

---------------------------------------------------------------------------
\* The stream.

Smaller(a, b) == IF a < b THEN a ELSE b
Larger(a, b)  == IF a > b THEN a ELSE b

Items(kind) == {k \in DOMAIN film.items : film.items[k] = kind}
Total == Cardinality(Items("audio"))

\* When the frame at k is due.
DueAt(k) == film.video + Cardinality({j \in Items("video") : j < k})

---------------------------------------------------------------------------
\* The clock of the sink.

Running == ahi.clock \in {"PLAYING", "DRAINING"}

\* zzplay_audio_clock_update_presentation: the clock runs with the host's, from
\* what has been played to no more than what has been queued.
Presented ==
    IF Running THEN Smaller(Larger(ahi.shown, ahi.played) + since, ahi.submitted)
    ELSE ahi.shown

---------------------------------------------------------------------------
\* The two buffers.

Unplayed(slot) == slot.use = "pending" /\ slot.left > 0

\* zzplay_ahi_send_ready: a buffer is linked to the other one if that is pending;
\* the link to one that has been played is as none.
Sent(all) ==
    [i \in Slots |->
        IF all[i].use = "ready"
        THEN [all[i] EXCEPT !.use = "pending",
                            !.linked = \/ Unplayed(all[1 - i])
                                       \/ i = 1 /\ all[0].use = "ready"]
        ELSE all[i]]

InUse(kinds) == \E i \in Slots : slots[i].use \in kinds

\* Faulty variant: a buffer that AHI has is taken for a free one.
NotReady == {i \in Slots : slots[i].use # "ready"}

\* zzplay_ahi_acquire_buffer takes the first of them.
FreeSlots == {i \in Slots : slots[i].use = "free"}

\* zzplay_ahi_play and zzplay_audio_start; the clock starts.
Play ==
    /\ ahi' = [ahi EXCEPT !.clock = "PLAYING", !.shown = Larger(ahi.shown, ahi.played)]
    /\ slots' = Sent(slots) /\ since' = 0

\* AHI plays a unit of the buffer whose turn it is.
AhiPlay ==
    /\ Running /\ ~stalled
    /\ \E i \in Slots :
        LET unit == slots[i].first + slots[i].size - slots[i].left
            last == slots[i].left = 1
        IN /\ Unplayed(slots[i]) /\ ~slots[i].linked
           /\ slots' = [slots EXCEPT ![i].left = @ - 1,
                                     ![1 - i].linked = @ /\ ~last]
           /\ heard' = unit /\ inOrder' = (inOrder /\ unit = heard + 1)
           /\ gaps' = IF last /\ ~Unplayed(slots[1 - i]) /\ unit < Total
                      THEN gaps + 1 ELSE gaps
    /\ UNCHANGED <<stream, step, core, sound, ahi, since, loops, under, user, stalled>>

\* AHI stops for ever; only a drain waits for it with a deadline.
AhiStalls ==
    /\ core = "DRAINING" /\ Running /\ ~stalled /\ stalled' = TRUE
    /\ UNCHANGED <<stream, step, core, sound, sink, loops, under, user, heard,
                   inOrder, gaps>>

\* Time passes.
Time ==
    /\ Running /\ since < MaxSince /\ since' = since + 1
    /\ UNCHANGED <<stream, step, core, sound, slots, ahi, loops, under, user, ear>>

---------------------------------------------------------------------------
\* The ways out.

\* zzplay_capture_audio_totals.
Captured == IF sound.prepared THEN under + ahi.underruns ELSE under

\* The cleanup: the frame is given back, the requests of AHI are aborted, and all
\* is closed.
Quit(state) ==
    /\ core' = state /\ step' = "ended" /\ under' = Captured
    /\ frame' = NoFrame /\ slots' = [i \in Slots |-> Empty] /\ ahi' = Sink("CLOSED")
    /\ since' = 0 /\ feed' = FreshFeed /\ card' = FreshCard /\ done' = FALSE
    /\ sound' = FreshSound(sound.backend)
    /\ UNCHANGED <<film, loops, user, ear>>

\* zzplay_ahi_drained, once the drain has begun.
Drained == /\ sound.draining /\ ahi.clock = "DRAINING" /\ ahi.queued = 0
           /\ ~InUse({"ready", "pending"})

\* The user stops the film, in the loop or in the drain.
UserStops == /\ step = "control" \/ (step = "look" /\ ~Drained)
             /\ Quit("STOPPED")

\* A call of the card, of AHI or of P96 fails; at the end there is one when the
\* session is restarted.
CallFails ==
    /\ \/ step \notin {"finish", "look", "ended"}
       \/ step = "look" /\ (Drained \/ stalled) /\ loops > 0
    /\ Quit("ERROR")

---------------------------------------------------------------------------
\* The loop.

\* zzplay_poll_control finds nothing; a film that is paused is not played on.
Control ==
    /\ step = "control" /\ core = "PLAYING" /\ step' = "poll"
    /\ UNCHANGED <<stream, core, sound, sink, loops, under, user, ear>>

\* zzplay_toggle_pause.
Pause ==
    /\ step = "control" /\ core = "PLAYING" /\ pauses < MaxPauses
    /\ pauses' = pauses + 1 /\ core' = "PAUSED"
    /\ IF sound.started
       THEN ahi' = [ahi EXCEPT !.clock = "PAUSED", !.shown = Presented]
       ELSE UNCHANGED ahi
    /\ UNCHANGED <<stream, step, sound, slots, since, loops, under, busy, ear>>

Resume ==
    /\ step = "control" /\ core = "PAUSED" /\ core' = "PLAYING"
    /\ IF sound.started
       THEN /\ ahi' = [ahi EXCEPT !.clock = "PLAYING",
                                  !.shown = Larger(ahi.shown, ahi.played)]
            /\ since' = 0
       ELSE UNCHANGED <<ahi, since>>
    /\ UNCHANGED <<stream, step, sound, slots, loops, under, user, ear>>

\* Where a pass goes after zzplay_audio_pump.
Pumped == IF core = "DRAINING" THEN "drain"
          ELSE IF frame # NoFrame THEN "retire"
          ELSE IF done THEN "finish" ELSE "feed"

\* zzplay_ahi_poll: takes back what has been played, then notes an underrun, once,
\* when nothing is left.
Played == {i \in Slots : slots[i].use = "pending" /\ slots[i].left = 0}

PlayedOf(i) == IF i \in Played THEN slots[i].size ELSE 0
PlayedUnits == PlayedOf(0) + PlayedOf(1)

Polled ==
    LET reaped == [ahi EXCEPT !.queued = @ - PlayedUnits,
                              !.played = @ + PlayedUnits,
                              !.shown = Smaller(Larger(Presented,
                                                       ahi.played + PlayedUnits),
                                                ahi.submitted)]
        dry == /\ ahi.clock = "PLAYING" /\ ~ahi.eos /\ reaped.queued = 0
               /\ \A i \in Slots \ Played : slots[i].use = "free"
    IN IF dry /\ ~ahi.active
       THEN [reaped EXCEPT !.underruns = @ + 1, !.active = TRUE] ELSE reaped

\* The first half of zzplay_audio_pump: AHI, then the card, then the sink is made
\* ready when there is sound.
Poll ==
    /\ step = "poll"
    /\ LET read == sound.refresh \/ ~sound.known
           made == IF read THEN card.produced ELSE sound.produced
           prepares == ~sound.prepared /\ made > 0
       IN /\ card' = IF read THEN [card EXCEPT !.acked = sound.copied] ELSE card
          /\ sound' = [sound EXCEPT !.known = TRUE, !.refresh = FALSE,
                                    !.produced = made,
                                    !.prepared = @ \/ prepares]
          /\ IF sound.backend = "AHI" /\ sound.prepared
             THEN /\ ahi' = Polled /\ since' = 0
                  /\ slots' = [i \in Slots |-> IF i \in Played THEN Empty ELSE slots[i]]
             ELSE /\ ahi' = IF prepares /\ sound.backend = "AHI"
                            THEN Sink("PREBUFFERING") ELSE ahi
                  /\ UNCHANGED <<slots, since>>
          /\ step' = IF sound.backend = "AHI" /\ sound'.prepared THEN "fill" ELSE Pumped
    /\ UNCHANGED <<film, feed, frame, done, core, loops, under, user, ear>>

\* The second half: a period at a time, and what is left of one in the drain.
Available == sound.produced - sound.copied

Fill ==
    /\ step = "fill"
    /\ IF /\ Available > 0 /\ FreeSlots # {}
          /\ core = "DRAINING" \/ Available >= FilmPeriod
       THEN LET i == CHOOSE j \in FreeSlots : \A k \in FreeSlots : j <= k
                n == Smaller(Available, FilmPeriod)
                ready == [slots EXCEPT ![i] =
                              [use |-> "ready", first |-> sound.copied + 1,
                               size |-> n, left |-> n, linked |-> FALSE]]
            IN IF /\ ahi.clock \in {"PREBUFFERING", "PLAYING", "PAUSED"}
                  /\ ahi.queued + n <= FilmPeriod * Cardinality(Slots)
               THEN /\ slots' = IF ahi.clock = "PLAYING" THEN Sent(ready) ELSE ready
                    /\ ahi' = [ahi EXCEPT !.queued = @ + n, !.submitted = @ + n,
                                          !.active = FALSE]
                    /\ sound' = [sound EXCEPT !.copied = @ + n,
                                              !.produced = card.produced]
                    /\ card' = [card EXCEPT !.acked = sound.copied + n]
                    /\ UNCHANGED <<film, step, core, feed, frame, done, since, loops,
                                   under, user, ear>>
               ELSE Quit("ERROR")
       ELSE /\ step' = Pumped
            /\ UNCHANGED <<stream, core, sound, sink, loops, under, user, ear>>

---------------------------------------------------------------------------
\* zzplay_retire_held_frame.

\* zzplay_audio_start_ready, and zzplay_sync_audio_may_start: no frame may be late
\* for more than a frame when the sound begins.
StartReady ==
    IF sound.backend = "AHI" THEN ahi.queued >= FilmPeriod * Cardinality(Slots)
    ELSE sound.produced > card.acked

Starts == /\ ~sound.started /\ sound.prepared /\ StartReady
          /\ frame[1] + 1 >= film.audio

\* zzplay_audio_fallback_to_ahi: another program has the AX codec; the sound that
\* is there goes to AHI.
Fallback ==
    /\ sound' = [sound EXCEPT !.backend = "AHI", !.copied = card.acked,
                              !.refresh = @ \/ core = "DRAINING"]
    /\ ahi' = Sink("PREBUFFERING") /\ UNCHANGED <<slots, since>>

\* Faulty variant: a frame is held until the clock has come to it.
HoldsAhead(due, clock) == due > clock

\* zzplay_sync_decide, then zzplay_sync_resolve_audio_starvation: a frame is not
\* held when there is no sound left to wait for.
Holds(due, clock) == due > clock /\ ahi.queued > 0

\* The card shows or discards the frame and can decode on, or it is too busy.
Retire ==
    \/ frame' = NoFrame /\ UNCHANGED busy
    \/ busy < MaxBusy /\ busy' = busy + 1 /\ UNCHANGED frame

RetireFrame ==
    /\ step = "retire" /\ step' = "control"
    /\ \/ /\ Starts /\ sound.backend = "AX" /\ Fallback
          /\ UNCHANGED <<frame, busy>>
       \/ /\ Starts /\ sound.backend = "AHI" /\ Play
          /\ sound' = [sound EXCEPT !.started = TRUE]
          /\ IF Holds(frame[1], film.audio + ahi'.shown)
             THEN UNCHANGED <<frame, busy>> ELSE Retire
       \/ /\ ~Starts /\ sound.started
          /\ ahi' = [ahi EXCEPT !.shown = Presented] /\ since' = 0
          /\ IF Holds(frame[1], film.audio + Presented)
             THEN UNCHANGED <<frame, busy>> ELSE Retire
          /\ UNCHANGED <<sound, slots>>
       \/ /\ ~Starts /\ ~sound.started /\ Retire
          /\ UNCHANGED <<sound, sink>>
    /\ UNCHANGED <<film, core, feed, card, done, loops, under, pauses, ear>>

---------------------------------------------------------------------------
\* Feeding and decoding.

\* zzplay_feed_round: a chunk is read when the one before it has been taken, and
\* the card takes what it has room for; EOF goes alone.  Once it has no more room,
\* there is no more to feed, or this pass has fed enough (FEED_ROUNDS_PER_PASS; here
\* any number of rounds may be enough), a frame is decoded.
FeedRound ==
    /\ step = "feed"
    /\ LET reads == feed.pending = 0 /\ ~feed.eof
           got == IF reads THEN Smaller(ReadChunk, Len(film.items) - feed.read) ELSE 0
           next == [feed EXCEPT !.read = @ + got, !.pending = @ + got,
                                !.eof = @ \/ (reads /\ got < ReadChunk)]
           taken == Smaller(next.pending, CardInput - (card.has - card.at))
           closes == next.pending = 0 /\ next.eof /\ ~next.sent
           more == next.pending > 0 /\ taken = next.pending /\ ~next.eof
       IN /\ feed' = [next EXCEPT !.pending = @ - taken, !.sent = @ \/ closes]
          /\ card' = [card EXCEPT !.has = @ + taken, !.closed = @ \/ closes]
          /\ sound' = [sound EXCEPT !.refresh = @ \/ next.pending > 0 \/ closes]
          /\ \/ more /\ UNCHANGED step
             \/ step' = "decode"
    /\ UNCHANGED <<film, frame, done, core, sink, loops, under, user, ear>>

\* How much sound the card could decode before the next frame.
Decodable == {n \in 0..(card.has - card.at) :
                 /\ \A k \in 1..n : film.items[card.at + k] = "audio"
                 /\ card.produced + n - card.acked <= HighWater}

\* zzplay_decode_once: the card decodes on as far as it has input and room for the
\* sound, at most to a frame.
Decode ==
    /\ step = "decode" /\ step' = "control"
    /\ \E n \in Decodable :
        LET at == card.at + n
            atEnd == at = card.has
            shows == ~atEnd /\ film.items[at + 1] = "video"
            stuck == \A m \in Decodable : m <= n
        IN /\ n > 0 \/ stuck
           /\ card' = [card EXCEPT !.at = IF shows THEN at + 1 ELSE at,
                                   !.produced = @ + n]
           /\ frame' = IF shows THEN <<DueAt(at + 1)>> ELSE NoFrame
           /\ done' = (atEnd /\ card.closed)
    /\ sound' = [sound EXCEPT !.refresh = TRUE]
    /\ UNCHANGED <<film, feed, core, sink, loops, under, user, ear>>

---------------------------------------------------------------------------
\* The end of the film.

\* zzplay_core_begin_drain and zzplay_drain_audio, which begins to read anew.
Finish ==
    /\ step = "finish" /\ step' = "poll" /\ core' = "DRAINING"
    /\ sound' = [sound EXCEPT !.refresh = TRUE]
    /\ UNCHANGED <<stream, sink, loops, under, user, ear>>

\* Faulty variant: the end of the film counts as an underrun.
EndCounts(sunk) == [sunk EXCEPT !.eos = TRUE]

\* zzplay_ahi_mark_end_of_stream: that AHI had nothing left was no gap.
EndOfStream(sunk) ==
    IF sunk.eos THEN sunk
    ELSE IF sunk.active /\ sunk.queued = 0 /\ ~InUse({"ready", "pending"})
    THEN [sunk EXCEPT !.eos = TRUE, !.underruns = @ - 1, !.active = FALSE]
    ELSE [sunk EXCEPT !.eos = TRUE]

\* What zzplay_restart_session makes of it, or the end.
Over ==
    IF loops = 0 THEN Quit("STOPPED")
    ELSE /\ loops' = loops - 1 /\ under' = Captured
         /\ core' = "PLAYING" /\ step' = "control"
         /\ feed' = FreshFeed /\ card' = FreshCard /\ done' = FALSE
         /\ sound' = FreshSound(sound.backend)
         /\ slots' = [i \in Slots |-> Empty] /\ ahi' = Sink("CLOSED") /\ since' = 0
         /\ inOrder' = (inOrder /\ (heard = Total \/ stalled)) /\ heard' = 0
         /\ stalled' = FALSE
         /\ UNCHANGED <<film, frame, gaps, user>>

\* All that was decoded has been copied.
CaughtUp == sound.copied = sound.produced

\* A turn of the loop of zzplay_drain_audio, after the pump: the sound that never
\* began begins, and when all has been copied AHI plays what it has.
Drain ==
    /\ step = "drain"
    /\ IF sound.backend = "AX"
       THEN IF sound.prepared
            THEN /\ Fallback /\ step' = "poll"
                 /\ UNCHANGED <<stream, core, loops, under, user, ear>>
            ELSE Over
       ELSE LET sunk == IF sound.prepared /\ CaughtUp THEN EndOfStream(ahi) ELSE ahi
                plays == ~sound.started /\ sound.prepared /\ ahi.queued > 0
                drains == CaughtUp /\ ~sound.draining
            IN IF drains /\ ~sound.started /\ ~plays
               THEN Over
               ELSE /\ step' = "look"
                    /\ ahi' = [sunk EXCEPT !.clock = IF drains THEN "DRAINING"
                                                     ELSE IF plays THEN "PLAYING"
                                                     ELSE @]
                    /\ slots' = IF plays \/ drains THEN Sent(slots) ELSE slots
                    /\ since' = IF plays THEN 0 ELSE since
                    /\ sound' = [sound EXCEPT !.started = @ \/ plays,
                                              !.draining = @ \/ drains]
                    /\ UNCHANGED <<stream, core, loops, under, user, ear>>

\* Then it ends, or waits for AHI.  The deadline is longer than AHI needs for all
\* the sound there can be.
Look ==
    /\ step = "look"
    /\ IF Drained \/ stalled THEN Over
       ELSE /\ step' = "poll"
            /\ UNCHANGED <<stream, core, sound, sink, loops, under, user, ear>>

---------------------------------------------------------------------------
Program ==
    \/ Control \/ Poll \/ Fill \/ RetireFrame \/ FeedRound \/ Decode \/ Finish
    \/ Drain \/ Look

FilmNext ==
    \/ Program \/ Pause \/ Resume \/ UserStops \/ CallFails
    \/ AhiPlay \/ AhiStalls \/ Time

\* The program is scheduled, AHI plays, time passes, and the user who has paused
\* the film goes on with it at last.
FilmFairness ==
    /\ WF_filmVars(Program) /\ WF_filmVars(AhiPlay) /\ WF_filmVars(Time)
    /\ WF_filmVars(Resume)

FilmSpec == FilmInit /\ [][FilmNext]_filmVars /\ FilmFairness

---------------------------------------------------------------------------
\* Properties.

\* The end of the film, not brought about by the user or by a failure.
PlayedOut == step = "look" /\ Drained

\* The listener has the sound of the film in its order, and all of it when the film
\* has ended by itself: no buffer is filled again before it has been played, and
\* the drain neither loses the last period nor ends before it.  (zzplay_ahi_submit
\* to zzplay_ahi_drained, zzplay_drain_audio.)
HeardWhole == inOrder /\ (PlayedOut => heard = Total)

\* Of the underruns that are reported each is a time AHI ran dry before the end of
\* the film.  (zzplay_ahi_poll, zzplay_ahi_mark_end_of_stream.)
UnderrunsAreGaps == PlayedOut => Captured <= gaps

\* Every film comes to this: a frame is not held for sound that cannot come before
\* the frame is gone, nor sound for a frame.  (zzplay_retire_held_frame,
\* zzplay_drain_audio.)
FilmOver == step = "ended"
=============================================================================
