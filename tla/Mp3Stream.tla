----------------------------- MODULE Mp3Stream -----------------------------
(***************************************************************************)
(* Streamed MP3 decoding: the four clients of the card's AUDIO_STREAM      *)
(* calls.  zzplay (tools/zzplay-mp3.c) decodes for AHI or for a benchmark, *)
(* zz9k-mp3 to a file, and mpega.library frame by frame for its caller.    *)
(*                                                                         *)
(* The card keeps a ring of compressed input and a ring of PCM in shared   *)
(* memory.  A feed or a read is a blocking call: the card decodes within   *)
(* it, as far as the PCM ring has room, and its reply says how much PCM    *)
(* there is in all.  A read returns room.  A feed for which the input ring *)
(* has no room is refused with BACKPRESSURE.                               *)
(*                                                                         *)
(* Compressed data is measured by the PCM it decodes to, in units of a     *)
(* frame; a unit is its number in the file.                                *)
(***************************************************************************)
EXTENDS Naturals, Sequences, FiniteSets

CONSTANTS
    Setups,         \* clients, their sizes, and how much the card decodes at once
    FileLength,     \* units in the file
    InputCapacity,  \* of the ring of compressed data
    FullPcm,        \* ZZPLAY_MP3_DEFAULT_PCM_CAPACITY
    AckBatch,       \* 192 KB: PCM credit worth a call
    Retries,        \* calls of a loop that a client gives up after
    MaxSeeks,       \* bound: seeks of mpega.library's caller
    ReadsKeepFlag   \* whether the reply of a read shows a refused feed's flag

SetupType == [client : {"zzplay", "ahi", "mp3", "mpega"},
              pcm : Nat, chunk : Nat, period : Nat, sliced : BOOLEAN]

\* What a module that instantiates this one assumes of the constants.
Mp3StreamAssumption ==
    /\ Setups \subseteq SetupType
    /\ \A s \in Setups : 0 \notin {s.pcm, s.chunk, s.period}
    /\ {FileLength, InputCapacity, FullPcm, AckBatch, Retries} \subseteq Nat \ {0}
    /\ MaxSeeks \in Nat /\ ReadsKeepFlag \in BOOLEAN

VARIABLES
    setup,     \* the client and its sizes
    pc,        \* where it is
    after,     \* where it goes when the PCM at hand is taken
    file,      \* units read from the file
    chunk,     \* units in the staging buffer
    eof,       \* the feed with the EOF flag has been reached
    seen,      \* produced_seen: PCM taken from the ring
    pending,   \* of it, not yet returned to the card
    offset,    \* where the next PCM is
    avail,     \* what there is to take
    before,    \* seen, when a round of the last flush began
    guard,     \* calls of the current loop
    rounds,    \* rounds of drain_stream_pcm's own loop (zz9k-mp3)
    queued,    \* AHI buffers in use
    started,   \* AHI plays
    seeks,     \* seeks so far
    result,    \* how it ended
    input,     \* the card: compressed units not yet decoded
    closed,    \* it has had the EOF
    produced,  \* PCM it has made, as its last reply says
    acked,     \* PCM returned to it
    ring,      \* what the PCM ring holds
    done,      \* DONE, and
    back,      \* BACKPRESSURE of the last reply
    heard,     \* ghost: the unit the listener had last
    intact,    \* ghost: they came in the order of the file
    disturbed  \* ghost: a call failed, or the user stopped

ahi    == <<queued, started>>
place  == <<setup, after, file, chunk, eof, before, guard, rounds, seeks>>
cursor == <<seen, pending, offset>>
card   == <<input, closed, produced, acked, ring, done, back>>
ear    == <<heard, intact>>
end    == <<result, disturbed>>
vars == <<setup, pc, after, file, chunk, eof, seen, pending, offset, avail, before,
          guard, rounds, queued, started, seeks, result, input, closed, produced,
          acked, ring, done, back, heard, intact, disturbed>>

Is(client) == setup.client = client
Zzplay     == setup.client \in {"zzplay", "ahi"}

\* Two AHI buffers of a period each.
AhiBuffers == 2

EmptyRing(size) == [i \in 0..(size - 1) |-> 0]

\* The session has begun, the file is open, and nothing has been read; or the
\* stream has ended before that, when there is none.
InitAt(where) ==
    /\ setup \in Setups /\ pc = where /\ after = "read"
    /\ file = 0 /\ chunk = 0 /\ eof = FALSE
    /\ seen = 0 /\ pending = 0 /\ offset = 0 /\ avail = 0 /\ before = 0 /\ guard = 0
    /\ rounds = 0
    /\ queued = 0 /\ started = FALSE /\ seeks = 0 /\ result = "none"
    /\ input = <<>> /\ closed = FALSE /\ produced = 0 /\ acked = 0
    /\ ring = EmptyRing(setup.pcm) /\ done = FALSE /\ back = FALSE
    /\ heard = 0 /\ intact = TRUE /\ disturbed = (where = "ended")

Init == InitAt("start")

---------------------------------------------------------------------------
\* The card.

Least(a, b) == IF a < b THEN a ELSE b

\* Decodes as far as there is room in the PCM ring; sliced, at least a unit.
Amounts(compressed, freed) ==
    LET most == Least(Len(compressed), setup.pcm - (produced - freed))
    IN IF setup.sliced /\ most > 0 THEN 1..most ELSE {most}

Decode(compressed, freed) ==
    \E n \in Amounts(compressed, freed) :
        /\ input' = SubSeq(compressed, n + 1, Len(compressed))
        /\ produced' = produced + n
        /\ ring' = [i \in DOMAIN ring |->
                       LET k == (i + setup.pcm - (produced % setup.pcm)) % setup.pcm
                       IN IF k < n THEN compressed[k + 1] ELSE ring[i]]
        /\ acked' = freed
        /\ done' = (closed' /\ input' = <<>>)

Staged == [i \in 1..chunk |-> file - chunk + i]

\* zz9k_audio_stream_feed and ZZ9KAudioStreamFeed.
FeedCall ==
    IF Len(input) + chunk > InputCapacity
    THEN back' = TRUE /\ UNCHANGED <<input, closed, produced, acked, ring, done>>
    ELSE /\ closed' = (closed \/ eof) /\ back' = FALSE
         /\ Decode(input \o Staged, acked)

\* zz9k_audio_stream_read and ZZ9KAudioStreamRead; the reply holds pcm_read.
ReadCall ==
    /\ UNCHANGED closed
    /\ back' = (back /\ ReadsKeepFlag)
    /\ Decode(input, acked + pending)
    /\ pending' = 0 /\ offset' = acked' % setup.pcm /\ UNCHANGED seen

NoCall == UNCHANGED <<card, cursor>>

---------------------------------------------------------------------------
\* What the clients share.

\* zzplay_mp3_pcm_ack_batch_bytes; mpega.library has one size.
Batch == IF Is("mpega") \/ setup.pcm >= FullPcm THEN AckBatch ELSE setup.pcm \div 2

\* zzplay sends a forced read with no credit as well, the others do not.
ReadDue(force) ==
    \/ pending >= Batch /\ pending > 0
    \/ force /\ (Zzplay \/ pending > 0)

Ack(force) == IF ReadDue(force) THEN ReadCall ELSE NoCall

\* Faulty variant: credit is given for all there is, not for what was copied.
CreditAll(n) == pending + avail

Credit(n) == pending + n

\* n units are copied out of the ring.
Take(n) ==
    /\ intact' = (intact /\ \A i \in 0..(n - 1) :
                               ring[(offset + i) % setup.pcm] = heard + i + 1)
    /\ heard' = heard + n
    /\ seen' = seen + n /\ pending' = Credit(n)
    /\ offset' = (offset + n) % setup.pcm

Ends(how) == pc' = "ended" /\ result' = how /\ UNCHANGED disturbed

GoesTo(where) == pc' = where /\ UNCHANGED end

\* Any call may fail, and zzplay looks for a stop in every loop: session and
\* buffers are freed on the way out.
Disturb ==
    /\ pc \in {"start", "idle", "room", "feed", "take", "ack", "flushed"}
    /\ pc' = "ended" /\ result' = "failed" /\ disturbed' = TRUE
    /\ UNCHANGED <<place, cursor, avail, ahi, card, ear>>

---------------------------------------------------------------------------
\* zzplay_mp3_decode_once and stream_decode_file of zz9k-mp3.

Start ==
    /\ pc = "start"
    /\ GoesTo(IF Is("mpega") THEN "idle" ELSE "read")
    /\ UNCHANGED <<place, cursor, avail, ahi, card, ear>>

\* The next chunk of the file, or none: the feed says EOF.
Source ==
    LET got == Least(setup.chunk, FileLength - file)
    IN file' = file + got /\ chunk' = got /\ eof' = (got = 0)

ReadFile ==
    /\ pc = "read" /\ Source
    /\ GoesTo(IF Is("mp3") /\ ~eof' THEN "room" ELSE "feed")
    /\ guard' = 0
    /\ UNCHANGED <<setup, after, before, rounds, seeks, cursor, avail, ahi, card, ear>>

\* make_stream_input_room: PCM is returned until the chunk will fit.
MakeRoom ==
    /\ pc = "room"
    /\ IF Len(input) > InputCapacity - chunk /\ pending > 0
       THEN IF guard < Retries
            THEN /\ ReadCall /\ GoesTo("drain")
                 /\ after' = "room" /\ guard' = guard + 1
            ELSE NoCall /\ Ends("failed") /\ UNCHANGED <<after, guard>>
       ELSE NoCall /\ GoesTo("feed") /\ guard' = 0 /\ UNCHANGED after
    /\ UNCHANGED <<setup, file, chunk, eof, before, rounds, seeks, avail, ahi, ear>>

Feed ==
    /\ pc = "feed" /\ ~Is("mpega")
    /\ IF guard < Retries
       THEN FeedCall /\ GoesTo("drain") /\ guard' = guard + 1
       ELSE UNCHANGED <<card, guard>> /\ Ends("failed")
    /\ after' = "fed"
    /\ UNCHANGED <<setup, file, chunk, eof, before, rounds, seeks, cursor, avail, ahi, ear>>

\* zzplay_mp3_pump_pcm and drain_stream_pcm: what there is to take.  The latter is a
\* loop that looks again after each time, and counts.
Drain ==
    /\ pc = "drain" /\ avail' = produced - seen
    /\ IF avail' > setup.pcm \/ rounds = Retries
       THEN Ends("failed") /\ UNCHANGED rounds
       ELSE GoesTo("take") /\ rounds' = IF Is("mp3") THEN rounds + 1 ELSE 0
    /\ UNCHANGED <<setup, after, file, chunk, eof, before, guard, seeks, cursor, ahi,
                   card, ear>>

\* Into a file or nowhere at once, for AHI in periods, the last one short.
Portion ==
    IF ~Is("ahi") THEN avail
    ELSE IF avail >= setup.period THEN setup.period
    ELSE IF eof THEN avail ELSE 0

\* Faulty variant: AHI is started when a buffer more than there are is queued.
EnoughAndOne(buffers) == buffers > AhiBuffers

\* zzplay_mp3_start_ahi: unless it is the end, AHI starts with all its buffers.
EnoughQueued(buffers) == buffers = AhiBuffers

\* zzplay_mp3_acquire_ahi waits for a buffer.
TakePortion ==
    /\ pc = "take" /\ Portion > 0
    /\ IF Is("ahi")
       THEN /\ queued < AhiBuffers /\ queued' = queued + 1
            /\ started' = (started \/ eof \/ EnoughQueued(queued'))
       ELSE UNCHANGED ahi
    /\ Take(Portion) /\ avail' = avail - Portion
    /\ GoesTo("ack")
    /\ UNCHANGED <<place, card>>

\* Nothing more; zzplay's benchmark returns the credit all the same.
TookAll ==
    /\ pc = "take" /\ Portion = 0
    /\ IF Is("zzplay") THEN Ack(eof) ELSE NoCall
    /\ GoesTo(after) /\ rounds' = 0
    /\ UNCHANGED <<setup, after, file, chunk, eof, before, guard, seeks, avail, ahi,
                   ear>>

AckTaken ==
    /\ pc = "ack" /\ ~Is("mpega")
    /\ Ack(Is("zzplay") /\ eof)
    /\ GoesTo(IF Is("ahi") THEN "take" ELSE IF Is("mp3") THEN "drain" ELSE after)
    /\ UNCHANGED <<place, avail, ahi, ear>>

\* A refused feed is repeated, once a read has made the card decode.
Fed ==
    /\ pc = "fed" /\ ~Is("mpega")
    /\ IF back THEN Ack(TRUE) ELSE NoCall
    /\ GoesTo(IF back' THEN "feed" ELSE IF eof THEN "flush" ELSE "read")
    /\ guard' = IF back' THEN guard ELSE 0
    /\ UNCHANGED <<setup, after, file, chunk, eof, before, rounds, seeks, avail, ahi,
                   ear>>

\* After the EOF: what the card still holds is read, round after round.
Flush ==
    /\ pc = "flush" /\ before' = seen /\ after' = "flushed"
    /\ IF guard < Retries THEN GoesTo("drain") /\ guard' = guard + 1
                          ELSE Ends("failed") /\ UNCHANGED guard
    /\ UNCHANGED <<setup, file, chunk, eof, rounds, seeks, cursor, avail, ahi, card,
                   ear>>

Flushed ==
    /\ pc = "flushed"
    /\ IF Is("mp3") /\ pending = 0 THEN NoCall /\ GoesTo("finish")
                                   ELSE Ack(TRUE) /\ GoesTo("settled")
    /\ UNCHANGED <<place, avail, ahi, ear>>

\* Faulty variant: it is enough that what the ring had is taken.
EnoughWhenEmpty == pending = 0

\* zzplay: everything taken, and the card is done or the round took nothing.
Settles == /\ pending = 0 /\ produced = seen
           /\ done \/ before = seen

Settled ==
    /\ pc = "settled"
    /\ GoesTo(IF Zzplay /\ Settles THEN "finish" ELSE "flush")
    /\ UNCHANGED <<place, cursor, avail, ahi, card, ear>>

\* zzplay_mp3_finish_ahi waits for the buffers; nothing decoded is an error.
Finish ==
    /\ pc = "finish" /\ queued = 0
    /\ Ends(IF Zzplay /\ seen = 0 THEN "failed" ELSE "ok")
    /\ UNCHANGED <<place, cursor, avail, ahi, card, ear>>

AhiPlays ==
    /\ started /\ queued > 0 /\ queued' = queued - 1
    /\ UNCHANGED <<pc, started, place, cursor, avail, card, ear, end>>

---------------------------------------------------------------------------
\* mpega.library: MPEGA_decode_frame and MPEGA_seek.

DecodeFrame ==
    /\ pc = "idle" /\ GoesTo("frame") /\ guard' = 0
    /\ UNCHANGED <<setup, after, file, chunk, eof, before, rounds, seeks, cursor,
                   avail, ahi, card, ear>>

\* The top of the loop of mpega_stream_feed_until_pcm.
FrameBegins ==
    /\ pc = "frame"
    /\ IF produced > seen THEN NoCall /\ GoesTo("copy")
       ELSE IF guard < Retries THEN Ack(TRUE) /\ GoesTo("acked")
       ELSE NoCall /\ GoesTo("idle")
    /\ UNCHANGED <<place, avail, ahi, ear>>

\* What a forced read has brought is not looked at.
FrameSource ==
    /\ pc = "acked"
    /\ IF done \/ eof
       THEN Ends("ok") /\ UNCHANGED <<file, chunk, eof>>
       ELSE Source /\ GoesTo("feed")
    /\ UNCHANGED <<setup, after, before, guard, rounds, seeks, cursor, avail, ahi, card,
                   ear>>

\* Nor is BACKPRESSURE.
FrameFeed ==
    /\ pc = "feed" /\ Is("mpega")
    /\ FeedCall /\ guard' = guard + 1
    /\ IF produced' > seen THEN GoesTo("copy")
       ELSE IF done' THEN Ends("ok") ELSE GoesTo("frame")
    /\ UNCHANGED <<setup, after, file, chunk, eof, before, rounds, seeks, cursor,
                   avail, ahi, ear>>

\* mpega_copy_pcm_planar: one frame of the caller's.
CopyFrame ==
    /\ pc = "copy" /\ Take(Least(produced - seen, setup.period))
    /\ GoesTo("ack")
    /\ UNCHANGED <<place, avail, ahi, card>>

AckFrame ==
    /\ pc = "ack" /\ Is("mpega") /\ Ack(FALSE) /\ GoesTo("idle")
    /\ UNCHANGED <<place, avail, ahi, ear>>

\* mpega_stream_restart_at_byte: a new session from another place.
Seek ==
    /\ pc = "idle" /\ seeks < MaxSeeks /\ seeks' = seeks + 1
    /\ \E at \in 0..(FileLength - 1) : file' = at /\ heard' = at
    /\ chunk' = 0 /\ eof' = FALSE
    /\ seen' = 0 /\ offset' = 0 /\ pending' = 0
    /\ input' = <<>> /\ closed' = FALSE /\ produced' = 0 /\ acked' = 0
    /\ ring' = EmptyRing(setup.pcm) /\ done' = FALSE /\ back' = FALSE
    /\ UNCHANGED <<setup, pc, after, before, guard, rounds, avail, ahi, intact, end>>

---------------------------------------------------------------------------
Step == \/ Start \/ ReadFile \/ MakeRoom \/ Feed \/ Drain \/ TakePortion \/ TookAll
        \/ AckTaken \/ Fed \/ Flush \/ Flushed \/ Settled \/ Finish
        \/ DecodeFrame \/ FrameBegins \/ FrameSource \/ FrameFeed \/ CopyFrame
        \/ AckFrame

Next == Step \/ AhiPlays \/ Disturb \/ Seek

Spec == Init /\ [][Next]_vars

\* The client runs and AHI plays what it has; mpega.library is called for the
\* next frame, and seeks end.
Fairness == WF_vars(Step) /\ WF_vars(AhiPlays)

FairSpec == Spec /\ Fairness

---------------------------------------------------------------------------
TypeOK ==
    /\ setup \in Setups /\ file \in 0..FileLength /\ chunk \in 0..setup.chunk
    /\ 0 <= acked /\ acked <= seen /\ seen <= produced
    /\ produced - acked <= setup.pcm /\ pending = seen - acked
    /\ offset = seen % setup.pcm
    /\ Len(input) <= InputCapacity
    /\ queued \in 0..AhiBuffers /\ avail <= produced
    /\ guard \in 0..Retries /\ rounds \in 0..Retries /\ seeks \in 0..MaxSeeks
    /\ result \in {"none", "ok", "failed"}

\* The listener has the file in its order: PCM is not overwritten before it is
\* taken, nor taken twice or from the wrong place, although a batch of it is
\* returned to the card at once, and no compressed data is skipped.
HeardInOrder == intact

\* Unless a call fails or the user stops, the stream plays to the end of the
\* file: a feed that is refused is repeated until the card takes it, the loops
\* do not give up, and what was decoded after the EOF is not left behind.
StreamPlays ==
    (pc = "ended" /\ ~disturbed) => (result = "ok" /\ intact /\ heard = FileLength)

\* Every stream comes to this: no loop of feeds, reads and full AHI buffers lasts
\* for ever.
StreamOver == pc = "ended"
=============================================================================
