------------------------------ MODULE MCAudio ------------------------------
(***************************************************************************)
(* The three ways to the card's audio: direct PCM rings, streamed MP3      *)
(* decoding, and the sound of a film.  They share nothing: the initial     *)
(* state starts one of them and the others are at their end, where nothing *)
(* of them is enabled.                                                     *)
(***************************************************************************)
EXTENDS AudioRing

CONSTANTS
    Setups, FileLength, InputCapacity, FullPcm, AckBatch, Retries, MaxSeeks,
    ReadsKeepFlag  \* those of Mp3Stream

CONSTANTS
    Films, FilmPeriod, HighWater, ReadChunk, CardInput, MaxPauses, MaxBusy,
    MaxSince       \* those of Zzplay

VARIABLES
    setup, decoder, next, file, chunk, eof, seen, pending, offset, avail, before,
    guard, rounds, queued, started, seeks, ended, input, closed, produced, acked,
    pcm, done, back, heard, intact, disturbed

streamVars == <<setup, decoder, next, file, chunk, eof, seen, pending, offset, avail,
                before, guard, rounds, queued, started, seeks, ended, input, closed,
                produced, acked, pcm, done, back, heard, intact, disturbed>>

VARIABLES
    film, step, core, feed, videoCard, frame, mediaDone, sound, slots, ahi, since,
    loops, under, pauses, busy, listened, ordered, gaps, stalled

filmVars == <<film, step, core, feed, videoCard, frame, mediaDone, sound, slots, ahi,
              since, loops, under, pauses, busy, listened, ordered, gaps, stalled>>

Mp3 == INSTANCE Mp3Stream WITH pc <- decoder, after <- next, result <- ended,
                               ring <- pcm

Film == INSTANCE Zzplay WITH card <- videoCard, done <- mediaDone, heard <- listened,
                             inOrder <- ordered

ASSUME MediaAssumption == Mp3!Mp3StreamAssumption /\ Film!ZzplayAssumption

Setup(client, size, length, period, sliced) ==
    [client |-> client, pcm |-> size, chunk |-> length, period |-> period,
     sliced |-> sliced]

\* Every client with a full ring of PCM, and with a compact one where that plays.
\* A chunk decodes to more than the ring has, as 64 KB of MP3 do.
MCSetups ==
    {Setup("zzplay", 4, 6, 1, TRUE), Setup("zzplay", 2, 4, 1, TRUE),
     Setup("ahi", 4, 6, 1, TRUE), Setup("ahi", 5, 6, 3, TRUE),
     Setup("ahi", 2, 4, 1, TRUE), Setup("mp3", 4, 6, 1, TRUE),
     Setup("mp3", 2, 4, 1, TRUE), Setup("mpega", 4, 6, 1, FALSE)}

\* The compact rings of Zorro II that are left out above: AHI at 44.1 kHz, where
\* a period has 35280 bytes and the ring 32768, and mpega.library.
CompactSetups == {Setup("ahi", 3, 4, 4, FALSE), Setup("mpega", 2, 6, 1, FALSE)}

Movie(items, firstFrame, firstSound, auto, repeats) ==
    [items |-> items, video |-> firstFrame, audio |-> firstSound, auto |-> auto,
     loops |-> repeats]

v == "video"
a == "audio"

\* Films well interleaved, with the sound ahead of the picture and behind it, with
\* more of the one than of the other, with less sound than AHI's buffers hold, and
\* with sound that only begins when the last frame is gone.
MCFilms ==
    {Movie(<<v, a, a, v, a, v, a, v, a, v, a, a, a>>, 1, 1, FALSE, 0),
     Movie(<<v, a, v, a, a, v, a, v, v, a>>, 0, 0, TRUE, 1),
     Movie(<<v, v, a, v, a, v, a, a, a>>, 0, 2, TRUE, 0),
     Movie(<<a, a, a, a, a, v, v, v, a, v, v>>, 0, 0, FALSE, 0),
     Movie(<<a, a, a, v, a, v, v, v, v>>, 3, 0, FALSE, 0),
     Movie(<<v, v, a, a, a>>, 0, 5, TRUE, 0),
     Movie(<<v, a, v>>, 0, 0, FALSE, 1)}

\* The others at their end.
NoRing   == InitAt("done")
NoStream == Mp3!InitAt("ended") /\ setup = CHOOSE s \in Setups : TRUE
NoFilm   == Film!FilmInitAt("ended", "STOPPED") /\ film = CHOOSE f \in Films : TRUE

StreamInit == NoRing /\ Mp3!Init /\ NoFilm

MCInit == \/ Init /\ NoStream /\ NoFilm
          \/ StreamInit
          \/ NoRing /\ NoStream /\ Film!FilmInit

MCNext == \/ Next /\ UNCHANGED <<streamVars, filmVars>>
          \/ Mp3!Next /\ UNCHANGED <<vars, filmVars>>
          \/ Film!FilmNext /\ UNCHANGED <<vars, streamVars>>

MCSpec == /\ MCInit /\ [][MCNext]_<<vars, streamVars, filmVars>>
          /\ Mp3!Fairness /\ Film!FilmFairness

\* Streamed decoding alone, without fairness.
StreamSpec == StreamInit /\ [][MCNext]_<<vars, streamVars, filmVars>>

\* The listener has the file in its order.
HeardInOrder == Mp3!HeardInOrder

\* An undisturbed stream plays to the end of the file.
StreamPlays == Mp3!StreamPlays

\* The listener has the sound of a film in its order, and all of it.
HeardWhole == Film!HeardWhole

\* No underrun is reported that was none.
UnderrunsAreGaps == Film!UnderrunsAreGaps

\* Playback ends: no loop of feeds, reads and full AHI buffers lasts for ever, and
\* picture and sound of a film never wait for each other for ever.
PlaybackEnds == <>(Mp3!StreamOver /\ Film!FilmOver)
=============================================================================
