------------------------------- MODULE MCLive -------------------------------
(***************************************************************************)
(* The liveness of the two blocking interfaces of the host library, the    *)
(* mailbox operations and the audio ring session, on one small instance of *)
(* each.  They share nothing: the initial state starts one of them and the *)
(* other one is at its end, where nothing of it is enabled.                *)
(***************************************************************************)
EXTENDS Mailbox

CONSTANTS
    Clients, Nobody, Capacity, Period, CursorBase, SeqLimit, FirstSeq, Target,
    Chunk, CreditRetries, RetryLimit, WaitLimit, HeartbeatWaits, MaxGen,
    ReuseWhileHeld  \* those of AudioRing

VARIABLES
    pLine, fLine, ring, gen, holder, fpc, fSnap, adopted, played, fOut, releases,
    session,  \* pc of AudioRing
    after, lease, write, credit, snap, tries, retries, waits, fed, result

audioVars == <<pLine, fLine, ring, gen, holder, fpc, fSnap, adopted, played, fOut,
               releases, session, after, lease, write, credit, snap, tries,
               retries, waits, fed, result>>

Audio == INSTANCE AudioRing WITH pc <- session

\* Attachments at different addresses, alive at the same time or not.
DistinctMasks == [c \in Contexts |-> c]

MailboxRuns == \E c \in Contexts : pc[c] # "closed"

MCInit == \/ Init /\ Audio!InitAt("done")
          \/ InitAt("closed") /\ Audio!Init

MCNext == \/ MailboxRuns /\ Next /\ UNCHANGED audioVars
          \/ Audio!Next /\ UNCHANGED vars

MCSpec == MCInit /\ [][MCNext]_<<vars, audioVars>> /\ Fairness /\ Audio!Fairness

\* Whatever the firmware does, an audio session comes to its end and is unmapped.
SessionsEnd == Audio!SessionsEnd
=============================================================================
