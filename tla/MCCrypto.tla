----------------------------- MODULE MCCrypto -----------------------------
(***************************************************************************)
(* The two users of the card's crypto service, a pipelined batch and the   *)
(* provider's offload layer, one small instance of each.  They share       *)
(* nothing: the initial state starts one of them and the other one is at   *)
(* its end, where nothing of it is enabled.                                *)
(***************************************************************************)
EXTENDS CryptoBatch

CONSTANTS
    Operations, RecordSizes, MaxOps, MaxHandles,  \* those of Offload
    InboxSize                                     \* and its RingSize

VARIABLES
    window, provider, after, answer, slot, op, n, at, attempts, outcome,
    inbox, block, lost, stray

offloadVars == <<window, provider, after, answer, slot, op, n, at, attempts,
                 outcome, inbox, block, lost, stray>>

Offloads == INSTANCE Offload WITH pc <- provider, RingSize <- InboxSize

ASSUME ProviderAssumption == Offloads!OffloadAssumption

BatchRuns == pc # "off"

MCInit == \/ Init /\ Offloads!InitAt("closed")
          \/ InitAt("off") /\ Offloads!Init

MCNext == \/ BatchRuns /\ Next /\ UNCHANGED offloadVars
          \/ Offloads!Next /\ UNCHANGED vars

MCSpec == MCInit /\ [][MCNext]_<<vars, offloadVars>> /\ Fairness

\* What the provider gets from the card is computed from the inputs it passed, or
\* an operation that had timed out wrote over one of its buffers.
OffloadResultIsOwn == Offloads!OffloadResultIsOwn

\* Every block of card memory is named, on its way, or lost by a timeout.
BlocksAccounted == Offloads!BlocksAccounted
=============================================================================
