------------------------------ MODULE MCAsync ------------------------------
(***************************************************************************)
(* Asynchronous calls from both ends: zz9k.library with its dispatcher,    *)
(* and the programs that wait for its replies with a timeout.  A program   *)
(* sees of the library only that replies come, in any order or never, so   *)
(* the two are checked apart: the initial state starts one of them.        *)
(***************************************************************************)
EXTENDS AsyncLibrary

CONSTANTS Count, Tools, MaxRounds, OthersOpen  \* those of EventWait

VARIABLES
    tool, others, place, round, sent, port, signals, woken, timer, at, got, seen,
    expected, lostRace, status, elapsed, stray

programVars == <<tool, others, place, round, sent, port, signals, woken, timer, at,
                 got, seen, expected, lostRace, status, elapsed, stray>>

Program == INSTANCE EventWait WITH pc <- place, pending <- sent, result <- status

ASSUME ProgramAssumption == Program!EventWaitAssumption

NoProgram == place = "closed" /\ status = "NONE"

MCInit ==
    /\ Init
    /\ \/ Program!Init
       \/ /\ Program!InitAt("closed") /\ others
          /\ tool = CHOOSE name \in Tools : TRUE

MCNext == \/ NoProgram /\ Next /\ UNCHANGED programVars
          \/ Program!Next /\ UNCHANGED vars

MCSpec == MCInit /\ [][MCNext]_<<vars, programVars>> /\ Fairness /\ Program!Fairness

\* A program alone, without fairness.
ProgramSpec == Init /\ Program!Init /\ [][MCNext]_<<vars, programVars>>

\* A task never sleeps on a reply that is there.
NoReplySleptOn == Program!NoReplySleptOn

\* A program that ends well leaves nothing behind.
SuccessLeavesNothing == Program!SuccessLeavesNothing

\* A wait that reports a timeout has waited that long.
TimeoutIsGenuine == Program!TimeoutIsGenuine

\* Whatever the library does, the program ends.
ToolEnds == Program!ToolEnds
=============================================================================
