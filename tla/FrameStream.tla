---------------------------- MODULE FrameStream ----------------------------
(***************************************************************************)
(* What frames::write_frames promises its caller, who sees the calls of    *)
(* the sink and the result, and nothing of the threads: the sink gets the  *)
(* frame of each part once, in walk order, and the write is a success only *)
(* when the walk is over and no part is missing.                           *)
(***************************************************************************)
EXTENDS Naturals, Sequences

VARIABLES
    walking,   \* whether the walk may still seal a part
    sealed,    \* how many parts the walk has sealed
    frames,    \* the parts whose frames the sink has accepted
    outcome    \* what write_frames has returned

vars == <<walking, sealed, frames, outcome>>

Init ==
    /\ walking = TRUE
    /\ sealed = 0
    /\ frames = <<>>
    /\ outcome = "running"

Seal ==
    /\ walking
    /\ sealed' = sealed + 1
    /\ UNCHANGED <<walking, frames, outcome>>

EndWalk ==
    /\ walking
    /\ walking' = FALSE
    /\ UNCHANGED <<sealed, frames, outcome>>

\* Parts are numbered from 0.
Deliver ==
    /\ outcome = "running"
    /\ Len(frames) < sealed
    /\ frames' = Append(frames, Len(frames))
    /\ UNCHANGED <<walking, sealed, outcome>>

\* The index frame, after every part.
Succeed ==
    /\ outcome = "running"
    /\ ~walking
    /\ Len(frames) = sealed
    /\ outcome' = "ok"
    /\ UNCHANGED <<walking, sealed, frames>>

Fail ==
    /\ outcome = "running"
    /\ ~walking
    /\ outcome' \in {"error", "panic"}
    /\ UNCHANGED <<walking, sealed, frames>>

Next == Seal \/ EndWalk \/ Deliver \/ Succeed \/ Fail

\* That a write returns at all is Returns of Frames.
Spec == Init /\ [][Next]_vars
=============================================================================
