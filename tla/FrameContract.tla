--------------------------- MODULE FrameContract ---------------------------
(***************************************************************************)
(* What a published surface id promises: it names one frame of a slot, and *)
(* the slot publishes no further frame while anybody holds that one.  The  *)
(* parties are whoever can hold a frame: threads of the runtime and helper *)
(* processes.  Nobody waits: a party may let go, or never take a frame.    *)
(***************************************************************************)
EXTENDS Naturals

CONSTANTS Slots, Parties

VARIABLES
    frame,          \* frames a slot has published
    held            \* the frames a party holds

Init ==
    /\ frame = [s \in Slots |-> 0]
    /\ held = [p \in Parties |-> {}]

Unheld(s) == \A p \in Parties : \A f \in held[p] : f[1] # s

\* The slot publishes its next frame, and the publisher may keep it.
Publish(s) ==
    /\ Unheld(s)
    /\ frame' = [frame EXCEPT ![s] = @ + 1]
    /\ \/ UNCHANGED held
       \/ \E p \in Parties :
             held' = [held EXCEPT ![p] = @ \cup {<<s, frame[s] + 1>>}]

\* A party takes the frame a slot published last.
Take(p, s) ==
    /\ frame[s] > 0
    /\ held' = [held EXCEPT ![p] = @ \cup {<<s, frame[s]>>}]
    /\ UNCHANGED frame

\* Parties let go of frames.
LetGo ==
    /\ held' \in [Parties -> SUBSET UNION {held[p] : p \in Parties}]
    /\ \A p \in Parties : held'[p] \subseteq held[p]
    /\ UNCHANGED frame

Next ==
    \/ \E s \in Slots : Publish(s) \/ \E p \in Parties : Take(p, s)
    \/ LetGo

Spec == Init /\ [][Next]_<<frame, held>>
=============================================================================
