------------------------- MODULE ReapItemLifeCycle -------------------------
(***************************************************************************)
(* What the reaper promises for an item.  An item that was added is armed  *)
(* until either the reaper fires its callback, once, or the item is        *)
(* disarmed by cancel() or by its destructor, after which the callback     *)
(* never comes.                                                            *)
(***************************************************************************)
CONSTANT Items

VARIABLE status

States == {"none", "armed", "firing", "fired", "disarmed"}

Init == status = [i \in Items |-> "none"]

Move(i, from, to) ==
    /\ status[i] = from
    /\ status' = [status EXCEPT ![i] = to]

Arm(i) == Move(i, "none", "armed")

Fire(i) == Move(i, "armed", "firing")

Fired(i) == Move(i, "firing", "fired")

Disarm(i) == Move(i, "armed", "disarmed")

Next == \E i \in Items : Arm(i) \/ Fire(i) \/ Fired(i) \/ Disarm(i)

Spec == Init /\ [][Next]_status
=============================================================================
