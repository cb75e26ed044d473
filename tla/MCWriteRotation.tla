-------------------------- MODULE MCWriteRotation ---------------------------
(***************************************************************************)
(* Instances of WriteRotation for TLC.  There are two ticks to the second, *)
(* so that a lead, a slot length or a pass may fall between seconds; slots *)
(* of one and two seconds and up to three pods make periods of 1 to 6      *)
(* seconds, all of which divide the clock's Cycle.                         *)
(***************************************************************************)
EXTENDS WriteRotation

\* An enabled rotation, by mode, slot length, displacement and lead.
Rotate(mode, t, v, lead) ==
  [enabled |-> TRUE, mode |-> mode, slotLength |-> t,
   slotsFromWriteToPurge |-> v, leadTime |-> lead, interval |-> {}]
Off(interval) == [Rotate("PurgeAndWrite", {}, {}, {}) EXCEPT
                    !.enabled = FALSE, !.interval = interval]

\* Rotations the gate accepts on two or three pods, none with a lead of a
\* whole slot.
Usable == {Rotate("PurgeAndWrite", {2}, {}, {}),
           Rotate("PurgeAndWrite", {2}, {-1}, {1}),
           Rotate("PurgeAndWrite", {4}, {1}, {3}),
           Rotate("WriteOnly", {2}, {}, {}),
           Rotate("PurgeOnly", {4}, {}, {})}

\* Rotation switched on, off, and declared so that it is refused.
Switched == {Off({4}), Rotate("PurgeAndWrite", {2}, {-1}, {1}),
             Rotate("WriteOnly", {2}, {}, {}),
             Rotate("PurgeAndWrite", {0}, {}, {})}

\* What a user may write by mistake: refused whatever the size of the
\* cluster.
Refused == {[Rotate("PurgeAndWrite", {2}, {}, {}) EXCEPT !.interval = {4}],
            Off({3}), Off({0}),
            Rotate("PurgeAndWrite", {}, {}, {}),
            Rotate("PurgeAndWrite", {0}, {}, {}),
            Rotate("PurgeAndWrite", {3}, {}, {}),
            Rotate("PurgeOnly", {2}, {1}, {})}

\* Slots of one second only; the third collides on two pods, the fourth leads
\* too far on one and two.
Lasting == {Rotate("PurgeAndWrite", {2}, {}, {}),
            Rotate("PurgeAndWrite", {2}, {-1}, {1}),
            Rotate("PurgeAndWrite", {2}, {2}, {}),
            Rotate("PurgeAndWrite", {2}, {}, {2}),
            Rotate("WriteOnly", {2}, {}, {}), Off({4})} \cup Refused

Keep == [enabled |-> TRUE, retention |-> {}]
OneRetention  == {Keep}
OnOff         == {Keep, [Keep EXCEPT !.enabled = FALSE]}
AllRetentions == {Keep, [Keep EXCEPT !.retention = {3}],
                  [Keep EXCEPT !.enabled = FALSE]}
=============================================================================
