--------------------------- MODULE ReleaseSwitch ---------------------------
(***************************************************************************)
(* What an update promises: the server is always on one whole release, the *)
(* link, the configuration, the database schema and the recorded version   *)
(* together, and it moves to a newer one in a single step, after that one  *)
(* was seen healthy.  UpgradeTransaction implements this with a journal.   *)
(***************************************************************************)
EXTENDS Naturals

CONSTANT MaxVersion      \* releases are numbered 1..MaxVersion

VARIABLES system,        \* the release that every part belongs to
          healthy        \* the release that passed the last health check

vars == <<system, healthy>>

Versions == 1..MaxVersion

Whole(v) == [link |-> v, config |-> v, schema |-> v, version |-> v]

Init == system = Whole(1) /\ healthy \in 0..MaxVersion

CheckHealth ==
    /\ healthy' \in 0..MaxVersion
    /\ UNCHANGED system

\* A newer release takes over; the older ones are never returned to.
Upgrade(v) ==
    /\ v > system.version
    /\ healthy = v
    /\ system' = Whole(v)
    /\ UNCHANGED healthy

Next == CheckHealth \/ \E v \in Versions : Upgrade(v)

Spec == Init /\ [][Next]_vars
=============================================================================
