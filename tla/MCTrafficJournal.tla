--------------------------- MODULE MCTrafficJournal ---------------------------
(* Instances of TrafficJournal for TLC. *)
EXTENDS TrafficJournal

CONSTANTS up, down

\* One direction moves enough bytes to wrap its counter, the other one enough
\* to tell a snapshot apart from a single point in time.
MCMaxMoved == [d \in Directions |-> IF d = up THEN 3 ELSE 1]
===============================================================================
