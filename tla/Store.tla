------------------------------- MODULE Store -------------------------------
(***************************************************************************)
(* What the database promises the services, as if a save were one step and *)
(* a start another: between two saves the copy kept does not change, a     *)
(* save keeps all the registries or leaves nothing one may count on, and a *)
(* start brings back what is kept.                                         *)
(***************************************************************************)
CONSTANTS
  Tables,   \* names of the tables
  Images,   \* what the registries may hold: functions on Tables
  Nothing,  \* the registries of services that do not run
  Unknown   \* what is kept is not the image of a save

VARIABLES
  on,     \* the services serve
  held,   \* their registries
  kept,   \* what the last save kept, Unknown during and after a failed one
  whole   \* nothing failed since that save

svars == <<on, held, kept, whole>>

PartOf(image, other) == \A t \in Tables : image[t] \subseteq other[t]

StoreInit == on = FALSE /\ held = Nothing /\ kept = Unknown /\ whole = TRUE

Work == on /\ held' \in Images /\ UNCHANGED <<on, kept, whole>>

Begin == on /\ kept' = Unknown /\ UNCHANGED <<on, held, whole>>

LeaveIf(over) == IF over THEN ~on' /\ held' = Nothing ELSE UNCHANGED <<on, held>>

Saved ==
  /\ on /\ kept = Unknown
  /\ kept' = held /\ whole'
  /\ \E over \in BOOLEAN : LeaveIf(over)

\* Failures are noticed by nobody.
Failures == whole' => whole

Stop == on /\ LeaveIf(TRUE) /\ Failures /\ UNCHANGED kept

\* While the registries serve and a save stands nothing can fail.
Fail == (~on \/ kept = Unknown) /\ ~whole' /\ UNCHANGED <<on, held, kept>>

\* Exactly what is kept, or part of it once a read was cut short.
Start ==
  /\ ~on /\ on' /\ Failures
  /\ held' \in Images
  /\ kept # Unknown => PartOf(held', kept) /\ (whole' => held' = kept)
  /\ UNCHANGED kept

\* A start is interrupted, and what it has read so far is saved.
Cut ==
  /\ ~on /\ on' /\ kept' = Unknown
  /\ held' \in Images
  /\ kept # Unknown => PartOf(held', kept)
  /\ UNCHANGED whole

StoreNext == Work \/ Begin \/ Saved \/ Stop \/ Fail \/ Start \/ Cut

StoreSpec == StoreInit /\ [][StoreNext]_svars
=============================================================================
