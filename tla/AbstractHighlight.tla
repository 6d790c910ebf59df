-------------------------- MODULE AbstractHighlight --------------------------
(***************************************************************************)
(* What the spotlight promises (spec 4.4), stated without ids, encodings   *)
(* or colour buffers: a road network split into lane features and roadmark *)
(* features, a cursor resting on a vertex of each category (or on none),   *)
(* and the feature of each category that is lit.  While picking is active *)
(* a refresh lights, per category, exactly the feature under the cursor.   *)
(* A feature is named by its first vertex.                                 *)
(***************************************************************************)
EXTENDS Integers, FiniteSetsExt

CONSTANTS
    Partitions,   \* the possible splits: records with lanes/roadmarks start sets
    NoFeature,    \* nothing lit
    NoHit         \* the cursor is over no feature of that category

VARIABLES
    part,     \* the loaded split into features
    cursor,   \* [lane, roadmark]: the vertex under the cursor, or NoHit
    active,   \* picking enabled and not paused
    lit       \* [lane, roadmark]: the first vertex of the lit feature, or NoFeature

vars == <<part, cursor, active, lit>>

Cursors(p) == [lane : (0..p.laneCount - 1) \cup {NoHit},
               roadmark : (0..p.rmCount - 1) \cup {NoHit}]

\* The feature whose range contains vertex v of a geometry split at `starts`.
FeatureAt(starts, v) == IF v = NoHit THEN NoFeature ELSE Max({s \in starts : s <= v})

Init ==
    /\ part \in Partitions
    /\ cursor \in Cursors(part)
    /\ active \in BOOLEAN
    /\ lit = [lane |-> NoFeature, roadmark |-> NoFeature]

Move ==
    /\ cursor' \in Cursors(part)
    /\ UNCHANGED <<part, active, lit>>

SetActive ==
    /\ active' = ~active
    /\ UNCHANGED <<part, cursor, lit>>

Refresh ==
    /\ active
    /\ lit' = [lane |-> FeatureAt(part.lanes, cursor.lane),
               roadmark |-> FeatureAt(part.roadmarks, cursor.roadmark)]
    /\ UNCHANGED <<part, cursor, active>>

Next == Move \/ SetActive \/ Refresh

\* Refreshes keep happening while picking is active.
Spec == Init /\ [][Next]_vars /\ WF_vars(Refresh)

=============================================================================
