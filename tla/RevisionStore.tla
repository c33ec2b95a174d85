---------------------------- MODULE RevisionStore ----------------------------
(***************************************************************************)
(* What the incremental writer promises.  A document is a map from object  *)
(* numbers to bodies with an identity (/Root, /ID, /Info).  A submitted    *)
(* revision is either refused, and changes nothing, or replaces at once    *)
(* the bodies of exactly the objects it names, all of which exist.         *)
(***************************************************************************)
EXTENDS Integers, Sequences

CONSTANTS ObjNums, Bodies, Requests, Absent

VARIABLES store, identity, pending

StoreInit ==
  /\ store \in [ObjNums -> Bodies \cup {Absent}]
  /\ pending = Absent

Submit(dirty) ==
  /\ pending = Absent
  /\ pending' = dirty
  /\ UNCHANGED <<store, identity>>

Refuse ==
  /\ pending # Absent
  /\ pending' = Absent
  /\ UNCHANGED <<store, identity>>

(* dirty names each object once, and only objects that bodies holds.        *)
Applies(bodies, dirty) ==
  /\ \A i \in DOMAIN dirty : bodies[dirty[i].num] # Absent
  /\ \A i, j \in DOMAIN dirty : dirty[i].num = dirty[j].num => i = j

Revised(bodies, dirty) ==
  [n \in ObjNums |->
     IF \E i \in DOMAIN dirty : dirty[i].num = n
     THEN dirty[CHOOSE i \in DOMAIN dirty : dirty[i].num = n].body
     ELSE bodies[n]]

Revise ==
  /\ pending # Absent
  /\ Applies(store, pending)
  /\ store' = Revised(store, pending)
  /\ pending' = Absent
  /\ UNCHANGED identity

StoreNext == (\E dirty \in Requests : Submit(dirty)) \/ Refuse \/ Revise

StoreSpec == StoreInit /\ [][StoreNext]_<<store, identity, pending>>

=============================================================================
