--------------------------- MODULE LeaseOwnership ---------------------------
(***************************************************************************)
(* What the lease commands promise, without a table and without commands   *)
(* in flight: every entity is held by at most one agent, a free entity is  *)
(* acquired in one step, and a held one passes to another agent in one     *)
(* step, after its expiry unless --force is in use.                        *)
(***************************************************************************)
EXTENDS Integers

CONSTANTS Entities, Agents, Lifetimes, ForceChoices, MaxTime, Null

VARIABLES
  held,   \* per entity the holder with its expiry, as a set of at most one
  clock

vars == <<held, clock>>

Expiry(life, now) == IF life = Null THEN Null ELSE now + life

(* The grants an agent may be given by a claim that began by now.          *)
Grants(a) ==
  {[owner |-> a, expires |-> Expiry(life, now)] :
     life \in Lifetimes \cup {Null}, now \in 0 .. clock}

Init ==
  /\ held = [e \in Entities |-> {}]
  /\ clock = 0

Acquire(e, a) ==
  /\ held[e] = {}
  /\ \E g \in Grants(a) : held' = [held EXCEPT ![e] = {g}]
  /\ UNCHANGED clock

Lapsed(h) == h.expires # Null /\ h.expires <= clock

HandOver(e, a) ==
  /\ \E h \in held[e] : h.owner # a /\ (Lapsed(h) \/ TRUE \in ForceChoices)
  /\ \E g \in Grants(a) : held' = [held EXCEPT ![e] = {g}]
  /\ UNCHANGED clock

GiveUp(e) ==
  /\ held' = [held EXCEPT ![e] = {}]
  /\ UNCHANGED clock

Tick ==
  /\ clock < MaxTime
  /\ clock' = clock + 1
  /\ UNCHANGED held

Next ==
  \/ \E e \in Entities, a \in Agents : Acquire(e, a) \/ HandOver(e, a)
  \/ \E e \in Entities : GiveUp(e)
  \/ Tick

Spec == Init /\ [][Next]_vars
=============================================================================
