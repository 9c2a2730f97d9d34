---- MODULE FixDelivery ----
(***************************************************************************)
(* What the handset promises about a technician's position fixes, whatever *)
(* the radio, the session and the operating system do: a fix it has kept   *)
(* stays on the phone until the server holds it.  Three exceptions, and no *)
(* other: a fix the server would refuse may be dropped, the oldest fixes   *)
(* make room when the phone holds MaxQueue of them, and a store that       *)
(* cannot be read back is started again.                                   *)
(***************************************************************************)
EXTENDS Naturals, FiniteSets

CONSTANTS MaxFixes,  \* fixes are numbered in the order they were taken
          MaxQueue,  \* the most fixes the phone keeps
          Bad        \* the fixes the server would refuse

VARIABLES held,    \* the fixes on the phone
          stored,  \* the fixes the server has
          torn     \* the phone's store has just failed to give back what it held

Taken == 1..MaxFixes

\* The MaxQueue newest of a set of fixes.
Newest(fixes) == {f \in fixes : Cardinality({g \in fixes : g > f}) < MaxQueue}

DeliveryInit == held = {} /\ stored = {} /\ torn = FALSE

\* The phone keeps new fixes, none of which the server has already.
Keep == \E new \in SUBSET (Taken \ stored) :
           /\ held' = Newest(held \union new)
           /\ UNCHANGED stored

Store == \E sent \in SUBSET (Taken \ Bad) :
           /\ stored' = stored \union sent
           /\ UNCHANGED held

\* A fix leaves the phone because the server has it, or would never take it.
Release == \E gone \in SUBSET (stored \union Bad) :
             /\ held' = Newest(held \ gone)
             /\ UNCHANGED stored

StartAgain == /\ torn
              /\ \E new \in SUBSET (Taken \ (held \union stored)) : held' = new
              /\ UNCHANGED stored

DeliveryNext == (Keep \/ Store \/ Release \/ StartAgain) /\ torn' \in BOOLEAN

DeliverySpec == DeliveryInit /\ [][DeliveryNext]_<<held, stored, torn>>
====
