----------------------------- MODULE StockPromise -----------------------------
(***************************************************************************)
(* What the shop promises about stock, without reservations, deadlines,    *)
(* requests or lifecycles: units available to promise, and for each order  *)
(* the units promised to it, which are handed over or given back once.     *)
(***************************************************************************)
EXTENDS Integers

CONSTANTS Listings, OrderIds

VARIABLES available,  \* units nobody was promised, per listing
          phase,      \* "new", "promised", "sold", "over" per order
          units       \* units the order was promised, per listing

promiseVars == <<available, phase, units>>

Init ==
  /\ available \in [Listings -> Nat]
  /\ phase = [o \in OrderIds |-> "new"]
  /\ units = [o \in OrderIds |-> [l \in Listings |-> 0]]

\* Units are promised only if they are available, all of the order or nothing.
Promise(o) ==
  /\ phase[o] = "new"
  /\ \A l \in Listings : units'[o][l] \in 0..available[l]
  /\ units' = [units EXCEPT ![o] = units'[o]]
  /\ available' = [l \in Listings |-> available[l] - units'[o][l]]
  /\ phase' = [phase EXCEPT ![o] = "promised"]

\* A withdrawn promise returns exactly what was promised.
Withdraw(o) ==
  /\ phase[o] = "promised"
  /\ available' = [l \in Listings |-> available[l] + units[o][l]]
  /\ phase' = [phase EXCEPT ![o] = "over"]
  /\ UNCHANGED units

\* A sale uses promised units and nobody else's.
Sell(o) ==
  /\ phase[o] = "promised"
  /\ phase' = [phase EXCEPT ![o] = "sold"]
  /\ UNCHANGED <<available, units>>

\* An undone sale returns at most what was sold.
Undo(o) ==
  /\ phase[o] = "sold"
  /\ available' \in [Listings -> Nat]
  /\ \A l \in Listings : available'[l] \in available[l]..(available[l] + units[o][l])
  /\ phase' = [phase EXCEPT ![o] = "over"]
  /\ UNCHANGED units

\* Staff count, write off, convert and restock what is not promised.
Staff ==
  /\ available' \in [Listings -> Nat]
  /\ UNCHANGED <<phase, units>>

Next == Staff \/ \E o \in OrderIds : Promise(o) \/ Withdraw(o) \/ Sell(o) \/ Undo(o)

Spec == Init /\ [][Next]_promiseVars
=============================================================================
