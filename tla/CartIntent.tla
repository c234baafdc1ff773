------------------------------ MODULE CartIntent ------------------------------
(***************************************************************************)
(* What a customer's cart means: shopping intent that no order has claimed *)
(* yet, and what each unpaid order has claimed of it.  A purchase takes    *)
(* what is still claimed, an abandoned order gives it back, at once.       *)
(***************************************************************************)
EXTENDS Integers

CONSTANTS Listings, OrderIds

VARIABLES free,  \* unclaimed quantity in the cart, per listing
          held   \* quantity claimed by each order, per listing

intentVars == <<free, held>>
Nothing == [l \in Listings |-> 0]

Init == free = Nothing /\ held = [o \in OrderIds |-> Nothing]

\* The customer edits the cart: unclaimed intent goes first, claims only shrink.
Edit ==
  /\ free' \in [Listings -> Nat]
  /\ \A o \in OrderIds, l \in Listings :
       /\ held'[o][l] \in 0..held[o][l]
       /\ held'[o][l] < held[o][l] => free'[l] = 0

\* An order claims no more than nobody else has.
Claim(o) ==
  /\ held[o] = Nothing
  /\ \A l \in Listings : held'[o][l] \in 0..free[l] /\ free'[l] = free[l] - held'[o][l]
  /\ held' = [held EXCEPT ![o] = held'[o]]

Purchase(o) == held' = [held EXCEPT ![o] = Nothing] /\ UNCHANGED free

Abandon(o) ==
  /\ free' = [l \in Listings |-> free[l] + held[o][l]]
  /\ held' = [held EXCEPT ![o] = Nothing]

Next == Edit \/ \E o \in OrderIds : Claim(o) \/ Purchase(o) \/ Abandon(o)

Spec == Init /\ [][Next]_intentVars
=============================================================================
