------------------------------ MODULE MCCustomer ------------------------------
(* One customer's cart and the same customer's account.  No transaction of one *)
(* touches a row of the other, so a behaviour here is a behaviour of one part, *)
(* chosen at the start, while the other keeps its initial state.               *)
EXTENDS CartProvenance, Accounts, TLC

VARIABLE part

MCVars == <<part, cartVars, accountVars>>

InCart(A) == part = "cart" /\ A /\ UNCHANGED <<part, accountVars>>
InAccount(A) == part = "account" /\ A /\ UNCHANGED <<part, cartVars>>

MCInit == part \in {"cart", "account"} /\ CartInit /\ AccountsInit
MCNext == InCart(CartNext) \/ InAccount(AccountsNext)

\* The fairness of CartSpec; AccountsSpec asks for none.
MCSpec == MCInit /\ [][MCNext]_MCVars /\ WF_MCVars(InCart(reconcilePendingCarts))
=============================================================================
