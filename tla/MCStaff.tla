-------------------------------- MODULE MCStaff --------------------------------
(* Two kinds of staff work that touch no row of each other: a behaviour here   *)
(* is a behaviour of one, chosen at the start, while the other keeps an        *)
(* initial state.                                                              *)
(* Refunds: a payment of two units, enough for two refunds of one unit each,   *)
(* or for one of both.  Catalogue: two products, of one category or two, and   *)
(* three files, so that a product's images can close ranks and replacements    *)
(* can meet.  The configuration gives refunds and products, and the handlers   *)
(* of both, the same names, which halves the permutations twice.               *)
EXTENDS Refunds, Catalogue, TLC

VARIABLE part

MCVars == <<part, refundVars, catalogueVars>>

MCInit ==
  /\ part \in {"refunds", "catalogue"} /\ RefundsInit /\ CatalogueInit
  /\ part = "refunds" => stored = {} /\ category = [p \in Products |-> Absent]
  /\ part = "catalogue" => paidWith = "MANUAL"
MCNext ==
  /\ UNCHANGED part
  /\ \/ part = "refunds" /\ RefundsNext /\ UNCHANGED catalogueVars
     \/ part = "catalogue" /\ CatalogueNext /\ UNCHANGED refundVars
MCSpec == MCInit /\ [][MCNext]_MCVars

MCSymmetry ==
  UNION {Permutations(S) : S \in {Files, Handlers, Products, Categories}}
=============================================================================
