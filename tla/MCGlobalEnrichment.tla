------------------------ MODULE MCGlobalEnrichment ------------------------
(***************************************************************************)
(* A small instance of GlobalEnrichment for TLC.                           *)
(***************************************************************************)
EXTENDS GlobalEnrichment, TLC

CONSTANTS t1, t2, a1, a2

MCTenants == {t1, t2}
MCAdmins  == {a1, a2}

(* One script for one tenant; of its categories one is a business type.    *)
MCScripts == {[tenant |-> t1,
               rows |-> {[name |-> "shop", category |-> "perfumeria"],
                         [name |-> "store", category |-> "easy_muebles"]}]}

Symmetric == Permutations(MCAdmins)
=============================================================================
