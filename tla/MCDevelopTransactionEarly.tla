--------------------- MODULE MCDevelopTransactionEarly ---------------------
(* An instance of DevelopTransaction in which a manifest sorts before the     *)
(* ledger.                                                                    *)
EXTENDS DevelopTransaction
=============================================================================
