------------------------------ MODULE MCBrowser ------------------------------
(* Model-checking instance of Browser: one account, one certificate with    *)
(* two retirements in flight, a proposal of each kind and one to create.    *)
EXTENDS Browser

==============================================================================
