-------------------------- MODULE MCWindowsUpgrade --------------------------
(* WindowsUpgrade for TLC: with and without a script of the customer's. *)
EXTENDS WindowsUpgrade

AnyCustomer == {"none", "customer"}
=============================================================================
