---------------------------- MODULE MCVpnClients ----------------------------
(* VpnClients on small instances; GUIs are interchangeable.                *)
EXTENDS VpnClients, TLC

Symmetry == Permutations(Clients)
=============================================================================
