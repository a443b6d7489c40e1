------------------------------- MODULE MCFirewall -------------------------------
(* A guest zone, a WireGuard instance with its service rule, a tunnel server  *)
(* with its own and a client, a rule of the administrator and a port forward. *)
EXTENDS Firewall
=============================================================================
