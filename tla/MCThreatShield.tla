----------------------------- MODULE MCThreatShield -----------------------------
(* One interface that can be plain, PPPoE or a bond, and one of a new system  *)
(* that can be removed, and its device be given to the first.                *)
EXTENDS ThreatShield, TLC

CONSTANTS i1, i2

MCKindsOf == i1 :> {"plain", "pppoe", "bond"} @@ i2 :> {}
=============================================================================
