---------------------------- MODULE UnitLifecycle ----------------------------
(***************************************************************************)
(* What the systemctl commands promise of a unit, whatever they are and    *)
(* wherever they are interrupted: its file comes first and goes last.  A   *)
(* service is registered only while the unit file its wrapper will read is *)
(* in the active directory.                                                *)
(***************************************************************************)
CONSTANT Unit
VARIABLES
  installed,    \* the units with a file in the active directory
  registered    \* the units with a service that is not about to be deleted

Init == installed = {} /\ registered = {}

Install(n)    == installed' = installed \cup {n} /\ UNCHANGED registered
Register(n)   == n \in installed /\ registered' = registered \cup {n} /\ UNCHANGED installed
Unregister(n) == registered' = registered \ {n} /\ UNCHANGED installed
Remove(n)     == n \notin registered /\ installed' = installed \ {n} /\ UNCHANGED registered

Next == \E n \in Unit : Install(n) \/ Register(n) \/ Unregister(n) \/ Remove(n)

Spec == Init /\ [][Next]_<<installed, registered>>

(* A service has the unit file it is to run.                               *)
RegisteredIsInstalled == registered \subseteq installed
=============================================================================
