--------------------------- MODULE MCSyncCadence ---------------------------
(* Instances of SyncCadence: one registration window that opens and closes
   within the bound on time. *)
EXTENDS SyncCadence

CONSTANTS Opening, Closing

OneWindow == {[start |-> Opening, end |-> Closing]}

Jitters == {100, 110}
=============================================================================
