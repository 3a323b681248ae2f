--------------------------- MODULE MCDeviceClient ---------------------------
(***************************************************************************)
(* Instances of DeviceClient for TLC.                                      *)
(***************************************************************************)
EXTENDS DeviceClient, TLC

Symmetry == Permutations(MessageIds)

\* A charge, a stop and a discharge.
ChargeTargets == {-4, 0, 4}
SpentTargets == {-4, 0, 3}

OneReport == {[outputLimit |-> 6]}

\* A charge the device shows by its direction, by grid draw alone, and left.
ChargingReport == [acMode |-> 1, inputLimit |-> 4, gridInputPower |-> 4, outputLimit |-> 0]
DrawnReport    == [outputLimit |-> 0, gridInputPower |-> 1]
LeftReport     == [acMode |-> 2, inputLimit |-> 0, gridInputPower |-> 0, outputLimit |-> 0]

\* A charge found after a start; a device that discharges as told.
FoundReports  == {ChargingReport, [LeftReport EXCEPT !.outputLimit = 4]}
DrawnReports  == {DrawnReport}

\* An idle device, before a charge or an exit reached it.
IdleReports == {LeftReport}

\* A device still at the few watts it was last told.
TrickleReport == {[outputLimit |-> 1, acMode |-> 2]}
=============================================================================
