---------------------------- MODULE MCUploadFlow ----------------------------
(***************************************************************************)
(* Instances of UploadFlow for TLC: how often each button may be pressed,  *)
(* and the symmetry of the workers.                                        *)
(***************************************************************************)
EXTENDS UploadFlow, TLC

\* Presses of Done, Start over, Fix and Save.
Presses(done, restart, fix, save) ==
    [done |-> done, restart |-> restart, request_fix |-> fix,
     confirm_save |-> save]

DoneTaps == Presses(2, 1, 0, 0)
SaveTaps == Presses(1, 1, 0, 2)
CollisionTaps == Presses(2, 0, 0, 2)
ChatTaps == Presses(1, 1, 0, 1)
SettleTaps == Presses(2, 1, 0, 0)

\* Workers are interchangeable.
WorkerSymmetry == Permutations(Workers)
=============================================================================
