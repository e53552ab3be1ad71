-------------------------- MODULE MCReceiverQueue ---------------------------
(* Small instances of ReceiverQueue for TLC. *)
EXTENDS ReceiverQueue

CONSTANTS a1, a2, db1, db2, db3

OneDev == {a1}
TwoDevs == {a1, a2}
ThreeDbs == <<db1, db2, db3>>
TwoDbs == <<db1, db2>>
OneDb == <<db1>>
AllActive == Dbs
FirstTwo == {db1, db2}
=============================================================================
