------------------------------ MODULE MCSCache ------------------------------
(* Instances of the sector cache: the devices and blocks of the runs.      *)
EXTENDS SCache

CONSTANTS d1, d2      \* two block devices

TwoDevs == {d1, d2}
OneDev == {d1}

\* Two lists that share a block number.
TwoAndOne == {d1} \X (0 .. 1) \cup {d2} \X {1}

\* Three blocks of one device, and one of a device without driver.
ThreeAndNoDriver == {d1} \X (0 .. 2) \cup {d2} \X {0}
ThreeDriven == {d1} \X (0 .. 2)
=============================================================================
