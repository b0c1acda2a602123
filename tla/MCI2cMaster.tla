---------------------------- MODULE MCI2cMaster ----------------------------
(* Values for I2cMaster: bytes of three bits, addresses of two.            *)
EXTENDS I2cMaster

MCDev == <<0, 1>>
MCWide == {<<0, 1>>}
MCAddrs == {<<0, 1>>, <<1, 0>>}
MCOffsets == {<< <<0, 1, 1>>, <<1, 0, 0>> >>}

\* After a STOP the first is taken for a START and the device's address.
MCSent == {<<0, 0, 1>>, <<1, 1, 0>>}
MCHeld == {<<0, 0, 0>>, <<1, 0, 1>>}
=============================================================================
