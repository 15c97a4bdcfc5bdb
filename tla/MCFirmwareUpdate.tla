-------------------------- MODULE MCFirmwareUpdate --------------------------
(* The instances of FirmwareUpdate that TLC checks: messages of five bytes, of *)
(* which one is padding.                                                       *)
EXTENDS FirmwareUpdate

\* One byte of a message is lost, or all.
Losses == {1, Size}
=============================================================================
