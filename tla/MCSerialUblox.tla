---------------------------- MODULE MCSerialUblox ----------------------------
(* The instances of the GNSS driver that TLC checks.                        *)
EXTENDS SerialUblox

=============================================================================
