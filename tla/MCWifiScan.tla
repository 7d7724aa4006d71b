------------------------------ MODULE MCWifiScan ---------------------------
(***************************************************************************)
(* WifiScan with two sources of different accuracy levels and a network    *)
(* interface that is plugged in and out.                                   *)
(***************************************************************************)
EXTENDS WifiScan

CONSTANTS street, city
=============================================================================
