-------------------------- MODULE MCModemManager ---------------------------
(***************************************************************************)
(* ModemManager with a modem capable of everything and one of 3GPP only,   *)
(* and with the two 3G sources.                                            *)
(***************************************************************************)
EXTENDS ModemManager, TLC

CONSTANTS coarse, fine, phone, stick, here, blank, odd

MCOffers == [m \in Modems |-> IF m = phone THEN Kinds ELSE {"3gpp"}]

\* The 3G sources are alike; only invariants are checked.
MCSymmetry == Permutations(Threegs)
=============================================================================
