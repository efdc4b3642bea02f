---------------------------- MODULE MCAccountSide ---------------------------
(***************************************************************************)
(* An instance of AccountSide whose parts are explored one at a time, the  *)
(* others at rest: the properties speak of one part each.                  *)
(***************************************************************************)
EXTENDS AccountSide, TLC

CONSTANTS s1, s2, tab1, tab2, u1, u2

MCOtp == AccountInit /\ PresenceInit /\ DeviceInit /\ OtpPart
MCAccount == OtpInit /\ PresenceInit /\ DeviceInit /\ AccountPart
MCPresence == OtpInit /\ AccountInit /\ DeviceInit /\ PresencePart
MCDevice == OtpInit /\ AccountInit /\ PresenceInit /\ DevicePart

MCNext == MCOtp \/ MCAccount \/ MCPresence \/ MCDevice

MCSpec == AccountSideInit /\ [][MCNext]_<<otpVars, accountVars, presenceVars, deviceVars>>

Symmetry == Permutations({s1, s2}) \cup Permutations({tab1, tab2})
            \cup Permutations({u1, u2})
=============================================================================
