---------------------------- MODULE AccountSide -----------------------------
(***************************************************************************)
(* Registration codes, sessions and resets, sockets and push tokens side   *)
(* by side.  They share no row and call nothing of one another: a step of  *)
(* one leaves the others as they are.                                      *)
(***************************************************************************)
EXTENDS OneTimeCodes, AccountSessions, Presence, PushTokens

OtpPart == OtpNext /\ UNCHANGED <<accountVars, presenceVars, deviceVars>>
AccountPart == AccountNext /\ UNCHANGED <<otpVars, presenceVars, deviceVars>>
PresencePart == PresenceNext /\ UNCHANGED <<otpVars, accountVars, deviceVars>>
DevicePart == DeviceNext /\ UNCHANGED <<otpVars, accountVars, presenceVars>>

AccountSideInit == OtpInit /\ AccountInit /\ PresenceInit /\ DeviceInit
AccountSideNext == OtpPart \/ AccountPart \/ PresencePart \/ DevicePart
AccountSideSpec ==
  AccountSideInit
  /\ [][AccountSideNext]_<<otpVars, accountVars, presenceVars, deviceVars>>

\* The rows, views and tasks of every part keep to their values, whatever the
\* others do.
TypesOK == OtpTypeOK /\ AccountTypeOK /\ PresenceTypeOK /\ DeviceTypeOK
=============================================================================
