----------------------------- MODULE BackOffice -----------------------------
(***************************************************************************)
(* Limits, the KYC profile, the support desk and the catalogue side by     *)
(* side.  They share no row and call nothing of one another: a step of one *)
(* leaves the others as they are.                                          *)
(***************************************************************************)
EXTENDS LimitGrants, KycReview, SupportDesk, Catalogue

LimitPart == LimitNext /\ UNCHANGED <<kycVars, deskVars, catalogueVars>>
KycPart == KycNext /\ UNCHANGED <<limitVars, deskVars, catalogueVars>>
SupportPart == SupportNext /\ UNCHANGED <<limitVars, kycVars, catalogueVars>>
CataloguePart == CatalogueNext /\ UNCHANGED <<limitVars, kycVars, deskVars>>

BackOfficeInit == LimitInit /\ KycInit /\ SupportInit /\ CatalogueInit
BackOfficeNext == LimitPart \/ KycPart \/ SupportPart \/ CataloguePart
BackOfficeSpec ==
  BackOfficeInit /\ [][BackOfficeNext]_<<limitVars, kycVars, deskVars, catalogueVars>>

\* The rows, views and timers of every part keep to their values, whatever the
\* others do.
TypesOK == LimitTypeOK /\ KycTypeOK /\ SupportTypeOK /\ CatalogueTypeOK
=============================================================================
