---------------------------- MODULE MCBackOffice ----------------------------
(***************************************************************************)
(* An instance of BackOffice whose parts are explored one at a time, the   *)
(* others at rest: the properties speak of one part each.                  *)
(***************************************************************************)
EXTENDS BackOffice, TLC

CONSTANTS s1, s2, l1, l2, d1, d2

MCDefault == [per |-> 1, daily |-> 2]
MCRaised == [per |-> 2, daily |-> 3]
\* In tenths.
MCFeeConfigs ==
  [FLAT |-> {[fee |-> 0], [fee |-> 25]},
   PERCENTAGE |-> {[percent |-> 15, min_fee |-> 15, max_fee |-> 55]},
   TIERED |-> {[tiers |-> <<[min |-> 0, max |-> 995, fee |-> 20],
                            [min |-> 1005, max |-> NoBound, fee |-> 45]>>]}]

MCLimit == KycInit /\ SupportInit /\ CatalogueInit /\ LimitPart
MCKyc == LimitInit /\ SupportInit /\ CatalogueInit /\ KycPart
MCSupport == LimitInit /\ KycInit /\ CatalogueInit /\ SupportPart
MCCatalogue == LimitInit /\ KycInit /\ SupportInit /\ CataloguePart

MCNext == MCLimit \/ MCKyc \/ MCSupport \/ MCCatalogue

MCSpec == BackOfficeInit /\ [][MCNext]_<<limitVars, kycVars, deskVars, catalogueVars>>

\* Bounds: rows of the limits in use together, one less once a commit had an
\* outdated view of the debits; nothing follows a commit on an outdated view of
\* the requests, of the fee rule or of a second catalogue row.
MCBound ==
  /\ "request" \notin limitStale
  /\ Cardinality({r \in RequestIds : limits.request[r].status # "none"}) +
     Cardinality({t \in TxnIds : limits.txn[t].status # "none"}) +
     Cardinality(limitStale) <= 3
  /\ "rule" \notin catalogueLate /\ Cardinality(catalogueLate) <= 1

Symmetry == Permutations({s1, s2}) \cup Permutations({l1, l2})
=============================================================================
