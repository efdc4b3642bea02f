----------------------------- MODULE Catalogue ------------------------------
(***************************************************************************)
(* What the Back Office configures: one provider, and the service flag and *)
(* fee rule of its category (catalog_service.py, fee_service.py), with the *)
(* fee the API charges and the one the client shows (feeConfig.js).        *)
(* Administrators edit in sessions that lock nothing (see Snapshots).      *)
(***************************************************************************)
EXTENDS Snapshots, Sequences

CONSTANTS Labels,       \* names of the field the customer fills in
          FeeConfigs,   \* fee type -> the configurations an administrator saves
          Parts,        \* what is saved is a multiple of 1/Parts: any fraction may be
          FeeAmounts,   \* amounts fees are compared for
          BuiltIn,      \* the operation is one of FEE_OPERATIONS
          NoBound       \* min_fee, max_fee or the max of a tier left out

FeeTypes == {"FLAT", "PERCENTAGE", "TIERED"}

ASSUME CatalogueAssumption ==
  /\ DOMAIN FeeConfigs = FeeTypes /\ [fee |-> 0] \in FeeConfigs["FLAT"]
  /\ FeeAmounts \subseteq Nat \ {0} /\ BuiltIn \in BOOLEAN

\* What is saved is not checked to be whole, and of the bounds and the tiers not
\* even to be positive.  (What is no number makes compute_fee raise: no charge.)
ASSUME ConfigAssumption ==
  /\ Parts \in Nat \ {0} /\ NoBound \notin Int
  /\ \A type \in FeeTypes : \A config \in FeeConfigs[type] :
       /\ "fee" \in DOMAIN config => config.fee \in Int
       /\ "percent" \in DOMAIN config =>
            config.percent \in Nat /\ {config.min_fee, config.max_fee} \subseteq Int \cup {NoBound}
       /\ "tiers" \in DOMAIN config =>
            config.tiers \in Seq([min : Int, max : Int \cup {NoBound}, fee : Int])

-----------------------------------------------------------------------------
(* The fee of an amount, in parts of a unit.  The two programs differ in   *)
(* how they round, and in what they make of a number that is not whole.    *)

\* Mutant: cut off instead of rounded.
cut_off(n, d) == n \div d

\* Python's round, and Math.round, of n/d.
round(n, d) ==
  IF 2 * (n % d) = d THEN (n \div d) + ((n \div d) % 2) ELSE (2 * n + d) \div (2 * d)
MathRound(n, d) == (2 * n + d) \div (2 * d)

\* int, on the server, drops the fraction; Number, in the client, keeps it.
int(x) == Parts * (IF x < 0 THEN -((-x) \div Parts) ELSE x \div Parts)

\* A field of the configuration; a bound may be left out.
Field(x, side) == IF side = "client" \/ x = NoBound THEN x ELSE int(x)

NotNegative(fee) == IF fee < 0 THEN 0 ELSE fee

Bounded(fee, min, max) ==
  LET raised == IF min # NoBound /\ fee < min THEN min ELSE fee
  IN IF max # NoBound /\ raised > max THEN max ELSE raised

Matching(tiers, amount, side) ==
  {i \in DOMAIN tiers :
     /\ Parts * amount >= Field(tiers[i].min, side)
     /\ tiers[i].max = NoBound \/ Parts * amount <= Field(tiers[i].max, side)}

\* A configuration that lacks the field of the rule's type yields no fee.
Fee(rule, amount, side) ==
  LET config == rule.config
      Rounded(n, d) == IF side = "client" THEN MathRound(n, d) ELSE round(n, d)
  IN IF ~rule.active THEN 0
     ELSE CASE rule.fee_type = "FLAT" /\ "fee" \in DOMAIN config ->
                 NotNegative(Field(config.fee, side))
            [] rule.fee_type = "PERCENTAGE" /\ "percent" \in DOMAIN config ->
                 NotNegative(Bounded(Parts * Rounded(amount * config.percent, 100 * Parts),
                                     Field(config.min_fee, side), Field(config.max_fee, side)))
            [] rule.fee_type = "TIERED" /\ "tiers" \in DOMAIN config ->
                 LET found == Matching(config.tiers, amount, side)
                     first == CHOOSE i \in found : \A j \in found : i <= j
                 IN IF found = {} THEN 0 ELSE NotNegative(Field(config.tiers[first].fee, side))
            [] OTHER -> 0

compute_fee(rule, amount) == Fee(rule, amount, "server")
computeFee(rule, amount) == Fee(rule, amount, "client")

-----------------------------------------------------------------------------
AllConfigs == UNION {FeeConfigs[type] : type \in FeeTypes}
FlatZero == [fee_type |-> "FLAT", config |-> [fee |-> 0], active |-> TRUE]
NoRule == [fee_type |-> "none", config |-> [fee |-> 0], active |-> FALSE]
Rules == [fee_type : FeeTypes \cup {"none"}, config : AllConfigs \cup {[fee |-> 0]},
          active : BOOLEAN]

\* The label of the phone field is part of the column config_json.
Provider == [made : BOOLEAN, integration_mode : {"MOCK", "HTTP"}, base_url : BOOLEAN,
             target_label : Labels, phone_label : Labels]
Flag == [made : BOOLEAN, enabled : BOOLEAN]
Catalogues == [provider : Provider, flag : Flag, rule : Rules]

VARIABLES
  catalogue,      \* committed rows
  catalogueView,  \* the snapshot of each open session, or NoView
  catalogueLate   \* history: the rows some commit had an outdated view of

catalogueVars == <<catalogue, catalogueView, catalogueLate>>

CatalogueTypeOK ==
  /\ catalogue \in Catalogues
  /\ catalogueView \in [Requesters -> Catalogues \cup {NoView}]
  /\ catalogueLate \subseteq {"provider", "flag", "rule"}

CatalogueInit ==
  /\ \E label \in Labels :
       catalogue = [provider |-> [made |-> FALSE, integration_mode |-> "MOCK",
                                  base_url |-> FALSE,
                                  target_label |-> label, phone_label |-> label],
                    flag |-> [made |-> FALSE, enabled |-> FALSE],
                    rule |-> NoRule]
  /\ catalogueView = [s \in Requesters |-> NoView]
  /\ catalogueLate = {}

CatalogueBegin(s) ==
  /\ catalogueView[s] = NoView
  /\ catalogueView' = [catalogueView EXCEPT ![s] = catalogue]
  /\ UNCHANGED <<catalogue, catalogueLate>>

CatalogueEnd(s) == catalogueView' = [catalogueView EXCEPT ![s] = NoView]

CatalogueRollback(s) ==
  /\ CatalogueEnd(s)
  /\ UNCHANGED <<catalogue, catalogueLate>>

\* The keys of the three tables are unique: of two sessions that insert one
\* row the later fails and is rolled back.
Inserts(old, new, row) == new.made /\ ~old.made /\ row.made

CatalogueCommit(s, new) ==
  LET v == catalogueView[s]
  IN /\ ~Inserts(v.provider, new.provider, catalogue.provider)
     /\ ~Inserts(v.flag, new.flag, catalogue.flag)
     /\ v.rule = NoRule /\ new.rule # NoRule => catalogue.rule = NoRule
     /\ catalogue' = MergeTable(v, new, catalogue)
     /\ catalogueLate' = catalogueLate \cup {row \in DOMAIN v : v[row] # catalogue[row]}
     /\ CatalogueEnd(s)

\* Mutant: the rule is left to be made by hand.
ensure_flag(v) ==
  [v EXCEPT !.flag = IF v.flag.made THEN @ ELSE [made |-> TRUE, enabled |-> TRUE]]

\* ensure_category_service: the flag and a rule without a fee, if missing.
ensure_category_service(v) ==
  [v EXCEPT !.flag = IF v.flag.made THEN @ ELSE [made |-> TRUE, enabled |-> TRUE],
            !.rule = IF v.rule = NoRule THEN FlatZero ELSE @]

HasUrl(provider) == provider.integration_mode = "HTTP" => provider.base_url

\* The label of the phone field becomes the target label.
create_provider(s, mode, url, label) ==
  LET v == catalogueView[s]
      provider == [made |-> TRUE, integration_mode |-> mode, base_url |-> url,
                   target_label |-> label, phone_label |-> label]
  IN /\ ~v.provider.made /\ HasUrl(provider)
     /\ CatalogueCommit(s, ensure_category_service([v EXCEPT !.provider = provider]))

\* With a config or without, the target label and the label of the phone field
\* are brought in line.
update_provider(s, mode, url, label) ==
  LET v == catalogueView[s]
      provider == [v.provider EXCEPT !.integration_mode = mode, !.base_url = url,
                     !.target_label = label, !.phone_label = label]
  IN /\ v.provider.made /\ HasUrl(provider)
     /\ CatalogueCommit(s, ensure_category_service([v EXCEPT !.provider = provider]))

update_service(s, enabled) ==
  LET v == catalogueView[s]
  IN /\ v.flag.made
     /\ CatalogueCommit(s, [v EXCEPT !.flag.enabled = enabled])

\* The rule of a category an administrator has added must exist, that of another
\* is made; type and configuration are checked together and written as two columns.
update_fee(s, type, config, active) ==
  LET v == catalogueView[s]
  IN /\ BuiltIn \/ v.rule # NoRule
     /\ CatalogueCommit(s, [v EXCEPT !.rule =
          [fee_type |-> type, config |-> config, active |-> active]])

CatalogueNext ==
  \/ \E s \in Requesters : CatalogueBegin(s)
  \/ \E s \in Requesters :
       /\ catalogueView[s] # NoView
       /\ \/ CatalogueRollback(s)
          \/ \E mode \in {"MOCK", "HTTP"}, url \in BOOLEAN, label \in Labels :
               create_provider(s, mode, url, label) \/ update_provider(s, mode, url, label)
          \/ \E enabled \in BOOLEAN : update_service(s, enabled)
          \/ \E type \in FeeTypes, active \in BOOLEAN : \E config \in FeeConfigs[type] :
               update_fee(s, type, config, active)

CatalogueSpec == CatalogueInit /\ [][CatalogueNext]_catalogueVars
-----------------------------------------------------------------------------
\* The form the customer sees and the label the transaction is stored with are
\* the same, and an HTTP provider has an address, through any edits that do not
\* overlap.
ProviderIsConsistent ==
  "provider" \notin catalogueLate =>
    /\ catalogue.provider.phone_label = catalogue.provider.target_label
    /\ HasUrl(catalogue.provider)

\* A provider can be paid: its category has a flag and a fee rule, however
\* administrators overlap.
CategoryIsServed ==
  catalogue.provider.made => catalogue.flag.made /\ catalogue.rule # NoRule

\* The configuration of a rule is one of its type: overlapping edits can leave
\* a percentage rule with the configuration of a flat one, which charges 0.
RuleFitsType ==
  "rule" \notin catalogueLate /\ catalogue.rule # NoRule =>
    catalogue.rule.config \in FeeConfigs[catalogue.rule.fee_type]

\* What administrators save fits together: the columns of a provider, those of a
\* rule, and a category with the flag and the rule its provider needs.
CatalogueFitsTogether == ProviderIsConsistent /\ CategoryIsServed /\ RuleFitsType

\* The percentage of the amount is a half: the server rounds it to the even
\* number, the client up.
ComesToHalf(rule, amount) ==
  /\ rule.fee_type = "PERCENTAGE" /\ "percent" \in DOMAIN rule.config
  /\ 2 * ((amount * rule.config.percent) % (100 * Parts)) = 100 * Parts

\* A tier begins at a fraction just above the amount: on the server, at the amount.
BeforeTier(rule, amount) ==
  /\ rule.fee_type = "TIERED" /\ "tiers" \in DOMAIN rule.config
  /\ \E i \in DOMAIN rule.config.tiers :
       /\ Parts * amount < rule.config.tiers[i].min
       /\ rule.config.tiers[i].min < Parts * amount + Parts

\* Whatever rule the edits leave, whole or not, a client that has read it shows
\* the fee that will be charged and at most a fraction of a unit more, which the
\* server drops; where a percentage comes to a half it may be one unit more.
\* So of whole numbers only the halves differ.  An amount just below a tier that
\* begins at a fraction is charged by that tier and shown by another.
FeeShownIsCharged ==
  \A amount \in FeeAmounts :
    LET shown == computeFee(catalogue.rule, amount)
        charged == compute_fee(catalogue.rule, amount)
    IN \/ charged = int(shown)
       \/ ComesToHalf(catalogue.rule, amount) /\ charged = int(shown) - Parts
       \/ BeforeTier(catalogue.rule, amount)
=============================================================================
