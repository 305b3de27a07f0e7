------------------------------- MODULE Scoring -------------------------------
(***************************************************************************)
(* The scoring of an account (services/scoring.py) and the fusion of its   *)
(* blend with precomputed embeddings (services/embedding_service.py).  The *)
(* two LightGBM models are external: their outputs are free.  An account   *)
(* id is its prefix and its number, so ids are the zero-padded ones both   *)
(* conventions use.  Weights are hundredths.                               *)
(***************************************************************************)
EXTENDS RiskLevels, FiniteSets, Functions

CONSTANTS
    Ids,     \* account ids that are asked for: [form, n]
    Tables,  \* tables each embedding's file can hold: functions from ids to a proba
    Outputs, \* probabilities the LightGBM models answer
    None

Kinds == {"thgnn", "simclr"}
Forms == {"ACCT", "ACC", "other"}
AccountIds == [form : Forms, n : Nat]

ASSUME IdAssumption ==
    /\ Ids \subseteq AccountIds /\ None \notin AccountIds
    /\ DOMAIN Tables = Kinds
    /\ \A k \in Kinds : \A t \in Tables[k] :
          /\ None # t /\ IsFiniteSet(DOMAIN t) /\ DOMAIN t \subseteq AccountIds
          /\ t \in [DOMAIN t -> Nat]
    /\ Outputs \subseteq Nat

VARIABLES
    files,  \* what the artifacts directory holds: the rows of each file that can
            \* be read, None for one that is absent, broken or without columns
    loaded, \* _loaded
    table,  \* thgnn_proba and simclr_proba
    index,  \* _thgnn_sorted_keys and _simclr_sorted_keys
    weight, \* fusion_weights
    result  \* the last ScoreResult, with whether fusion was on (history) and the
            \* row each embedding was taken from
vars == <<files, loaded, table, index, weight, result>>

EmptyTable == [id \in {} |-> 0]
Has(t, k) == DOMAIN t[k] # {}
Enabled(t) == \E k \in Kinds : Has(t, k)

\* _numeric_part
NumericPart(id) == IF id.form = "other" THEN -1 ELSE id.n

\* _alt_account_id
AltAccountId(id) ==
    CASE id.form = "ACCT" -> [id EXCEPT !.form = "ACC"]
      [] id.form = "ACC" -> [id EXCEPT !.form = "ACCT"]
      [] id.form = "other" -> None
-----------------------------------------------------------------------------
(* load                                                                    *)

Init ==
    /\ \E thgnn \in Tables["thgnn"] \cup {None}, simclr \in Tables["simclr"] \cup {None} :
          files = [thgnn |-> thgnn, simclr |-> simclr]
    /\ loaded = FALSE
    /\ table = [k \in Kinds |-> EmptyTable]
    /\ index = [k \in Kinds |-> <<>>]
    /\ weight = [lgb |-> 88, thgnn |-> 8, simclr |-> 4]
    /\ result = None

\* The one list that sorted() can return: a key for every row, so keys repeat.
SortedKeys(t) ==
    LET n == Cardinality(DOMAIN t)
        Ordered == { ids \in Bijection(1..n, DOMAIN t) :
                       \A i, j \in 1..n : i <= j => NumericPart(ids[i]) <= NumericPart(ids[j]) }
    IN  {[i \in 1..n |-> NumericPart(ids[i])] : ids \in Ordered}

\* A missing embedding's share goes back to LightGBM.
RenormalizeWeights(t) ==
    LET Kept(k) == IF Has(t, k) THEN weight[k] ELSE 0
        Spare(k) == weight[k] - Kept(k)
    IN  [ lgb |-> weight["lgb"] + Spare("thgnn") + Spare("simclr"),
          thgnn |-> Kept("thgnn"), simclr |-> Kept("simclr") ]

\* _load_thgnn and _load_simclr: the rows, if the file can be read.  A failure
\* after the rows (in the metadata) keeps them.
ReadFile(k) == IF files[k] = None THEN EmptyTable ELSE files[k]

\* load runs once: later calls return at the first test.
Load ==
    /\ ~loaded
    /\ loaded' = TRUE
    /\ table' = [k \in Kinds |-> ReadFile(k)]
    /\ IF Enabled(table')
       THEN /\ weight' = RenormalizeWeights(table')
            /\ \E thgnn \in SortedKeys(table'["thgnn"]), simclr \in SortedKeys(table'["simclr"]) :
                  index' = [thgnn |-> thgnn, simclr |-> simclr]
       ELSE UNCHANGED <<weight, index>>
    /\ UNCHANGED <<files, result>>
-----------------------------------------------------------------------------
(* _resolve, fuse and score                                                *)

Distance(a, b) == IF a >= b THEN a - b ELSE b - a

\* min over (right, left): the right neighbour wins a tie.
Nearest(candidates, target) ==
    CHOOSE c \in candidates : \A d \in candidates \ {c} :
        \/ Distance(c, target) < Distance(d, target)
        \/ Distance(c, target) = Distance(d, target) /\ c > d

\* bisect_left: how many keys are below the target.
Bisect(keys, target) == Cardinality({i \in DOMAIN keys : keys[i] < target})

\* Fault: only the key at or above the target is looked at.
CandidatesRight(keys, target) == {keys[i] : i \in {Bisect(keys, target) + 1} \cap DOMAIN keys}

Candidates(keys, target) ==
    LET idx == Bisect(keys, target)
    IN  {keys[i] : i \in {idx, idx + 1} \cap DOMAIN keys}

NearestRow(t, keys, id) ==
    LET target == NumericPart(id)
        candidates == Candidates(keys, target)
        row == [form |-> "ACCT", n |-> Nearest(candidates, target)]
    IN  IF target < 0 \/ candidates = {} \/ row \notin DOMAIN t THEN None ELSE row

\* Fault: the alias is never tried, only ids in the table's own form are found.
ResolveNoAlias(k, id) ==
    IF id \in DOMAIN table[k] THEN id
    ELSE IF id.form = "ACC" THEN None ELSE NearestRow(table[k], index[k], id)

\* The row of embedding k that answers for an account: its own, the alias's or
\* the numerically nearest one's; None when there is none.
Resolve(k, id) ==
    IF id \in DOMAIN table[k] THEN id
    ELSE IF AltAccountId(id) \in DOMAIN table[k] THEN AltAccountId(id)
    ELSE NearestRow(table[k], index[k], id)

\* The embeddings that count for an account; none for account_id None (the seed).
Parts(id) ==
    IF ~Enabled(table) \/ id = None THEN {}
    ELSE {k \in Kinds : Resolve(k, id) # None /\ weight[k] > 0}

\* What embedding k adds to the sum and to the weight that was used.
Share(k, id) == IF k \in Parts(id) THEN weight[k] ELSE 0
Addend(k, id) == IF k \in Parts(id) THEN weight[k] * table[k][Resolve(k, id)] ELSE 0

\* Fault: the sum is not divided by the weight that was used.
FuseUnscaled(lgb, id) ==
    (weight["lgb"] * lgb + Addend("thgnn", id) + Addend("simclr", id)) \div 100

\* fuse: the mean of the blend and the embeddings found, by their weights, rounded down.
Fuse(lgb, id) ==
    (weight["lgb"] * lgb + Addend("thgnn", id) + Addend("simclr", id))
    \div (weight["lgb"] + Share("thgnn", id) + Share("simclr", id))

Blend(m1, m2) == (55 * m1 + 45 * m2) \div 100

ResultOf(id, lgb, fused) ==
    [ id |-> id, lgb |-> lgb, on |-> Enabled(table),
      row |-> [k \in Kinds |-> IF k \in Parts(id) THEN Resolve(k, id) ELSE None],
      score |-> fused,
      display |-> ScoreToDisplay(fused),
      level |-> ScoreToLevel(fused),
      is_alert |-> fused >= Threshold ]

Score(id, m1, m2) ==
    /\ result' = ResultOf(id, Blend(m1, m2), Fuse(Blend(m1, m2), id))
    /\ UNCHANGED <<files, loaded, table, index, weight>>

Next ==
    \/ Load
    \/ \E id \in Ids \cup {None}, m1, m2 \in Outputs : Score(id, m1, m2)

Spec == Init /\ [][Next]_vars
-----------------------------------------------------------------------------
(* Properties                                                              *)

Row(k) == result.row[k]
Used == {k \in Kinds : Row(k) # None}

\* The weights sum to one whichever files could be read, LightGBM keeps at least
\* its own share, and what is missing weighs nothing (_renormalize_weights).
WeightsSumToOne ==
    /\ weight["lgb"] + weight["thgnn"] + weight["simclr"] = 100
    /\ weight["lgb"] >= 88
    /\ loaded /\ Enabled(table) => \A k \in Kinds : weight[k] > 0 <=> Has(table, k)

\* A fused score lies between the smallest and the largest of what was fused: an
\* embedding that is not found neither lowers nor raises it (fuse's rescaling).
FusedBetween ==
    result # None =>
        \E low, high \in {result.lgb} \cup {table[k][Row(k)] : k \in Used} :
            low <= result.score /\ result.score <= high

\* A fused score is a weighted mean of what was found.
FusionIsMean == WeightsSumToOne /\ FusedBetween

\* The row that answers for an account is the account's own, in either form, if
\* there is one; otherwise no row that has a number is nearer to it, the keys'
\* order, ends and repeats notwithstanding (_resolve's binary search).
NearestIsNearest ==
    result # None => \A k \in Used :
        LET id == result.id
            own == {id, AltAccountId(id)} \cap DOMAIN table[k]
        IN  IF own # {} THEN Row(k) \in own
            ELSE \A other \in DOMAIN table[k] : NumericPart(other) >= 0 =>
                    Distance(Row(k).n, id.n) <= Distance(other.n, id.n)

\* With a table of real accounts only (ACCT_, as the training data has them),
\* every account with a number gets a row, so no alert lacks its fusion data
\* (the comment at _thgnn_sorted_keys).
RealTablesAnswer ==
    result # None =>
        \A k \in Kinds :
            ( /\ result.on /\ result.id # None /\ NumericPart(result.id) >= 0
              /\ Has(table, k) /\ \A id \in DOMAIN table[k] : id.form = "ACCT" )
            => Row(k) # None

\* A row answers for an account where there is one to answer, and it is the nearest.
ResolvesNearest == NearestIsNearest /\ RealTablesAnswer

\* Level, gauge and alert flag are about the same score: the display is in the
\* level's range, and exactly the scores from MEDIUM on raise an alert.
LevelsAgree ==
    result # None =>
        /\ result.display \in Gauge(result.level)
        /\ result.is_alert <=> result.level # "LOW"

\* A higher score never shows lower, whatever accounts the two scores belong to,
\* and a higher blend of one account never scores lower.
Monotone ==
    [][ result # None /\ result' # None =>
          /\ result'.score >= result.score =>
                /\ result'.display >= result.display
                /\ Rank[result'.level] >= Rank[result.level]
          /\ (result'.on = result.on /\ result'.id = result.id /\ result'.lgb >= result.lgb) =>
                result'.score >= result.score ]_vars

\* An account scores the same under its synthetic and its real id, unless a
\* table has rows of its own for both (_alt_account_id).
AliasesAgree ==
    [][ ( /\ result # None /\ result' # None
          /\ result.id # None /\ result'.id # None
          /\ result'.id = AltAccountId(result.id)
          /\ result'.lgb = result.lgb /\ result'.on = result.on
          /\ \A k \in Kinds : ~({result.id, result'.id} \subseteq DOMAIN table[k]) )
        => result'.score = result.score ]_vars

\* Scores agree with each other: in their order, and for the two ids of an account.
ScoresConsistent == Monotone /\ AliasesAgree

\* Documented: an account in neither table does not lower the LightGBM score.
MissNeverDepresses ==
    result # None =>
        \/ result.id = None
        \/ \E k \in Kinds : {result.id, AltAccountId(result.id)} \cap DOMAIN table[k] # {}
        \/ result.score >= result.lgb
=============================================================================
