----------------------------- MODULE MCScoring -----------------------------
EXTENDS Scoring

ACCT(n) == [form |-> "ACCT", n |-> n]
ACC(n) == [form |-> "ACC", n |-> n]
Known == [form |-> "other", n |-> 1]
Unknown == [form |-> "other", n |-> 2]

\* Below, at, between (a tie, nearer to either side) and above the tables' keys.
MCIds == {ACC(0), ACC(1), ACC(2), ACC(4), ACC(8), ACCT(1), ACCT(2), ACCT(5), Known, Unknown}

\* Every row has a proba of its own.
ProbaOf(id) ==
    CASE id.form = "ACCT" -> 100 * id.n + 30
      [] id.form = "ACC" -> 100 * id.n + 60
      [] id.form = "other" -> 500
Table(ids) == [id \in ids |-> ProbaOf(id)]
Rows == {ACCT(1), ACCT(3), ACCT(6), Known}
MCTables ==
    [ thgnn |-> {Table(ids) : ids \in SUBSET Rows \cup {{ACC(2), ACCT(1)}, {ACCT(2), ACC(2)}}},
      simclr |-> {Table({}), Table({ACCT(3)}), Table({ACC(2), ACCT(6)})} ]
MCOutputs == {0, 150, 190}
=============================================================================
