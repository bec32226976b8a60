-------------------------- MODULE MCOrderedIngest --------------------------
EXTENDS OrderedIngest

N(v) == Finite(v)
Given(api, max_rows, alert_at, files) ==
  [api |-> api, max_rows |-> max_rows, alert_at |-> alert_at, files |-> files]

\* Batches of files out of order inside, with ties, nulls, infinities, or
\* empty, without max_rows; and single files in the order of their watermark,
\* read max_rows rows at a time.
SafeLoads ==
  {Given("ordered", 0, "critical", << <<N(2), N(1)>>, <<N(3), Null>>, <<N(4), N(4)>> >>),
   Given("ordered", 0, "error", << <<N(1), NonFinite>>, <<>>, <<N(2)>> >>),
   Given("ordered", 0, "critical", << <<Null>>, <<N(5)>> >>),
   Given("single", 1, "critical", << <<N(1), Null, N(3), N(4)>> >>),
   Given("single", 2, "error", << <<N(2), N(3), N(5)>> >>)}

ASSUME SafeLoadsAssumption == \A given \in SafeLoads : Resumable(given)

\* A batch of two files with max_rows.
LimitedBatch == {Given("ordered", 1, "critical", << <<N(1), N(2)>>, <<N(3)>> >>)}
=============================================================================
