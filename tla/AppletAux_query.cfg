CONSTANTS
  Users = {a1}  Nobody = Nobody
  MaxDeferred = 1  MaxQueries = 1  MaxPlan = 1  MaxAsked = 3
INIT Init
NEXT Next
CHECK_DEADLOCK FALSE
INVARIANTS DisplacedQueryIsPutBack
