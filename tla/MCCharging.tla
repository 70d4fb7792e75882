------------------------------- MODULE MCCharging -------------------------------
(* Instances of Charging for TLC: a few profiles of every purpose and kind.  *)
EXTENDS Charging

Forever == 1000
Entry(id, level, purpose, kind, from, to, start, periods) ==
    [id |-> id, level |-> level, purpose |-> purpose, kind |-> kind, from |-> from,
     to |-> to, start |-> start, periods |-> periods]
At(at, limit) == [at |-> at, limit |-> limit]

Default == Entry(1, 0, "TxDefault", "Absolute", 0, Forever, 0, <<At(0, 16), At(2, 8)>>)
Own == Entry(2, 0, "Tx", "Relative", 0, Forever, NoTime, <<At(0, 6), At(1, 12)>>)
Most == Entry(3, 0, "Max", "Recurring", 0, Forever, 1, <<At(0, 10), At(1, 20)>>)
Short == Entry(1, 1, "TxDefault", "Absolute", 1, 2, 0, <<At(0, 4)>>)
Tied == Entry(4, 0, "TxDefault", "Recurring", 0, Forever, 0, <<At(1, 5)>>)
All == {Default, Own, Most, Short, Tied}
Few == {Default, Own}

SomeFilters == {[id |-> 1], [conn |-> 0, purpose |-> "TxDefault"]}
=============================================================================
