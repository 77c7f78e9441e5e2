----------------------------- MODULE CostTable -----------------------------
(***************************************************************************)
(* MatchingGenerator::get_cost: the costs of all pairs of stripes are      *)
(* cached in one array of n(n-1)/2 bytes, the row of the smaller stripe    *)
(* after the rows before it.  What compute_cost returns is any function of *)
(* the pair here (Stripe says which).                                      *)
(***************************************************************************)
EXTENDS Integers

CONSTANTS stripes_num,
          Cost          \* compute_cost of stripes i < j

StripeIndex == 0..(stripes_num - 1)
Empty == 255           \* UINT8_MAX

ASSUME TableAssumption ==
    /\ stripes_num \in Nat \ {0, 1}
    /\ \A i, j \in StripeIndex : i < j => Cost[i][j] \in 0..(Empty - 1)

TableSize == (stripes_num * (stripes_num - 1)) \div 2
Slots == 0..(TableSize - 1)

VARIABLES cost_table,
          asked, answer     \* the last call of get_cost

table_vars == <<cost_table, asked, answer>>

TableInit ==
    /\ cost_table = [s \in Slots |-> Empty]
    /\ asked = <<0, 0>> /\ answer = Empty

\* Fault: every row is taken to be one entry shorter than it is.
SlotShort(i, j) == (i * (2 * stripes_num - 4 - i)) \div 2 + j - 1

Slot(i, j) == (i * (2 * stripes_num - 3 - i)) \div 2 + j - 1

\* Stripes i < j, given in either order.
Lookup(i, j) ==
    /\ i < j
    /\ asked' \in {<<i, j>>, <<j, i>>}
    /\ \/ /\ cost_table[Slot(i, j)] = Empty
          /\ cost_table' = [cost_table EXCEPT ![Slot(i, j)] = Cost[i][j]]
       \/ /\ cost_table[Slot(i, j)] # Empty
          /\ UNCHANGED cost_table
    /\ answer' = cost_table'[Slot(i, j)]

TableNext == \E i, j \in StripeIndex : Lookup(i, j)

TableSpec == TableInit /\ [][TableNext]_table_vars

-----------------------------------------------------------------------------
(* Properties *)

TableTypeOK ==
    /\ cost_table \in [Slots -> 0..Empty]
    /\ asked \in StripeIndex \X StripeIndex
    /\ answer \in 0..Empty

\* get_cost answers with the cost of the pair it is asked about, whatever was
\* asked before and in whatever order the two stripes are named: no two pairs
\* share an entry of the table.
AnswersRight ==
    \A i, j \in StripeIndex :
        i < j /\ asked \in {<<i, j>>, <<j, i>>} => answer = Cost[i][j]
=============================================================================
