---------------------------- MODULE PositionList ----------------------------
(***************************************************************************)
(* Rows with a position that is unique in the table, as the columns of the *)
(* board and the booking options of one group.  A list is a function from  *)
(* the rows there are to their positions.                                  *)
(***************************************************************************)
EXTENDS Naturals, Sequences, FiniteSets, Functions

\* The numbers of a finite set, the lowest first.
Ascending(numbers) ==
  CHOOSE s \in [1..Cardinality(numbers) -> numbers] : \A i, j \in DOMAIN s : i < j => s[i] < s[j]

\* ORDER BY position.
InOrder(list) ==
  LET at == Ascending(Range(list)) IN
  [i \in DOMAIN at |-> CHOOSE row \in DOMAIN list : list[row] = at[i]]

\* filter
Kept(order, rows) ==
  LET at == Ascending({i \in DOMAIN order : order[i] \in rows}) IN [i \in DOMAIN at |-> order[at[i]]]

\* The rows of a statement with FOR UPDATE that had to wait: in the order of
\* the snapshot it took before, without the rows that are gone, and without
\* those that came.
Relisted(seen, list) == Kept(seen, DOMAIN list)

Without(order, row) == Kept(order, Range(order) \ {row})

\* splice: the row goes to the place, or to the end when that lies behind it.
Spliced(order, place, row) ==
  LET at == IF place > Len(order) THEN Len(order) ELSE place
  IN [i \in 1..(Len(order) + 1) |-> IF i <= at THEN order[i]
                                    ELSE IF i = at + 1 THEN row ELSE order[i - 1]]

\* The positions of the rows an order does not name.
Others(list, order) == {list[row] : row \in DOMAIN list \ Range(order)}

\* A list is written in two statements, first all rows moved out of the way,
\* then 0, 1, ...; the index is checked row by row, so that a row which the
\* order does not name makes either of them fail.
Persistable(list, order) ==
  LET others == Others(list, order) IN
  \A i \in DOMAIN order : /\ list[order[i]] + Len(order) + 1 \notin others
                          /\ i - 1 \notin others

Persisted(list, order) ==
  [row \in DOMAIN list |-> IF row \in Range(order)
                           THEN (CHOOSE i \in DOMAIN order : order[i] = row) - 1
                           ELSE list[row]]

\* The next row goes to the number of rows, which is free in a dense list only.
Dense(list) == Range(list) = 0..(Cardinality(DOMAIN list) - 1)
=============================================================================
