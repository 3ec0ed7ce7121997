------------------------------ MODULE DenseTask ------------------------------
(***************************************************************************)
(* What the lanes of one dense task write: dense_task of                   *)
(* spa/plugins/filter-graph/ndarray-executor.c, run by a worker group that *)
(* calls it once for each lane (WorkerGroup).  The rows are divided in     *)
(* proportion and every boundary is moved up to the next cache line of the *)
(* output, so that no two lanes write to the same line.  Addresses and     *)
(* sizes are in floats: validate_dense_task admits an aligned output only. *)
(***************************************************************************)
EXTENDS Integers, FiniteSets

CONSTANTS MaxRows, MaxLanes,
          Line    \* SPA_CACHE_LINE_SIZE / sizeof(float)

ASSUME DenseAssumption == MaxRows \in Nat \ {0} /\ MaxLanes \in Nat \ {0} /\ Line \in Nat \ {0}

VARIABLES
    rows,     \* task->n_rows
    lanes,    \* n_lanes
    output,   \* the address of task->output, modulo the cache line
    row,      \* dense_task's row, for each lane
    writers   \* history: the lanes that wrote each row
vars == <<rows, lanes, output, row, writers>>

proportional_row(lane) ==
    lane * (rows \div lanes) + (IF lane < rows % lanes THEN lane ELSE rows % lanes)

\* Bug: the rows of the task are taken to start a cache line.
Bug_IgnoreAddress(lane) ==
    LET misalignment == proportional_row(lane) % Line
        adjusted == proportional_row(lane) + (IF misalignment = 0 THEN 0 ELSE Line - misalignment)
    IN IF lane = 0 THEN 0 ELSE IF lane >= lanes THEN rows
       ELSE IF adjusted < rows THEN adjusted ELSE rows

cache_line_boundary(lane) ==
    LET misalignment == (output + proportional_row(lane)) % Line
        adjusted == proportional_row(lane) + (IF misalignment = 0 THEN 0 ELSE Line - misalignment)
    IN IF lane = 0 THEN 0 ELSE IF lane >= lanes THEN rows
       ELSE IF adjusted < rows THEN adjusted ELSE rows

Init ==
    /\ rows \in 1..MaxRows /\ lanes \in 1..MaxLanes /\ output \in 0..Line-1
    /\ row = [l \in 0..lanes-1 |-> cache_line_boundary(l)]
    /\ writers = [r \in 0..rows-1 |-> {}]

\* Bug: only the first row of a lane is moved to the cache line.
Bug_ShortLane(lane) == proportional_row(lane + 1)

\* dense_task's last, where the lane's loop ends
last(lane) == cache_line_boundary(lane + 1)

\* task->output[row] = ...; row++
dense_task(lane) ==
    /\ row[lane] < last(lane)
    /\ writers' = [writers EXCEPT ![row[lane]] = @ \cup {lane}]
    /\ row' = [row EXCEPT ![lane] = @ + 1]
    /\ UNCHANGED <<rows, lanes, output>>

Next == \E lane \in 0..lanes-1 : dense_task(lane)

Spec == Init /\ [][Next]_vars

-----------------------------------------------------------------------------
\* executor.cache_line_size, "mutable-lane isolation granularity": the rows of
\* one cache line of the output are written by one lane.  With ACCUMULATE a
\* row two lanes wrote would also have been added to twice.
LinesPrivate ==
    \A r, q \in 0..rows-1 :
        (output + r) \div Line = (output + q) \div Line =>
            Cardinality(writers[r] \cup writers[q]) <= 1

\* The loops of all lanes have come to their end.
Done == \A lane \in 0..lanes-1 : row[lane] >= last(lane)

\* "Helper count does not change the result": when all lanes are done every
\* row has been written, however many there are and wherever the output is.
EveryRowWritten == Done => \A r \in 0..rows-1 : writers[r] # {}
=============================================================================
