--------------------------- MODULE DenseTaskProofs ---------------------------
(***************************************************************************)
(* The partition of dense_task, for every number of rows and lanes, every  *)
(* size of a cache line and every address of the output.                   *)
(***************************************************************************)
EXTENDS DenseTask, TLAPS, FiniteSetTheorems, WellFoundedInduction

\* Two addresses with a multiple of n above the first and not above the second
\* are in different lines of n.
LEMMA MultipleSeparates ==
    ASSUME NEW n \in Nat \ {0}, NEW a \in Nat, NEW b \in Nat, NEW c \in Nat,
           a < c, c <= b, c % n = 0
    PROVE  a \div n # b \div n
<1>1. c = n * (c \div n) /\ c \div n \in Nat
    OBVIOUS
<1>2. n * (a \div n) <= a /\ a \div n \in Nat
    OBVIOUS
<1>3. b < n * (b \div n) + n /\ b \div n \in Nat
    OBVIOUS
<1> DEFINE m == c \div n
           x == a \div n
           y == b \div n
<1> HIDE DEF m, x, y
<1>4. c = n * m /\ n * x <= a /\ b < n * y + n /\ m \in Nat /\ x \in Nat /\ y \in Nat
    BY <1>1, <1>2, <1>3 DEF m, x, y
<1>5. x < m
    BY <1>4
<1>6. m <= y
    BY <1>4
<1>7. QED BY <1>4, <1>5, <1>6 DEF x, y

\* Two different multiples of n are at least n apart.
LEMMA MultiplesApart ==
    ASSUME NEW n \in Nat \ {0}, NEW a \in Nat, NEW b \in Nat, a % n = 0, b % n = 0, a < b
    PROVE  a + n <= b
<1> DEFINE x == a \div n
           y == b \div n
<1>1. a = n * x /\ b = n * y /\ x \in Nat /\ y \in Nat
    OBVIOUS
<1> HIDE DEF x, y
<1>2. x < y
    BY <1>1
<1>3. n * (x + 1) <= n * y
    BY <1>1, <1>2
<1>4. QED BY <1>1, <1>3

\* A multiple of n leaves no remainder.
LEMMA MultipleMod ==
    ASSUME NEW n \in Nat \ {0}, NEW d \in Nat
    PROVE  (n * d) % n = 0
<1> DEFINE a == n * d
           r == a % n
           q == a \div n
<1>1. a \in Nat
    OBVIOUS
<1>2. a = n * q + r /\ q \in Nat /\ r \in 0..n-1
    BY <1>1
<1>3. r = n * (d - q)
    BY <1>2
<1> HIDE DEF r, q
<1>4. ~(d - q >= 1)
  <2>1. d - q >= 1 => n * (d - q) >= n
    BY <1>2
  <2>2. QED BY <1>2, <1>3, <2>1
<1>5. ~(d - q <= -1)
  <2>1. d - q <= -1 => n * (d - q) <= -n
    BY <1>2
  <2>2. QED BY <1>2, <1>3, <2>1
<1>6. r = 0
  <2>1. d - q = 0
    BY <1>2, <1>4, <1>5
  <2>2. QED BY <1>3, <2>1
<1>7. QED BY <1>6 DEF r

\* The inputs of a task that validate_dense_task has admitted.
Task == rows \in 1..MaxRows /\ lanes \in 1..MaxLanes /\ output \in 0..Line-1

\* Moving a row up to the next line of the output: what cache_line_boundary
\* does before it clamps.
RoundUp(p) ==
    LET misalignment == (output + p) % Line
    IN p + (IF misalignment = 0 THEN 0 ELSE Line - misalignment)

\* The row moved up is less than a line away and starts a line.
LEMMA RoundUpAligned ==
    ASSUME Task, NEW p \in Nat
    PROVE  RoundUp(p) \in Nat /\ p <= RoundUp(p) /\ RoundUp(p) < p + Line
           /\ (output + RoundUp(p)) % Line = 0
<1> USE DenseAssumption
<1> DEFINE a == output + p
           m == a % Line
           d == a \div Line
<1>1. a \in Nat /\ m \in 0..Line-1 /\ d \in Nat /\ a = Line * d + m
    BY DEF Task
<1>2. RoundUp(p) = p + (IF m = 0 THEN 0 ELSE Line - m)
    BY DEF RoundUp
<1>3. output + RoundUp(p) = IF m = 0 THEN Line * d ELSE Line * (d + 1)
    BY <1>1, <1>2 DEF Task
<1> HIDE DEF a, d, m
<1>4. (Line * d) % Line = 0 /\ (Line * (d + 1)) % Line = 0
    BY <1>1, MultipleMod
<1>5. QED BY <1>1, <1>2, <1>3, <1>4 DEF Task

\* Moving rows up keeps their order.
LEMMA RoundUpMonotone ==
    ASSUME Task, NEW p \in Nat, NEW q \in Nat, p <= q
    PROVE  RoundUp(p) <= RoundUp(q)
<1> USE DenseAssumption
<1> DEFINE a == RoundUp(p)
           b == RoundUp(q)
<1>1. /\ a \in Nat /\ a < p + Line /\ (output + a) % Line = 0
      /\ b \in Nat /\ q <= b /\ (output + b) % Line = 0
    BY RoundUpAligned
<1> HIDE DEF a, b
<1>2. output \in Nat
    BY DEF Task
<1>3. ASSUME b < a PROVE FALSE
  <2>1. (output + b) + Line <= output + a
    <3>1. output + b \in Nat /\ output + a \in Nat /\ output + b < output + a
      BY <1>1, <1>2, <1>3
    <3>2. QED BY <1>1, <3>1, MultiplesApart
  <2>2. QED BY <1>1, <1>2, <2>1
<1>4. QED BY <1>1, <1>3 DEF a, b

\* proportional_row gives the lanes their rows in order.
LEMMA ProportionalMonotone ==
    ASSUME Task, NEW l \in Nat, NEW k \in Nat, l <= k
    PROVE  proportional_row(l) \in Nat /\ proportional_row(l) <= proportional_row(k)
<1> DEFINE q == rows \div lanes
           m == rows % lanes
<1>1. q \in Nat /\ m \in Nat
    BY DenseAssumption DEF Task
<1> HIDE DEF q, m
<1>2. l * q \in Nat /\ k * q \in Nat /\ l * q <= k * q
    BY <1>1
<1>3. /\ proportional_row(l) = l * q + (IF l < m THEN l ELSE m)
      /\ proportional_row(k) = k * q + (IF k < m THEN k ELSE m)
    BY DEF proportional_row, q, m
<1>4. QED BY <1>1, <1>2, <1>3

\* cache_line_boundary in terms of RoundUp.
LEMMA BoundaryDef ==
    ASSUME NEW l
    PROVE  cache_line_boundary(l) =
             IF l = 0 THEN 0 ELSE IF l >= lanes THEN rows
             ELSE IF RoundUp(proportional_row(l)) < rows THEN RoundUp(proportional_row(l)) ELSE rows
    BY DEF cache_line_boundary, RoundUp

\* The boundaries are rows, in the order of the lanes, from 0 to n_rows; one
\* inside the task starts a line.
LEMMA Boundaries ==
    ASSUME Task
    PROVE  /\ \A l \in 0..lanes : cache_line_boundary(l) \in 0..rows
           /\ \A l, k \in 0..lanes : l <= k => cache_line_boundary(l) <= cache_line_boundary(k)
           /\ cache_line_boundary(0) = 0 /\ cache_line_boundary(lanes) = rows
           /\ \A l \in 1..lanes : cache_line_boundary(l) < rows =>
                (output + cache_line_boundary(l)) % Line = 0
<1> USE DenseAssumption
<1>0. rows \in Nat \ {0} /\ lanes \in Nat \ {0}
    BY DEF Task
<1>1. \A l \in Nat : RoundUp(proportional_row(l)) \in Nat
    BY ProportionalMonotone, RoundUpAligned
<1>2. \A l \in Nat : (output + RoundUp(proportional_row(l))) % Line = 0
    BY ProportionalMonotone, RoundUpAligned
<1>3. \A l, k \in Nat : l <= k => RoundUp(proportional_row(l)) <= RoundUp(proportional_row(k))
    BY ProportionalMonotone, RoundUpMonotone
<1>4. \A l \in 0..lanes : cache_line_boundary(l) \in 0..rows
    BY <1>0, <1>1, BoundaryDef
<1>5. ASSUME NEW l \in 0..lanes, NEW k \in 0..lanes, l <= k
      PROVE  cache_line_boundary(l) <= cache_line_boundary(k)
  <2>1. CASE l = 0 \/ k = lanes
    BY <1>0, <1>4, <2>1, BoundaryDef
  <2>2. CASE l # 0 /\ k # lanes
    <3>1. l \in Nat /\ k \in Nat /\ l # 0 /\ k # 0 /\ l < lanes /\ k < lanes
      BY <1>0, <1>5, <2>2
    <3>2. QED BY <1>0, <1>1, <1>3, <1>5, <3>1, BoundaryDef
  <2>3. QED BY <2>1, <2>2
<1>6. cache_line_boundary(0) = 0 /\ cache_line_boundary(lanes) = rows
    BY <1>0, BoundaryDef
<1>7. ASSUME NEW l \in 1..lanes, cache_line_boundary(l) < rows
      PROVE  (output + cache_line_boundary(l)) % Line = 0
    BY <1>0, <1>1, <1>2, <1>7, BoundaryDef
<1>8. QED BY <1>4, <1>5, <1>6, <1>7

\* The inductive invariant: a lane stays between its boundary and the next
\* one, and has written exactly the rows it has passed.
DenseInv ==
    /\ Task
    /\ row \in [0..lanes-1 -> 0..rows]
    /\ writers \in [0..rows-1 -> SUBSET (0..lanes-1)]
    /\ \A l \in 0..lanes-1 :
         cache_line_boundary(l) <= row[l] /\ row[l] <= cache_line_boundary(l + 1)
    /\ \A l \in 0..lanes-1, r \in 0..rows-1 :
         l \in writers[r] <=> cache_line_boundary(l) <= r /\ r < row[l]

\* Every lane starts at its boundary and nothing is written.
LEMMA InitDenseInv == Init => DenseInv
<1> USE DenseAssumption
<1> SUFFICES ASSUME Init PROVE DenseInv
    OBVIOUS
<1>1. Task /\ lanes \in Nat \ {0} /\ rows \in Nat \ {0}
    BY DEF Init, Task
<1>2. \A l \in 0..lanes-1 : /\ cache_line_boundary(l) \in 0..rows
                            /\ cache_line_boundary(l) <= cache_line_boundary(l + 1)
  <2>1. ASSUME NEW l \in 0..lanes-1
        PROVE  l \in 0..lanes /\ l + 1 \in 0..lanes /\ l <= l + 1
    BY <1>1
  <2>2. QED BY <1>1, <2>1, Boundaries
<1>3. row = [l \in 0..lanes-1 |-> cache_line_boundary(l)] /\ writers = [r \in 0..rows-1 |-> {}]
    BY DEF Init
<1>4. row \in [0..lanes-1 -> 0..rows] /\ writers \in [0..rows-1 -> SUBSET (0..lanes-1)]
    BY <1>2, <1>3
<1>5. ASSUME NEW l \in 0..lanes-1
      PROVE  cache_line_boundary(l) <= row[l] /\ row[l] <= cache_line_boundary(l + 1)
    BY <1>2, <1>3
<1>6. ASSUME NEW l \in 0..lanes-1, NEW r \in 0..rows-1
      PROVE  l \in writers[r] <=> cache_line_boundary(l) <= r /\ r < row[l]
    BY <1>1, <1>2, <1>3
<1>7. QED BY <1>1, <1>4, <1>5, <1>6 DEF DenseInv

\* A step writes the next row of one lane.
LEMMA NextDenseInv == DenseInv /\ [Next]_vars => DenseInv'
<1> USE DenseAssumption
<1> SUFFICES ASSUME DenseInv, [Next]_vars PROVE DenseInv'
    OBVIOUS
<1>1. CASE UNCHANGED vars
    BY <1>1 DEF vars, DenseInv, Task, cache_line_boundary, proportional_row
<1>2. ASSUME NEW lane \in 0..lanes-1, dense_task(lane) PROVE DenseInv'
  <2> DEFINE B(l) == cache_line_boundary(l)
             x == row[lane]
  <2>1. UNCHANGED <<rows, lanes, output>> /\ Task /\ Task' /\ rows \in Nat /\ lanes \in Nat
    BY <1>2 DEF dense_task, last, DenseInv, Task
  <2>2. \A l \in 0..lanes : B(l)' = B(l) /\ B(l) \in 0..rows
    BY <2>1, Boundaries DEF cache_line_boundary, proportional_row
  <2>3. \A l \in 0..lanes-1 : l \in 0..lanes /\ l + 1 \in 0..lanes
    BY <2>1
  <2>4. /\ x < B(lane + 1) /\ x \in 0..rows /\ B(lane) <= x
        /\ writers' = [writers EXCEPT ![x] = writers[x] \cup {lane}]
        /\ row' = [row EXCEPT ![lane] = x + 1]
    BY <1>2 DEF dense_task, last, DenseInv
  <2>5. x \in 0..rows-1 /\ x + 1 \in 0..rows /\ x + 1 <= B(lane + 1)
    BY <2>1, <2>2, <2>3, <2>4
  <2>6. row' \in [0..lanes-1 -> 0..rows] /\ writers' \in [0..rows-1 -> SUBSET (0..lanes-1)]
    BY <2>4, <2>5 DEF DenseInv
  <2> HIDE DEF B
  <2>7. ASSUME NEW l \in 0..lanes-1 PROVE B(l) <= row'[l] /\ row'[l] <= B(l + 1)
    <3>1. B(l) <= row[l] /\ row[l] <= B(l + 1) /\ B(l) \in 0..rows /\ row[l] \in 0..rows
      BY <2>2, <2>3 DEF DenseInv, B
    <3>2. row'[l] = IF l = lane THEN x + 1 ELSE row[l]
      BY <2>4 DEF DenseInv
    <3>3. QED BY <2>4, <2>5, <3>1, <3>2
  <2>8. ASSUME NEW l \in 0..lanes-1, NEW r \in 0..rows-1
        PROVE  l \in writers'[r] <=> B(l) <= r /\ r < row'[l]
    <3>1. l \in writers[r] <=> B(l) <= r /\ r < row[l]
      BY DEF DenseInv, B
    <3>2. row'[l] = IF l = lane THEN x + 1 ELSE row[l]
      BY <2>4 DEF DenseInv
    <3>3. writers'[r] = IF r = x THEN writers[x] \cup {lane} ELSE writers[r]
      BY <2>4, <2>5 DEF DenseInv
    <3>4. CASE l = lane
      <4>1. l \in writers'[r] <=> (l \in writers[r] \/ r = x)
        BY <3>3, <3>4
      <4>2. B(l) \in Nat /\ r \in Nat /\ x \in Nat /\ B(l) <= x /\ row'[l] = x + 1
        BY <2>1, <2>2, <2>3, <2>4, <3>2, <3>4
      <4>3. QED BY <3>1, <3>4, <4>1, <4>2
    <3>5. CASE l # lane
      <4>1. l \in writers'[r] <=> l \in writers[r]
        BY <3>3, <3>5
      <4>2. QED BY <3>1, <3>2, <3>5, <4>1
    <3>6. QED BY <3>4, <3>5
  <2>9. QED BY <2>1, <2>2, <2>3, <2>6, <2>7, <2>8 DEF DenseInv, B
<1>3. QED BY <1>1, <1>2 DEF Next

\* A line of the output has one writer: two lanes that wrote rows r and q have
\* a boundary between them, and a boundary inside the task starts a line.
LEMMA InvLinesPrivate == DenseInv => LinesPrivate
<1> USE DenseAssumption
<1> SUFFICES ASSUME DenseInv, NEW r \in 0..rows-1, NEW q \in 0..rows-1,
                    (output + r) \div Line = (output + q) \div Line
             PROVE  Cardinality(writers[r] \cup writers[q]) <= 1
    BY DEF LinesPrivate
<1>0. Task /\ rows \in Nat /\ lanes \in Nat /\ output \in Nat
    BY DEF DenseInv, Task
<1>1. ASSUME NEW l \in 0..lanes-1, NEW k \in 0..lanes-1, l < k,
             NEW s \in 0..rows-1, NEW t \in 0..rows-1, l \in writers[s], k \in writers[t]
      PROVE  (output + s) \div Line # (output + t) \div Line
  <2>1. /\ l \in 0..lanes /\ k \in 0..lanes /\ l + 1 \in 0..lanes /\ k \in 1..lanes /\ l + 1 <= k
    BY <1>0, <1>1
  <2>2. s < row[l] /\ row[l] <= cache_line_boundary(l + 1) /\ cache_line_boundary(k) <= t
    BY <1>1 DEF DenseInv
  <2>3. /\ cache_line_boundary(l + 1) <= cache_line_boundary(k)
        /\ cache_line_boundary(k) \in 0..rows /\ cache_line_boundary(l + 1) \in 0..rows
    BY <1>0, <2>1, Boundaries
  <2>4. row[l] \in 0..rows
    BY DEF DenseInv
  <2> DEFINE b == cache_line_boundary(k)
  <2>5. s < b /\ b <= t /\ b < rows /\ b \in Nat
    BY <1>0, <2>2, <2>3, <2>4
  <2>6. (output + b) % Line = 0
    BY <1>0, <2>1, <2>5, Boundaries
  <2> HIDE DEF b
  <2>7. /\ output + s \in Nat /\ output + t \in Nat /\ output + b \in Nat
        /\ output + s < output + b /\ output + b <= output + t
    BY <1>0, <2>5
  <2>8. QED BY <2>6, <2>7, MultipleSeparates
<1>2. ASSUME NEW l \in writers[r] \cup writers[q], NEW k \in writers[r] \cup writers[q]
      PROVE  l = k
  <2>1. l \in 0..lanes-1 /\ k \in 0..lanes-1
    BY DEF DenseInv
  <2>2. \E s, t \in {r, q} : l \in writers[s] /\ k \in writers[t]
    BY <1>2
  <2>3. PICK s \in {r, q}, t \in {r, q} : l \in writers[s] /\ k \in writers[t]
    BY <2>2
  <2>4. (output + s) \div Line = (output + t) \div Line /\ s \in 0..rows-1 /\ t \in 0..rows-1
    BY <2>3
  <2>5. ~(l < k) /\ ~(k < l)
    BY <1>1, <2>1, <2>3, <2>4
  <2>6. QED BY <1>0, <2>1, <2>5
<1>3. CASE writers[r] \cup writers[q] = {}
  <2>1. Cardinality(writers[r] \cup writers[q]) = 0
    BY <1>3, FS_EmptySet, Zenon
  <2>2. QED BY <2>1
<1>4. CASE writers[r] \cup writers[q] # {}
  <2>1. PICK l : writers[r] \cup writers[q] = {l}
    BY <1>2, <1>4
  <2>2. Cardinality(writers[r] \cup writers[q]) = 1
    BY <2>1, FS_Singleton, Zenon
  <2>3. QED BY <2>2
<1>5. QED BY <1>3, <1>4

\* The rows of the lanes leave no gap: the lane that writes row r is the lowest
\* one whose next boundary is above r.
LEMMA InvEveryRowWritten == DenseInv => EveryRowWritten
<1> USE DenseAssumption
<1> SUFFICES ASSUME DenseInv, Done, NEW r \in 0..rows-1
             PROVE  writers[r] # {}
    BY DEF EveryRowWritten
<1> DEFINE T == {l \in 0..lanes-1 : r < cache_line_boundary(l + 1)}
           Below == OpToRel(<, Nat)
<1>0. Task /\ rows \in Nat \ {0} /\ lanes \in Nat \ {0} /\ r \in Nat
    BY DEF DenseInv, Task
<1>1. lanes - 1 \in T
  <2>1. cache_line_boundary(lanes) = rows
    BY <1>0, Boundaries
  <2>2. lanes - 1 \in 0..lanes-1 /\ (lanes - 1) + 1 = lanes /\ r < rows
    BY <1>0
  <2>3. QED BY <2>1, <2>2
<1>2. PICK l \in T : \A k \in T : ~(<<k, l>> \in Below)
  <2>1. T \subseteq Nat /\ T # {}
    BY <1>0, <1>1
  <2> HIDE DEF T, Below
  <2>2. IsWellFoundedOn(Below, Nat)
    BY NatLessThanWellFounded DEF Below
  <2>3. QED BY <2>1, <2>2, WFMin
<1>3. l \in 0..lanes-1 /\ r < cache_line_boundary(l + 1)
    OBVIOUS
<1>4. cache_line_boundary(l) <= r
  <2>1. CASE l = 0
    BY <1>0, <2>1, Boundaries
  <2>2. CASE l # 0
    <3>1. l - 1 \in 0..lanes-1 /\ l - 1 \in Nat /\ l \in Nat /\ l - 1 < l /\ (l - 1) + 1 = l
      BY <1>0, <1>3, <2>2
    <3>2. <<l - 1, l>> \in Below
      BY <3>1 DEF OpToRel
    <3>3. ~(r < cache_line_boundary(l))
      BY <1>2, <3>1, <3>2
    <3>4. cache_line_boundary(l) \in 0..rows
      <4>1. l \in 0..lanes
        BY <1>0, <1>3
      <4>2. QED BY <1>0, <4>1, Boundaries
    <3>5. QED BY <1>0, <3>3, <3>4
  <2>3. QED BY <2>1, <2>2
<1>5. r < row[l]
  <2>1. cache_line_boundary(l + 1) <= row[l]
    BY <1>3 DEF Done, last, DenseInv
  <2>2. row[l] \in 0..rows /\ cache_line_boundary(l + 1) \in 0..rows
    <3>1. l + 1 \in 0..lanes
      BY <1>0, <1>3
    <3>2. QED BY <1>0, <1>3, <3>1, Boundaries DEF DenseInv
  <2>3. QED BY <1>0, <1>3, <2>1, <2>2
<1>6. l \in writers[r]
    BY <1>3, <1>4, <1>5 DEF DenseInv
<1>7. QED BY <1>6

\* The invariant of the lanes, whatever the rows, lanes, lines and address.
THEOREM DenseInvariant == Spec => []DenseInv
<1>1. QED BY InitDenseInv, NextDenseInv, PTL DEF Spec

\* No two lanes write to one cache line of the output (cache_line_boundary).
THEOREM LinesHaveOneWriter == Spec => []LinesPrivate
<1>1. QED BY InvLinesPrivate, DenseInvariant, PTL

\* When the lanes of dense_task are done every row has been written.
THEOREM AllRowsWritten == Spec => []EveryRowWritten
<1>1. QED BY InvEveryRowWritten, DenseInvariant, PTL
=============================================================================
