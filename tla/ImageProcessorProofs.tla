------------------------ MODULE ImageProcessorProofs ------------------------
(***************************************************************************)
(* The slices of multiThreadFunction cut every window exactly, for every   *)
(* number of rows and of threads, and so each row of the image is written  *)
(* once, however the threads are scheduled; the progress counter loses     *)
(* nothing.                                                                *)
(***************************************************************************)
EXTENDS ImageProcessor, FiniteSetTheorems, TLAPS

-----------------------------------------------------------------------------
(* Division of natural numbers.                                            *)

LEMMA DivBounds ==
  ASSUME NEW a \in Nat, NEW n \in Nat \ {0}
  PROVE  a \div n \in Nat /\ n * (a \div n) <= a /\ a < n * (a \div n) + n
  BY SMT

LEMMA TimesMonotone ==
  ASSUME NEW a \in Nat, NEW b \in Nat, NEW n \in Nat, a <= b
  PROVE  a * n \in Nat /\ b * n \in Nat /\ a * n <= b * n
  BY SMT

(* What the quotient is compared with, in terms of products. *)
LEMMA DivAtMost ==
  ASSUME NEW a \in Nat, NEW q \in Nat, NEW n \in Nat \ {0}, a < n * q + n
  PROVE  a \div n <= q
  <1> DEFINE p == a \div n
  <1>1. p \in Nat /\ n * p <= a
    BY DivBounds
  <1>2. SUFFICES ASSUME q + 1 <= p PROVE FALSE
    BY <1>1
  <1> HIDE DEF p
  <1>3. (q + 1) * n <= p * n
    BY <1>1, <1>2, TimesMonotone
  <1>4. (q + 1) * n = n * q + n /\ p * n = n * p
    BY <1>1
  <1> QED
    BY <1>1, <1>3, <1>4

LEMMA DivAtLeast ==
  ASSUME NEW a \in Nat, NEW q \in Nat, NEW n \in Nat \ {0}, n * q <= a
  PROVE  q <= a \div n
  <1> DEFINE p == a \div n
  <1>1. p \in Nat /\ a < n * p + n
    BY DivBounds
  <1>2. SUFFICES ASSUME p + 1 <= q PROVE FALSE
    BY <1>1
  <1> HIDE DEF p
  <1>3. (p + 1) * n <= q * n
    BY <1>1, <1>2, TimesMonotone
  <1>4. (p + 1) * n = n * p + n /\ q * n = n * q
    BY <1>1
  <1> QED
    BY <1>1, <1>3, <1>4

-----------------------------------------------------------------------------
(* The slices.  Height is the number of rows of the window.                *)

Height == window.y2 - window.y1
WindowOK == window \in Windows /\ nThreads \in Nat \ {0}

LEMMA WindowTyped ==
  ASSUME WindowOK
  PROVE  /\ window.y1 \in Int /\ window.y2 \in Int /\ window.dx \in Nat
         /\ Height \in Nat /\ window.y2 = window.y1 + Height
  BY ProcessorAssumption DEF WindowOK, Height

LEMMA CutBounds ==
  ASSUME WindowOK
  PROVE  /\ Cut(0) = 0 /\ Cut(nThreads) = Height
         /\ \A i \in 0 .. nThreads : Cut(i) \in 0 .. Height
         /\ \A i, j \in 0 .. nThreads : i <= j => Cut(i) <= Cut(j)
  <1> DEFINE n == nThreads
             h == Height
  <1>0. n \in Nat \ {0} /\ h \in Nat
    BY WindowTyped DEF WindowOK
  <1>1. \A i : Cut(i) = (i * h) \div n
    BY DEF Cut, Height
  <1> HIDE DEF h, n
  <1>2. ASSUME NEW i \in 0 .. n, NEW j \in 0 .. n, i <= j
        PROVE  Cut(i) \in Nat /\ Cut(i) <= Cut(j)
    <2>1. i * h \in Nat /\ j * h \in Nat /\ i * h <= j * h
      BY <1>0, <1>2, TimesMonotone
    <2>2. Cut(i) \in Nat /\ n * Cut(i) <= i * h
      BY <1>0, <1>1, <2>1, DivBounds
    <2>3. n * Cut(i) <= j * h
      BY <1>0, <2>1, <2>2
    <2>4. Cut(i) <= (j * h) \div n
      BY <1>0, <2>1, <2>2, <2>3, DivAtLeast
    <2> QED
      BY <1>1, <2>2, <2>4
  <1>3. Cut(0) = 0
    <2>1. 0 * h = 0 /\ 0 \div n <= 0 /\ 0 \div n \in Nat
      BY <1>0, DivAtMost, DivBounds
    <2> QED
      BY <1>1, <2>1
  <1>4. Cut(n) = h
    <2>1. n * h \in Nat /\ n * h <= n * h /\ n * h < n * h + n
      BY <1>0
    <2>2. (n * h) \div n <= h /\ h <= (n * h) \div n /\ (n * h) \div n \in Nat
      BY <1>0, <2>1, DivAtMost, DivAtLeast, DivBounds
    <2> QED
      BY <1>0, <1>1, <2>2
  <1>5. ASSUME NEW i \in 0 .. n PROVE Cut(i) \in 0 .. h
    <2>1. Cut(i) \in Nat /\ Cut(i) <= Cut(n)
      BY <1>0, <1>2
    <2> QED
      BY <1>0, <1>4, <2>1
  <1> QED
    BY <1>2, <1>3, <1>4, <1>5 DEF h, n

(* The row at offset k is in the slice of the thread found by a division. *)
LEMMA CutCovers ==
  ASSUME WindowOK, NEW k \in 0 .. Height - 1
  PROVE  \E i \in 0 .. nThreads - 1 : Cut(i) <= k /\ k < Cut(i + 1)
  <1> DEFINE n == nThreads
             h == Height
             a == (k + 1) * n - 1
             i == a \div h
  <1>0. n \in Nat \ {0} /\ h \in Nat \ {0} /\ k \in Nat /\ k + 1 <= h
    BY WindowTyped DEF WindowOK
  <1>1. \A j : Cut(j) = (j * h) \div n
    BY DEF Cut, Height
  <1> HIDE DEF h, n
  <1>2. a \in Nat /\ a = n * k + n - 1
    <2>1. (k + 1) * n = n * k + n /\ n * k \in Nat
      BY <1>0
    <2> QED
      BY <1>0, <2>1
  <1>3. i \in Nat /\ h * i <= a /\ a < h * i + h
    BY <1>0, <1>2, DivBounds
  <1>4. i * h = h * i /\ (i + 1) * h = h * i + h /\ i * h \in Nat /\ (i + 1) * h \in Nat
    BY <1>0, <1>3
  <1>5. i <= n - 1
    <2>1. (k + 1) * n <= h * n
      BY <1>0, TimesMonotone
    <2>2. h * n = h * (n - 1) + h /\ h * n \in Nat /\ h * (n - 1) \in Nat
      BY <1>0
    <2>3. (k + 1) * n \in Nat
      BY <1>0
    <2>4. a < h * (n - 1) + h
      BY <1>0, <2>1, <2>2, <2>3
    <2> HIDE DEF a
    <2> QED
      BY <1>0, <1>2, <2>4, DivAtMost
  <1> HIDE DEF a, i
  <1>6. Cut(i) <= k
    <2>1. i * h < n * k + n
      BY <1>0, <1>2, <1>3, <1>4
    <2> QED
      BY <1>0, <1>1, <1>4, <2>1, DivAtMost
  <1>7. k + 1 <= Cut(i + 1)
    <2>1. n * (k + 1) = n * k + n /\ k + 1 \in Nat
      BY <1>0
    <2>2. n * (k + 1) <= (i + 1) * h
      BY <1>0, <1>2, <1>3, <1>4, <2>1
    <2> QED
      BY <1>0, <1>1, <1>4, <2>1, <2>2, DivAtLeast
  <1>8. Cut(i + 1) \in Nat
    BY <1>0, <1>1, <1>4, DivBounds
  <1>9. Cut(i) \in Nat
    BY <1>0, <1>1, <1>4, DivBounds
  <1>10. i \in 0 .. n - 1 /\ k < Cut(i + 1)
    BY <1>0, <1>3, <1>5, <1>7, <1>8
  <1> QED
    BY <1>6, <1>10 DEF n

(* multiThreadFunction cuts the window exactly: the slices follow one      *)
(* another from the first row to the last one, and each row is in one.     *)
THEOREM SlicesPartition ==
  ASSUME WindowOK
  PROVE  /\ \A i \in Threads : /\ Low(i) \in Int /\ High(i) \in Int
                               /\ window.y1 <= Low(i) /\ Low(i) <= High(i)
                               /\ High(i) <= window.y2
         /\ \A i, j \in Threads : i < j => High(i) <= Low(j)
         /\ \A r \in Rows : \E i \in Threads : r \in Low(i) .. High(i) - 1
  <1>0. /\ window.y1 \in Int /\ Height \in Nat /\ window.y2 = window.y1 + Height
        /\ nThreads \in Nat \ {0} /\ window.y2 \in Int
    BY WindowTyped DEF WindowOK
  <1>1. \A i \in Threads : /\ Cut(i) \in Nat /\ Cut(i + 1) \in Nat
                           /\ Cut(i) <= Cut(i + 1) /\ Cut(i + 1) <= Height
    BY <1>0, CutBounds DEF Threads
  <1>2. \A i \in Threads : Low(i) = window.y1 + Cut(i) /\ High(i) = window.y1 + Cut(i + 1)
    <2> TAKE i \in Threads
    <2>1. Least(Cut(i + 1), Height) = Cut(i + 1)
      BY <1>0, <1>1 DEF Least
    <2> QED
      BY <2>1 DEF Low, High, Height
  <1>3. ASSUME NEW i \in Threads, NEW j \in Threads, i < j PROVE High(i) <= Low(j)
    <2>1. Cut(i + 1) <= Cut(j)
      BY <1>0, <1>3, CutBounds DEF Threads
    <2> QED
      BY <1>0, <1>1, <1>2, <2>1
  <1>4. ASSUME NEW r \in Rows PROVE \E i \in Threads : r \in Low(i) .. High(i) - 1
    <2>1. r - window.y1 \in 0 .. Height - 1 /\ r \in Int
      BY <1>0 DEF Rows
    <2>2. PICK i \in Threads : Cut(i) <= r - window.y1 /\ r - window.y1 < Cut(i + 1)
      BY <2>1, CutCovers DEF Threads
    <2>3. Low(i) <= r /\ r < High(i) /\ Low(i) \in Int /\ High(i) \in Int
      BY <1>0, <1>1, <1>2, <2>1, <2>2
    <2> QED
      BY <2>1, <2>3
  <1>5. ASSUME NEW i \in Threads
        PROVE  /\ Low(i) \in Int /\ High(i) \in Int
               /\ window.y1 <= Low(i) /\ Low(i) <= High(i) /\ High(i) <= window.y2
    BY <1>0, <1>1, <1>2
  <1> QED
    BY <1>3, <1>4, <1>5

-----------------------------------------------------------------------------
(* The rows written.                                                       *)

(* A thread that was created has written the rows of its slice up to the   *)
(* one it is at, and no other; who is joined is over, at its slice's end.  *)
SliceInv ==
  /\ pc = "setup" => nThreads = 0 /\ writers = {} /\ created = 0
  /\ pc \in {"create", "join"} => nThreads > 0
  /\ pc = "create" => created < nThreads
  /\ pc = "join" => created = nThreads
  /\ \A p \in writers : p[1] < created
  /\ \A i \in Threads : i >= created => at[i] = "none"
  /\ \A i \in Threads :
       i < created => /\ next[i] \in Low(i) .. High(i)
                      /\ \A r \in Int : <<i, r>> \in writers <=> r \in Low(i) .. next[i] - 1
                      /\ at[i] = "over" => next[i] = High(i)
  /\ pc \in {"joined", "done"} => \A i \in Threads : i < created /\ at[i] = "over"

RowInv == TypeOK /\ SliceInv

LEMMA RowInit == Init => RowInv
  BY ProcessorAssumption DEF Init, RowInv, TypeOK, SliceInv, Threads, Places, None, Rows

LEMMA RowTaken ==
  ASSUME RowInv, NEW i \in Threads, WriteRow(i)
  PROVE  /\ next[i] \in Rows /\ next[i] \in Int
         /\ <<i, next[i]>> \notin writers
         /\ nThreads > 0 /\ i < created
  <1>1. WindowOK /\ pc \in {"create", "join"} /\ i < created /\ nThreads > 0
    BY DEF RowInv, TypeOK, SliceInv, WriteRow, Running, WindowOK
  <1>2. /\ window.y1 \in Int /\ window.y2 \in Int /\ Low(i) \in Int /\ High(i) \in Int
        /\ window.y1 <= Low(i) /\ High(i) <= window.y2
    BY <1>1, WindowTyped, SlicesPartition
  <1>3. next[i] \in Int /\ next[i] < High(i) /\ Low(i) <= next[i]
    BY <1>1, <1>2 DEF RowInv, TypeOK, SliceInv, WriteRow
  <1>4. <<i, next[i]>> \notin writers
    BY <1>1, <1>2, <1>3 DEF RowInv, SliceInv
  <1> QED
    BY <1>1, <1>2, <1>3, <1>4 DEF Rows

LEMMA RowStep == RowInv /\ [Next]_vars => RowInv'
  <1> SUFFICES ASSUME RowInv, [Next]_vars PROVE RowInv'
    OBVIOUS
  <1> USE DEF RowInv
  <1>1. CASE SetupFails \/ CreateFails
    BY <1>1 DEF SetupFails, CreateFails, TypeOK, SliceInv, Threads, Rows, Low, High, Cut,
                inputVars, threadVars, progressVars
  <1>2. CASE Process
    <2>1. nThreads' \in Nat /\ (nThreads' = 0 \/ nThreads' > 0)
      BY <1>2, ProcessorAssumption DEF Process, TypeOK, inputVars
    <2>2. writers = {} /\ created = 0 /\ nThreads = 0
      BY <1>2 DEF Process, SliceInv
    <2>3. window.y1 \in Int
      BY ProcessorAssumption DEF TypeOK
    <2>4. TypeOK'
      BY <1>2, <2>1, <2>2, <2>3 DEF Process, TypeOK, Threads, Rows, Places, None, inputVars
    <2>5. SliceInv'
      BY <1>2, <2>1, <2>2 DEF Process, SliceInv, Threads, inputVars
    <2> QED
      BY <2>4, <2>5
  <1>3. CASE Create
    <2>1. /\ WindowOK /\ created \in Threads /\ created < nThreads
          /\ created \in Nat /\ nThreads \in Nat
      BY <1>3 DEF Create, TypeOK, SliceInv, WindowOK, Threads
    <2>2. Low(created) \in Int /\ High(created) \in Int /\ Low(created) <= High(created)
      BY <2>1, SlicesPartition
    <2>3. TypeOK'
      BY <1>3, <2>1, <2>2
      DEF Create, TypeOK, Threads, Rows, Places, inputVars, progressVars
    <2>4. ASSUME NEW i \in Threads, i < created + 1
          PROVE  /\ next'[i] \in Low(i) .. High(i)
                 /\ \A r \in Int : <<i, r>> \in writers <=> r \in Low(i) .. next'[i] - 1
                 /\ at'[i] = "over" => next'[i] = High(i)
      <3>1. CASE i = created
        BY <1>3, <2>1, <2>2, <3>1 DEF Create, TypeOK, SliceInv
      <3>2. CASE i # created
        BY <1>3, <2>1, <2>4, <3>2 DEF Create, TypeOK, SliceInv, Threads
      <3> QED
        BY <3>1, <3>2
    <2>5. Threads' = Threads /\ \A i \in Threads : Low(i)' = Low(i) /\ High(i)' = High(i)
      BY <1>3 DEF Create, Threads, Low, High, Cut, inputVars
    <2>6. created' = created + 1 /\ writers' = writers /\ nThreads' = nThreads
          /\ pc' = IF created + 1 = nThreads THEN "join" ELSE "create"
      BY <1>3 DEF Create
    <2>7. \A p \in writers : p[1] < created + 1
      BY <2>1 DEF TypeOK, SliceInv, Threads
    <2>8. \A i \in Threads : i >= created + 1 => at'[i] = "none"
      BY <1>3, <2>1 DEF Create, TypeOK, SliceInv, Threads
    <2>9. SliceInv'
      BY <2>1, <2>4, <2>5, <2>6, <2>7, <2>8 DEF SliceInv
    <2> QED
      BY <2>3, <2>9
  <1>4. CASE Join
    BY <1>4 DEF Join, TypeOK, SliceInv, Threads, Rows, Low, High, Cut,
                inputVars, threadVars, progressVars
  <1>5. CASE PostProcess
    BY <1>5 DEF PostProcess, TypeOK, SliceInv, Threads, Rows, Low, High, Cut,
                inputVars, threadVars, progressVars
  <1>6. ASSUME NEW i \in Threads, WriteRow(i) PROVE RowInv'
    <2>1. /\ next[i] \in Rows /\ next[i] \in Int /\ i < created /\ nThreads > 0
          /\ <<i, next[i]>> \notin writers
      BY <1>6, RowTaken
    <2>2. WindowOK
      BY <2>1 DEF TypeOK, WindowOK
    <2>3. TypeOK'
      BY <1>6, <2>1 DEF WriteRow, Move, TypeOK, Threads, Rows, Places, inputVars, progressVars
    <2>4. Threads' = Threads /\ \A j \in Threads : Low(j)' = Low(j) /\ High(j)' = High(j)
      BY <1>6 DEF WriteRow, Threads, Low, High, Cut, inputVars
    <2>5. ASSUME NEW j \in Threads, j < created
          PROVE  /\ next'[j] \in Low(j) .. High(j)
                 /\ \A r \in Int : <<j, r>> \in writers' <=> r \in Low(j) .. next'[j] - 1
                 /\ at'[j] = "over" => next'[j] = High(j)
      <3>1. Low(j) \in Int /\ High(j) \in Int /\ next[j] \in Low(j) .. High(j)
        BY <2>2, <2>5, SlicesPartition DEF SliceInv
      <3>2. CASE j = i
        <4>1. next'[j] = next[i] + 1 /\ at'[j] = "forward" /\ next[i] < High(i)
          BY <1>6, <3>2 DEF WriteRow, Move, TypeOK
        <4>2. \A r \in Int : <<j, r>> \in writers' <=> <<j, r>> \in writers \/ r = next[i]
          BY <1>6, <3>2 DEF WriteRow
        <4>3. \A r \in Int : <<j, r>> \in writers <=> r \in Low(j) .. next[j] - 1
          BY <2>5 DEF SliceInv
        <4> QED
          BY <2>1, <3>1, <3>2, <4>1, <4>2, <4>3
      <3>3. CASE j # i
        <4>1. next'[j] = next[j] /\ at'[j] = at[j]
          BY <1>6, <3>3 DEF WriteRow, Move, TypeOK
        <4>2. \A r \in Int : <<j, r>> \in writers' <=> <<j, r>> \in writers
          BY <1>6, <3>3 DEF WriteRow
        <4> QED
          BY <2>5, <4>1, <4>2 DEF SliceInv
      <3> QED
        BY <3>2, <3>3
    <2>6. \A p \in writers' : p[1] < created
      BY <1>6, <2>1 DEF WriteRow, SliceInv
    <2>7. pc \in {"create", "join"} /\ pc' = pc /\ created' = created /\ nThreads' = nThreads
      BY <1>6 DEF WriteRow, Running
    <2>8. \A j \in Threads : j >= created => at'[j] = "none"
      BY <1>6, <2>1 DEF WriteRow, Move, TypeOK, SliceInv, Threads
    <2>9. SliceInv'
      BY <2>4, <2>5, <2>6, <2>7, <2>8 DEF SliceInv
    <2> QED
      BY <2>3, <2>9
  <1>7. ASSUME NEW i \in Threads, RowThrows(i) PROVE RowInv'
    BY <1>7 DEF RowThrows, Running, TypeOK, SliceInv, Threads, Rows, Low, High, Cut,
                inputVars, threadVars, progressVars
  <1>8. ASSUME NEW i \in Threads, NEW where \in Places, Move(i, where), where # "over",
               pc \in {"create", "join"}, i < created,
               UNCHANGED <<inputVars, pc, nThreads, created, next, writers>>,
               holder' \in Threads \cup {None}, seen' \in Nat, counter' \in Nat, told' \in Nat
        PROVE  RowInv'
    <2>1. TypeOK'
      BY <1>8 DEF Move, TypeOK, Threads, Rows, inputVars
    <2>2. Threads' = Threads /\ \A j \in Threads : Low(j)' = Low(j) /\ High(j)' = High(j)
      BY <1>8 DEF Threads, Low, High, Cut, inputVars
    <2>3. \A j \in Threads : at'[j] = at[j] \/ at'[j] # "over"
      BY <1>8 DEF Move, TypeOK
    <2>4. \A j \in Threads : j >= created => at'[j] = "none"
      BY <1>8 DEF Move, TypeOK, SliceInv, Threads
    <2>5. SliceInv'
      BY <1>8, <2>2, <2>3, <2>4 DEF SliceInv
    <2> QED
      BY <2>1, <2>5
  <1>9. ASSUME NEW i \in Threads, EndSlice(i) PROVE RowInv'
    <2>0. pc \in {"create", "join"} /\ i < created /\ next[i] >= High(i)
      BY <1>9 DEF EndSlice, Running
    <2>1. WindowOK /\ High(i) \in Int /\ next[i] \in Low(i) .. High(i) /\ Low(i) \in Int
      <3>1. WindowOK
        BY <2>0 DEF TypeOK, SliceInv, WindowOK
      <3> QED
        BY <2>0, <3>1, SlicesPartition DEF SliceInv
    <2>2. next[i] = High(i)
      BY <2>0, <2>1
    <2>3. TypeOK'
      BY <1>9 DEF EndSlice, Move, TypeOK, Threads, Rows, Places, inputVars, progressVars
    <2>4. Threads' = Threads /\ \A j \in Threads : Low(j)' = Low(j) /\ High(j)' = High(j)
      BY <1>9 DEF EndSlice, Threads, Low, High, Cut, inputVars
    <2>5. \A j \in Threads : j # i => at'[j] = at[j]
      BY <1>9 DEF EndSlice, Move, TypeOK
    <2>6. UNCHANGED <<pc, nThreads, created, next, writers>>
      BY <1>9 DEF EndSlice
    <2>7. \A j \in Threads : j >= created => at'[j] = "none"
      BY <2>0, <2>5 DEF TypeOK, SliceInv, Threads
    <2>8. SliceInv'
      BY <2>0, <2>2, <2>4, <2>5, <2>6, <2>7 DEF SliceInv
    <2> QED
      BY <2>3, <2>8
  <1>10. ASSUME NEW i \in Threads, Lock(i) PROVE RowInv'
    BY <1>8, <1>10 DEF Lock, Running, Places, TypeOK
  <1>11. ASSUME NEW i \in Threads, Add(i) PROVE RowInv'
    <2>1. window.dx \in Nat
      BY ProcessorAssumption DEF TypeOK
    <2>2. counter' \in Nat
      BY <1>11, <2>1 DEF Add, TypeOK
    <2> QED
      BY <1>8, <1>11, <2>2 DEF Add, Running, Places, TypeOK
  <1>12. ASSUME NEW i \in Threads, Tell(i) PROVE RowInv'
    BY <1>8, <1>12 DEF Tell, Running, Places, TypeOK, HostStops
  <1>13. CASE UNCHANGED vars
    BY <1>13 DEF vars, TypeOK, SliceInv, Threads, Rows, Low, High, Cut,
                 inputVars, threadVars, progressVars
  <1> QED
    BY <1>1, <1>2, <1>3, <1>4, <1>5, <1>6, <1>7, <1>9, <1>10, <1>11, <1>12, <1>13 DEF Next, Slice

LEMMA RowInvImplies == RowInv => RowsWrittenOnce
  <1> SUFFICES ASSUME RowInv PROVE RowsWrittenOnce
    OBVIOUS
  <1>1. writers \subseteq Threads \X Rows
    BY DEF RowInv, TypeOK
  <1>2. ASSUME NEW p \in writers, NEW q \in writers, p[2] = q[2] PROVE p = q
    <2>1. /\ p = <<p[1], p[2]>> /\ q = <<q[1], q[2]>>
          /\ p[1] \in Threads /\ q[1] \in Threads /\ p[2] \in Rows
      BY <1>1
    <2>2. WindowOK
      BY <2>1 DEF Threads, RowInv, TypeOK, WindowOK
    <2>3. p[2] \in Int /\ \A i \in Threads : Low(i) \in Int /\ High(i) \in Int
      BY <2>1, <2>2, SlicesPartition, WindowTyped DEF Rows
    <2>4. ASSUME NEW s \in writers, s = <<s[1], s[2]>>, s[1] \in Threads, s[2] = p[2]
          PROVE  Low(s[1]) <= p[2] /\ p[2] < High(s[1])
      <3>1. s[1] < created /\ next[s[1]] \in Low(s[1]) .. High(s[1])
        BY <2>4 DEF RowInv, SliceInv
      <3>2. s[2] \in Low(s[1]) .. next[s[1]] - 1
        BY <2>3, <2>4, <3>1 DEF RowInv, SliceInv
      <3> QED
        BY <2>3, <2>4, <3>1, <3>2
    <2>5. /\ Low(p[1]) <= p[2] /\ p[2] < High(p[1])
          /\ Low(q[1]) <= p[2] /\ p[2] < High(q[1])
      BY <1>2, <2>1, <2>4
    <2>6. ~ (p[1] < q[1]) /\ ~ (q[1] < p[1])
      BY <2>1, <2>2, <2>3, <2>5, SlicesPartition
    <2>7. p[1] = q[1]
      BY <2>1, <2>6 DEF Threads
    <2> QED
      BY <1>2, <2>1, <2>7
  <1>3. ASSUME pc \in {"joined", "done"}, nThreads > 0 PROVE {p[2] : p \in writers} = Rows
    <2>1. WindowOK
      BY <1>3 DEF RowInv, TypeOK, WindowOK
    <2>2. ASSUME NEW r \in Rows PROVE \E p \in writers : p[2] = r
      <3>1. PICK i \in Threads : r \in Low(i) .. High(i) - 1
        BY <2>1, SlicesPartition
      <3>2. i < created /\ next[i] = High(i)
        BY <1>3 DEF RowInv, SliceInv
      <3>3. <<i, r>> \in writers
        BY <2>1, <3>1, <3>2, SlicesPartition DEF RowInv, SliceInv
      <3> QED
        BY <3>3
    <2> QED
      BY <1>1, <2>2
  <1> QED
    BY <1>2, <1>3 DEF RowsWrittenOnce

(* The variables keep their types, for every window and number of threads. *)
THEOREM ProcessorTyped == Spec => []TypeOK
  <1>1. RowInv => TypeOK
    BY DEF RowInv
  <1> QED
    BY <1>1, RowInit, RowStep, PTL DEF Spec

(* Each row of the window is written by one thread, and all of them when   *)
(* the threads are joined: the slices of multiThreadFunction, the creation *)
(* of the threads one by one and join_all of the host's suite together.    *)
THEOREM RowsOnce == Spec => []RowsWrittenOnce
  BY RowInit, RowStep, RowInvImplies, PTL DEF Spec

-----------------------------------------------------------------------------
(* The progress counter.                                                   *)

(* The thread that has the mutex is the only one inside progressForward;   *)
(* what it has read is still the counter, until it adds to it.             *)
MutexInv ==
  /\ \A i \in Threads : at[i] \in {"add", "tell"} => holder = i
  /\ \A i \in Threads : at[i] = "add" => seen = counter
  /\ holder \in Threads => at[holder] \in {"add", "tell"}
  /\ \/ told = counter
     \/ holder \in Threads /\ at[holder] = "tell"
  /\ IsFiniteSet(writers)
  /\ counter = window.dx * (Cardinality(writers) - Cardinality(Uncounted))

ProgressInv == RowInv /\ MutexInv

LEMMA UncountedFinite ==
  ASSUME TypeOK
  PROVE  IsFiniteSet(Uncounted) /\ Cardinality(Uncounted) \in Nat
  <1>1. IsFiniteSet(Threads)
    BY FS_Interval DEF TypeOK, Threads
  <1> QED
    BY <1>1, FS_Subset, FS_CardinalityType DEF Uncounted

LEMMA ProgressInit == Init => ProgressInv
  <1> SUFFICES ASSUME Init PROVE MutexInv
    BY RowInit DEF ProgressInv
  <1>1. Threads = {} /\ writers = {} /\ Uncounted = {}
    BY DEF Init, Threads, Uncounted
  <1>2. IsFiniteSet({}) /\ Cardinality({}) = 0
    BY FS_EmptySet
  <1>3. window.dx \in Nat
    BY ProcessorAssumption DEF Init
  <1> QED
    BY <1>1, <1>2, <1>3 DEF Init, MutexInv

(* A step that keeps who is where keeps what is counted. *)
LEMMA ProgressKept ==
  ASSUME ProgressInv, nThreads' = nThreads,
         UNCHANGED <<window, writers, progressVars>>,
         at' \in [Threads -> Places],
         \A i \in Threads : at'[i] = at[i] \/ {at[i], at'[i]} \subseteq {"none", "row", "over"}
  PROVE  MutexInv'
  <1>1. Threads' = Threads /\ UNCHANGED <<window, writers, holder, seen, counter, told>>
    BY DEF Threads, progressVars
  <1>2. \A i \in Threads : \A where \in {"forward", "add", "tell"} : at'[i] = where <=> at[i] = where
    OBVIOUS
  <1>3. Uncounted' = Uncounted
    BY <1>1, <1>2 DEF Uncounted
  <1> QED
    BY <1>1, <1>2, <1>3 DEF ProgressInv, MutexInv

LEMMA ProgressStep == ProgressInv /\ [Next]_vars => ProgressInv'
  <1> SUFFICES ASSUME ProgressInv, [Next]_vars PROVE MutexInv'
    BY RowStep DEF ProgressInv
  <1>0. TypeOK /\ TypeOK' /\ RowInv
    BY RowStep DEF ProgressInv, RowInv
  <1>a. window.dx \in Nat /\ counter \in Nat /\ IsFiniteSet(writers) /\ Cardinality(writers) \in Nat
    BY <1>0, ProcessorAssumption, FS_CardinalityType DEF TypeOK, ProgressInv, MutexInv
  <1>b. IsFiniteSet(Uncounted) /\ Cardinality(Uncounted) \in Nat
    BY <1>0, UncountedFinite
  <1>1. CASE SetupFails \/ CreateFails
    BY <1>0, <1>1, ProgressKept DEF SetupFails, CreateFails, TypeOK, inputVars, threadVars
  <1>2. CASE Process
    <2>1. writers' = {} /\ nThreads = 0 /\ UNCHANGED <<window, holder, told, seen>>
          /\ counter' = 0 /\ Threads' = 0 .. nThreads' - 1
      BY <1>0, <1>2 DEF Process, RowInv, SliceInv, inputVars, Threads
    <2>2. \A i \in Threads' : at'[i] = "none"
      BY <1>2, <2>1 DEF Process
    <2>3. Uncounted' = {}
      BY <2>2 DEF Uncounted
    <2>4. holder' = None /\ Threads = {}
      BY <1>0, <2>1 DEF TypeOK, Threads
    <2>5. Cardinality({}) = 0 /\ IsFiniteSet({})
      BY FS_EmptySet
    <2>6. writers = {} /\ Uncounted = {}
      BY <1>2, <2>1, <2>4 DEF Process, Uncounted
    <2>7. counter = 0
      BY <1>a, <2>5, <2>6 DEF ProgressInv, MutexInv
    <2>8. told = 0
      BY <2>4, <2>7 DEF ProgressInv, MutexInv
    <2>9. holder' \notin Threads'
      BY <1>0, <2>1, <2>4 DEF TypeOK, None
    <2> QED
      BY <1>a, <2>1, <2>2, <2>3, <2>5, <2>8, <2>9 DEF MutexInv
  <1>3. CASE Create
    <2>1. created \in Threads /\ at[created] = "none" /\ at' = [at EXCEPT ![created] = "row"]
      BY <1>0, <1>3 DEF Create, TypeOK, RowInv, SliceInv, Threads
    <2>2. at'[created] = "row" /\ \A i \in Threads : i # created => at'[i] = at[i]
      BY <1>0, <2>1 DEF TypeOK
    <2>4. \A i \in Threads : at'[i] = at[i] \/ {at[i], at'[i]} \subseteq {"none", "row", "over"}
      BY <2>1, <2>2
    <2>3. at' \in [Threads -> Places]
      BY <1>0, <2>1 DEF TypeOK, Places
    <2> QED
      BY <1>3, <2>3, <2>4, ProgressKept DEF Create, inputVars
  <1>4. CASE Join
    BY <1>0, <1>4, ProgressKept DEF Join, TypeOK, inputVars, threadVars
  <1>5. CASE PostProcess
    BY <1>0, <1>5, ProgressKept DEF PostProcess, TypeOK, inputVars, threadVars
  <1>6. ASSUME NEW i \in Threads, WriteRow(i) PROVE MutexInv'
    <2>1. /\ Threads' = Threads /\ UNCHANGED <<window, nThreads, holder, seen, counter, told>>
          /\ at[i] = "row" /\ at' = [at EXCEPT ![i] = "forward"]
          /\ writers' = writers \cup {<<i, next[i]>>}
      BY <1>6 DEF WriteRow, Move, Running, Threads, inputVars, progressVars
    <2>2. <<i, next[i]>> \notin writers
      BY <1>0, <1>6, RowTaken
    <2>3. IsFiniteSet(writers') /\ Cardinality(writers') = Cardinality(writers) + 1
      BY <1>a, <2>1, <2>2, FS_AddElement
    <2>4. Uncounted' = Uncounted \cup {i} /\ i \notin Uncounted
      BY <1>0, <2>1 DEF TypeOK, Uncounted
    <2>5. Cardinality(Uncounted') = Cardinality(Uncounted) + 1
      BY <1>b, <2>4, FS_AddElement
    <2>6. counter' = window'.dx * (Cardinality(writers') - Cardinality(Uncounted'))
      <3>1. counter = window.dx * (Cardinality(writers) - Cardinality(Uncounted))
        BY DEF ProgressInv, MutexInv
      <3>2. Cardinality(writers') - Cardinality(Uncounted') = Cardinality(writers) - Cardinality(Uncounted)
        BY <1>a, <1>b, <2>3, <2>5
      <3> QED
        BY <2>1, <3>1, <3>2
    <2>7. \A j \in Threads : \A where \in {"add", "tell"} : at'[j] = where <=> at[j] = where
      BY <1>0, <2>1 DEF TypeOK
    <2> QED
      BY <2>1, <2>3, <2>6, <2>7 DEF ProgressInv, MutexInv
  <1>7. ASSUME NEW i \in Threads, RowThrows(i) PROVE MutexInv'
    BY <1>0, <1>7, ProgressKept DEF RowThrows, TypeOK, inputVars, threadVars
  <1>8. ASSUME NEW i \in Threads, EndSlice(i) PROVE MutexInv'
    <2>1. at'[i] = "over" /\ at[i] = "row" /\ \A j \in Threads : j # i => at'[j] = at[j]
      BY <1>0, <1>8 DEF EndSlice, Running, Move, TypeOK
    <2>2. at' \in [Threads -> Places] /\ nThreads' = nThreads
          /\ UNCHANGED <<window, writers, progressVars>>
      BY <1>0, <1>8 DEF EndSlice, Move, TypeOK, Places, inputVars
    <2> QED
      BY <2>1, <2>2, ProgressKept
  <1>9. ASSUME NEW i \in Threads, Lock(i) PROVE MutexInv'
    <2>1. /\ Threads' = Threads /\ UNCHANGED <<window, writers, counter, told>>
          /\ at[i] = "forward" /\ at' = [at EXCEPT ![i] = "add"]
          /\ holder = None /\ holder' = i /\ seen' = counter
      BY <1>9 DEF Lock, Move, Running, Threads, inputVars
    <2>2. at'[i] = "add" /\ \A j \in Threads : j # i => at'[j] = at[j]
      BY <1>0, <2>1 DEF TypeOK
    <2>3. Uncounted' = Uncounted
      BY <2>1, <2>2 DEF Uncounted
    <2>4. None \notin Threads
      BY <1>0 DEF TypeOK, Threads, None
    <2>5. told = counter /\ \A j \in Threads : at[j] \notin {"add", "tell"}
      BY <2>1, <2>4 DEF ProgressInv, MutexInv
    <2> QED
      BY <2>1, <2>2, <2>3, <2>5 DEF ProgressInv, MutexInv
  <1>10. ASSUME NEW i \in Threads, Add(i) PROVE MutexInv'
    <2>1. /\ Threads' = Threads /\ UNCHANGED <<window, writers, holder, seen, told>>
          /\ at[i] = "add" /\ at' = [at EXCEPT ![i] = "tell"]
          /\ counter' = seen + window.dx
      BY <1>10 DEF Add, Move, Running, Threads, inputVars
    <2>2. at'[i] = "tell" /\ \A j \in Threads : j # i => at'[j] = at[j]
      BY <1>0, <2>1 DEF TypeOK
    <2>3. holder = i /\ seen = counter
      BY <2>1 DEF ProgressInv, MutexInv
    <2>4. \A j \in Threads : j # i => at[j] \notin {"add", "tell"}
      BY <2>3 DEF ProgressInv, MutexInv
    <2>5. Uncounted' = Uncounted \ {i} /\ i \in Uncounted
      BY <2>1, <2>2 DEF Uncounted
    <2>6. Cardinality(Uncounted') = Cardinality(Uncounted) - 1
      BY <1>b, <2>5, FS_RemoveElement
    <2>7. counter' = window.dx * (Cardinality(writers) - Cardinality(Uncounted'))
      <3>1. counter = window.dx * (Cardinality(writers) - Cardinality(Uncounted))
        BY DEF ProgressInv, MutexInv
      <3>2. Cardinality(writers) - Cardinality(Uncounted') = (Cardinality(writers) - Cardinality(Uncounted)) + 1
        BY <1>a, <1>b, <2>6
      <3>3. \A d \in Nat, k \in Int : d * (k + 1) = d * k + d
        OBVIOUS
      <3>4. Cardinality(writers) - Cardinality(Uncounted) \in Int
        BY <1>a, <1>b
      <3> QED
        BY <1>a, <2>1, <2>3, <3>1, <3>2, <3>3, <3>4
    <2> QED
      BY <2>1, <2>2, <2>3, <2>4, <2>7 DEF ProgressInv, MutexInv
  <1>11. ASSUME NEW i \in Threads, Tell(i) PROVE MutexInv'
    <2>1. /\ Threads' = Threads /\ UNCHANGED <<window, writers, counter, seen>>
          /\ at[i] = "tell" /\ at' = [at EXCEPT ![i] = "row"]
          /\ told' = counter /\ holder' = None
      BY <1>11 DEF Tell, Move, Running, Threads, inputVars, HostStops
    <2>2. at'[i] = "row" /\ \A j \in Threads : j # i => at'[j] = at[j]
      BY <1>0, <2>1 DEF TypeOK
    <2>3. Uncounted' = Uncounted
      BY <2>1, <2>2 DEF Uncounted
    <2>4. None \notin Threads
      BY <1>0 DEF TypeOK, Threads, None
    <2>5. \A j \in Threads : at'[j] \notin {"add", "tell"}
      BY <2>1, <2>2 DEF ProgressInv, MutexInv
    <2> QED
      BY <2>1, <2>3, <2>4, <2>5 DEF ProgressInv, MutexInv
  <1>12. CASE UNCHANGED vars
    BY <1>0, <1>12, ProgressKept DEF vars, TypeOK, inputVars, threadVars
  <1> QED
    BY <1>1, <1>2, <1>3, <1>4, <1>5, <1>6, <1>7, <1>8, <1>9, <1>10, <1>11, <1>12 DEF Next, Slice

LEMMA ProgressInvImplies == ProgressInv => ProgressExact
  <1> SUFFICES ASSUME ProgressInv PROVE ProgressExact
    OBVIOUS
  <1>0. TypeOK /\ SliceInv /\ MutexInv /\ RowsWrittenOnce /\ None \notin Threads
    BY RowInvImplies DEF ProgressInv, RowInv, TypeOK, Threads, None
  <1>1. ASSUME pc \in {"joined", "done"}, nThreads > 0
        PROVE  told = window.dx * Cardinality(Rows)
    <2>1. \A i \in Threads : at[i] = "over"
      BY <1>0, <1>1 DEF SliceInv
    <2>2. Uncounted = {} /\ told = counter
      BY <1>0, <2>1 DEF Uncounted, MutexInv
    <2>3. counter = window.dx * Cardinality(writers)
      <3>1. Cardinality({}) = 0 /\ Cardinality(writers) \in Nat
        BY <1>0, FS_EmptySet, FS_CardinalityType DEF MutexInv
      <3>2. Cardinality(writers) - Cardinality(Uncounted) = Cardinality(writers)
        BY <2>2, <3>1
      <3> QED
        BY <1>0, <3>2 DEF MutexInv
    <2>4. Cardinality(Rows) = Cardinality(writers)
      <3> DEFINE f == [p \in writers |-> p[2]]
      <3>1. {p[2] : p \in writers} = Rows /\ \A p, q \in writers : p[2] = q[2] => p = q
        BY <1>0, <1>1 DEF RowsWrittenOnce
      <3>2. f \in Bijection(writers, Rows)
        BY <3>1 DEF Bijection, Injection, Surjection, IsInjective
      <3> QED
        BY <1>0, <3>2, FS_Bijection DEF MutexInv, ExistsBijection
    <2> QED
      BY <2>2, <2>3, <2>4
  <1>2. holder = None => told = counter
    BY <1>0 DEF MutexInv
  <1> QED
    BY <1>0, <1>1, <1>2 DEF ProgressExact, MutexInv

(* No step of a thread is lost: the mutex of OfxProgress is enough, and    *)
(* the host is told the whole window when the threads are joined.          *)
THEOREM ProgressKeptExact == Spec => []ProgressExact
  BY ProgressInit, ProgressStep, ProgressInvImplies, PTL DEF Spec

=============================================================================
