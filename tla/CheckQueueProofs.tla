-------------------------- MODULE CheckQueueProofs --------------------------
(***************************************************************************)
(* Proofs about CheckQueue, for any set of worker threads, any batch size  *)
(* and any number of checks in a round: the queue is idle between two      *)
(* rounds, Wait() returns the conjunction of the checks, and no check is   *)
(* held twice.                                                             *)
(***************************************************************************)
EXTENDS CheckQueue, FiniteSetTheorems, SequenceTheorems, TLAPS

-----------------------------------------------------------------------------
(* The inductive invariant.                                                *)

\* The threads that nIdle counts, and the ones that hold a batch.
IdlePCs == {"waiting", "woken", "dead"}
BusyPCs == {"work", "ran"}
Idle == {t \in Threads : pc[t] \in IdlePCs}
Inside == {t \in Threads : pc[t] \in IdlePCs \cup BusyPCs}

\* The checks of the round that are not finished, and those that are not once
\* thread t has finished its batch.
Outstanding == {c \in 1..nAdded : c \in Queued \/ \E t \in Threads : c \in InFlight(t)}
OutstandingBut(t) ==
    {c \in 1..nAdded : c \in Queued \/ \E u \in Threads \ {t} : c \in InFlight(u)}

Injective(s) == \A i, j \in DOMAIN s : i # j => s[i] # s[j]

\* Batches belong to the threads that work, and to the round.
Batches ==
    /\ Queued \subseteq 1..nAdded
    /\ bad \subseteq 1..nAdded
    /\ \A t \in Threads :
         /\ InFlight(t) \subseteq 1..nAdded
         /\ vChecks[t] = <<>> <=> pc[t] \notin BusyPCs
         /\ Injective(vChecks[t])

\* The three counters count what they stand for.
Counters ==
    /\ nIdle = Cardinality(Idle)
    /\ nTotal = Cardinality(Inside)
    /\ nTodo = Cardinality(Outstanding)

\* What the result so far says about the checks that are finished, out of the
\* ones in `pending' that are not.
Tells(allOk, pending) ==
    /\ ~allOk => bad # {}
    /\ \A c \in bad : c \in pending \/ ~allOk

\* Between rounds everything is done and the answer is right; in a round a
\* failing check is unfinished or has been recorded.
Round ==
    /\ pc[Master] = "out" => Outstanding = {} /\ fAllOk /\ (fRet <=> bad = {})
    /\ pc[Master] # "out" => Tells(fAllOk, Outstanding)

\* The result of a batch that has been executed includes its failing checks.
Results ==
    \A t \in Threads :
      /\ pc[t] \in BusyPCs /\ ~fOk[t] => bad # {}
      /\ pc[t] = "ran" /\ InFlight(t) \cap bad # {} => ~fOk[t]

Inv == TypeOK /\ Batches /\ EachCheckHeldOnce /\ Counters /\ Round /\ Results


-----------------------------------------------------------------------------
(* Facts about the operators.                                              *)

(* A thread takes at least one check and no more than the queue holds:     *)
(* the number Loop computes from the queue's size and the thread counts.   *)
LEMMA BatchBound ==
    ASSUME NEW size \in Nat \ {0}, NEW total \in Nat, NEW idle \in Nat
    PROVE  BatchSize(size, total, idle) \in 1..size
<1> DEFINE d == total + idle + 1
<1> DEFINE share == size \div d
<1>1. d \in Nat \ {0}
  OBVIOUS
<1>2. share \in Int /\ share <= size
  <2> HIDE DEF d
  <2> QED BY <1>1, SMTT(30)
<1>3. BatchSize(size, total, idle) =
        LET capped == IF share < nBatchSize THEN share ELSE nBatchSize
        IN  IF capped > 1 THEN capped ELSE 1
  BY Zenon DEF BatchSize
<1> HIDE DEF d, share
<1> QED BY <1>2, <1>3, CheckQueueAssumption, SMTT(30)

(* A batch without repetitions has as many checks as it is long, which is  *)
(* what the clean-up subtracts from nTodo.                                 *)
LEMMA RangeSize ==
    ASSUME NEW S, NEW s \in Seq(S), Injective(s)
    PROVE  /\ IsFiniteSet({s[i] : i \in DOMAIN s})
           /\ Cardinality({s[i] : i \in DOMAIN s}) = Len(s)
<1> DEFINE T == {s[i] : i \in DOMAIN s}
<1>1. Len(s) \in Nat /\ DOMAIN s = 1..Len(s)
  OBVIOUS
<1>2. s \in [1..Len(s) -> S]
  OBVIOUS
<1>3. s \in Bijection(1..Len(s), T)
  BY Zenon, <1>1, <1>2 DEF Injective, Bijection, Injection, Surjection, IsInjective
<1>4. ExistsBijection(1..Len(s), T)
  BY Zenon, <1>3 DEF ExistsBijection
<1>5. Cardinality(T) = Len(s)
  BY Zenon, <1>1, <1>4, FS_CountingElements
<1>6. IsFiniteSet(T)
  BY Zenon, <1>1, <1>4, FS_NatBijection
<1> QED BY Zenon, <1>5, <1>6

\* b and r are sequences over S that together hold what q holds, once each.
Splits(b, r, q, S) ==
    /\ b \in Seq(S) /\ r \in Seq(S)
    /\ b # <<>>
    /\ Injective(b) /\ Injective(r)
    /\ {b[i] : i \in DOMAIN b} \cap {r[i] : i \in DOMAIN r} = {}
    /\ {b[i] : i \in DOMAIN b} \cup {r[i] : i \in DOMAIN r} = {q[i] : i \in DOMAIN q}

(* pop_back of n checks splits the queue: every check is afterwards in the *)
(* batch or in the queue, none in both, and none twice.                    *)
LEMMA TakeSplits ==
    ASSUME NEW S, NEW q \in Seq(S), Injective(q), NEW n \in 1..Len(q)
    PROVE  Splits(PopBack(q, n), Rest(q, n), q, S)
<1> DEFINE L == Len(q)
           b == PopBack(q, n)
           r == Rest(q, n)
<1>1. L \in Nat /\ n \in Nat /\ n <= L /\ DOMAIN q = 1..L /\ n >= 1
  OBVIOUS
<1>2. \A i \in 1..n : L + 1 - i \in 1..L
  BY <1>1
<1>3. DOMAIN b = 1..n /\ \A i \in 1..n : b[i] = q[L + 1 - i]
  BY Zenon DEF PopBack
<1>4. b \in Seq(S) /\ Len(b) = n
  <2>1. b \in [1..n -> S]
    BY <1>1, <1>2 DEF PopBack
  <2> QED BY <2>1, <1>1
<1>5. r \in Seq(S) /\ DOMAIN r = 1..(L - n) /\ \A i \in 1..(L - n) : r[i] = q[i]
  BY <1>1 DEF Rest
<1> HIDE DEF L, b, r
<1>6. b # <<>>
  BY <1>1, <1>4
<1>7. Injective(b)
  BY <1>1, <1>2, <1>3 DEF Injective
<1>8. Injective(r)
  BY <1>1, <1>5 DEF Injective
<1>9. \A i \in 1..n, j \in 1..(L - n) : b[i] # r[j]
  <2> SUFFICES ASSUME NEW i \in 1..n, NEW j \in 1..(L - n) PROVE b[i] # r[j]
    BY Zenon
  <2>1. L + 1 - i # j /\ L + 1 - i \in 1..L /\ j \in 1..L
    BY <1>1
  <2> QED BY <2>1, <1>1, <1>3, <1>5 DEF Injective
<1>10. {b[i] : i \in DOMAIN b} \cap {r[i] : i \in DOMAIN r} = {}
  BY <1>3, <1>5, <1>9
<1>11. \A k \in 1..L : \/ k \in 1..(L - n)
                       \/ L + 1 - k \in 1..n /\ b[L + 1 - k] = q[k]
  <2> SUFFICES ASSUME NEW k \in 1..L, k \notin 1..(L - n)
               PROVE  L + 1 - k \in 1..n /\ b[L + 1 - k] = q[k]
    BY Zenon
  <2>1. L + 1 - k \in 1..n /\ L + 1 - (L + 1 - k) = k
    BY <1>1
  <2> QED BY Zenon, <2>1, <1>3
<1>12. {b[i] : i \in DOMAIN b} \cup {r[i] : i \in DOMAIN r} = {q[i] : i \in DOMAIN q}
  <2>1. ASSUME NEW x \in {q[i] : i \in DOMAIN q}
        PROVE  x \in {b[i] : i \in DOMAIN b} \cup {r[i] : i \in DOMAIN r}
    BY Zenon, <1>1, <1>3, <1>5, <1>11
  <2>2. ASSUME NEW x \in {b[i] : i \in DOMAIN b} PROVE x \in {q[i] : i \in DOMAIN q}
    BY Zenon, <1>1, <1>2, <1>3
  <2>3. ASSUME NEW x \in {r[i] : i \in DOMAIN r} PROVE x \in {q[i] : i \in DOMAIN q}
    BY <1>1, <1>5
  <2> QED BY ZenonT(30), <2>1, <2>2, <2>3
<1>13. Splits(b, r, q, S)
  BY <1>4, <1>5, <1>6, <1>7, <1>8, <1>10, <1>12, ZenonT(30) DEF Splits
<1> QED BY <1>13, ZenonT(30) DEF b, r


-----------------------------------------------------------------------------
(* The critical section of Loop.                                           *)

\* What the caller of Serve has established when `while (queue.empty())' is
\* reached: t holds no batch any more and is counted in total, not in idle.
Serving(t, idle, total, allOk, todo, p) ==
    /\ pc[t] \in {"entering", "woken", "ran"}
    /\ p \in [Threads -> PCs]
    /\ \A u \in Threads \ {t} : p[u] = pc[u] \/ (pc[u] = "waiting" /\ p[u] = "woken")
    /\ allOk \in BOOLEAN
    /\ idle = Cardinality(Idle \ {t})
    /\ total = Cardinality(Inside \cup {t})
    /\ todo = Cardinality(OutstandingBut(t))
    /\ pc[Master] = "out" => OutstandingBut(t) = {} /\ allOk
    /\ pc[Master] # "out" => Tells(allOk, OutstandingBut(t))

(* The sets that are counted are finite.                                   *)
LEMMA Finite ==
    ASSUME TypeOK
    PROVE  /\ IsFiniteSet(Threads) /\ IsFiniteSet(Idle) /\ IsFiniteSet(Inside)
           /\ IsFiniteSet(Outstanding)
           /\ \A t \in Threads : IsFiniteSet(OutstandingBut(t))
<1>1. IsFiniteSet(Threads)
  BY Zenon, CheckQueueAssumption, FS_AddElement DEF Threads
<1>2. Idle \in SUBSET Threads /\ Inside \in SUBSET Threads
  BY Zenon DEF Idle, Inside
<1>3. IsFiniteSet(1..nAdded)
  BY FS_Interval DEF TypeOK
<1>4. Outstanding \in SUBSET (1..nAdded)
  BY Zenon DEF Outstanding
<1>5. \A t \in Threads : OutstandingBut(t) \in SUBSET (1..nAdded)
  BY Zenon DEF OutstandingBut
<1> QED BY ZenonT(30), <1>1, <1>2, <1>3, <1>4, <1>5, FS_Subset

\* What Serve leaves behind when thread t goes to x and its batch becomes b.
Served(t, idle, total, todo, x, b) ==
    /\ pc' \in [Threads -> PCs] /\ pc'[t] = x
    /\ \A u \in Threads \ {t} :
         pc'[u] = pc[u] \/ (pc[u] = "waiting" /\ pc'[u] = "woken")
    /\ vChecks'[t] = b
    /\ \A u \in Threads \ {t} : vChecks'[u] = vChecks[u] /\ InFlight(u)' = InFlight(u)
    /\ InFlight(t)' = {b[i] : i \in DOMAIN b}
    /\ x \in IdlePCs => Cardinality(Idle') = idle + 1 /\ Cardinality(Inside') = total
    /\ x \in BusyPCs => Cardinality(Idle') = idle /\ Cardinality(Inside') = total
    /\ x = "out" => Cardinality(Idle') = idle /\ Cardinality(Inside') = total - 1
    /\ idle \in Nat /\ total \in Nat /\ total > 0 /\ todo \in Nat

(* What Serve does to the sets that the counters stand for, when thread t  *)
(* goes to x and its batch becomes b.                                      *)
LEMMA ServeCounts ==
    ASSUME Inv, NEW t \in Threads, NEW idle, NEW total, NEW allOk, NEW todo, NEW p,
           Serving(t, idle, total, allOk, todo, p),
           NEW x \in PCs, NEW b, pc' = [p EXCEPT ![t] = x],
           vChecks' = [vChecks EXCEPT ![t] = b], UNCHANGED nAdded
    PROVE  Served(t, idle, total, todo, x, b)
<1> USE DEF Inv
<1>1. p \in [Threads -> PCs]
  BY Zenon DEF Serving
<1>2. pc' \in [Threads -> PCs] /\ pc'[t] = x
  BY Zenon, <1>1
<1>3. \A u \in Threads \ {t} :
        pc'[u] = pc[u] \/ (pc[u] = "waiting" /\ pc'[u] = "woken")
  BY Zenon, <1>1 DEF Serving
<1>4. vChecks'[t] = b /\ \A u \in Threads \ {t} : vChecks'[u] = vChecks[u]
  BY Zenon DEF TypeOK
<1>5. /\ \A u \in Threads \ {t} : InFlight(u)' = InFlight(u)
      /\ InFlight(t)' = {b[i] : i \in DOMAIN b}
  BY <1>4, ZenonT(30) DEF InFlight
<1>6. x \in IdlePCs => Idle' = (Idle \ {t}) \cup {t} /\ Inside' = Inside \cup {t}
  BY Zenon, <1>2, <1>3 DEF Idle, Inside, IdlePCs, BusyPCs
<1>7. x \in BusyPCs => Idle' = Idle \ {t} /\ Inside' = Inside \cup {t}
  BY Zenon, <1>2, <1>3 DEF Idle, Inside, IdlePCs, BusyPCs
<1>8. x = "out" => Idle' = Idle \ {t} /\ Inside' = (Inside \cup {t}) \ {t}
  BY Zenon, <1>2, <1>3 DEF Idle, Inside, IdlePCs, BusyPCs
<1>9. /\ IsFiniteSet(Idle \ {t}) /\ IsFiniteSet(Inside \cup {t})
      /\ IsFiniteSet(OutstandingBut(t))
  BY Zenon, Finite, FS_AddElement, FS_RemoveElement
<1>10. idle = Cardinality(Idle \ {t}) /\ total = Cardinality(Inside \cup {t})
       /\ todo = Cardinality(OutstandingBut(t))
  BY Zenon DEF Serving
<1>11. idle \in Nat /\ total \in Nat /\ todo \in Nat
  BY Zenon, <1>9, <1>10, FS_CardinalityType
<1>12. total > 0
  <2>1. Inside \cup {t} # {}
    BY Zenon
  <2> QED BY <2>1, <1>9, <1>10, <1>11, FS_EmptySet
<1>13. Cardinality((Idle \ {t}) \cup {t}) = idle + 1
  <2>1. t \notin Idle \ {t}
    BY Zenon
  <2> QED BY ZenonT(30), <2>1, <1>9, <1>10, FS_AddElement
<1>14. Cardinality((Inside \cup {t}) \ {t}) = total - 1
  <2>1. t \in Inside \cup {t}
    BY Zenon
  <2> QED BY ZenonT(30), <2>1, <1>9, <1>10, FS_RemoveElement
<1>15. x \in IdlePCs => Cardinality(Idle') = idle + 1 /\ Cardinality(Inside') = total
  BY Zenon, <1>6, <1>10, <1>13
<1>16. x \in BusyPCs => Cardinality(Idle') = idle /\ Cardinality(Inside') = total
  BY Zenon, <1>7, <1>10
<1>17. x = "out" => Cardinality(Idle') = idle /\ Cardinality(Inside') = total - 1
  BY Zenon, <1>8, <1>10, <1>14
<1> QED BY Zenon, <1>2, <1>3, <1>4, <1>5, <1>11, <1>12, <1>15, <1>16, <1>17 DEF Served


(* The master leaves Loop: nothing is unfinished, so the queue is idle and *)
(* the result is the conjunction of all checks of the round.               *)
LEMMA LeaveStep ==
    ASSUME Inv, NEW t \in Threads, NEW idle, NEW total, NEW allOk, NEW todo, NEW p,
           Serving(t, idle, total, allOk, todo, p),
           queue = <<>>, MayLeave(t, todo), Leave(t, idle, total, allOk, p),
           nTodo' = todo, UNCHANGED round
    PROVE  Inv'
<1> USE DEF Inv
<1>1. t = Master /\ todo = 0 /\ pc[Master] # "out"
  BY Zenon DEF MayLeave, Serving
<1>2. OutstandingBut(t) = {}
  BY ZenonT(30), <1>1, Finite, FS_EmptySet DEF Serving
<1>3. /\ pc' = [p EXCEPT ![t] = "out"] /\ vChecks' = [vChecks EXCEPT ![t] = <<>>]
      /\ nTotal' = total - 1 /\ nIdle' = idle /\ fRet' = allOk /\ fAllOk' = TRUE
      /\ queue' = queue /\ fOk' = fOk /\ nAdded' = nAdded /\ bad' = bad
  BY Zenon DEF Leave, round
<1>4. /\ pc' \in [Threads -> PCs] /\ pc'[t] = "out"
      /\ \A u \in Threads \ {t} :
           pc'[u] = pc[u] \/ (pc[u] = "waiting" /\ pc'[u] = "woken")
      /\ vChecks'[t] = <<>>
      /\ \A u \in Threads \ {t} : vChecks'[u] = vChecks[u] /\ InFlight(u)' = InFlight(u)
      /\ Cardinality(Idle') = idle /\ Cardinality(Inside') = total - 1
      /\ idle \in Nat /\ total \in Nat /\ total > 0 /\ todo \in Nat
  <2>1. "out" \in PCs /\ nAdded' = nAdded
    BY Zenon, <1>3 DEF PCs
  <2>2. Served(t, idle, total, todo, "out", <<>>)
    BY ZenonT(30), <2>1, <1>3, ServeCounts
  <2> QED BY Zenon, <2>2 DEF Served
<1>5. \A u \in Threads \ {t} : InFlight(u) = {}
  BY Zenon, <1>2 DEF Batches, OutstandingBut
<1>6. \A u \in Threads \ {t} : vChecks[u] = <<>>
  <2> SUFFICES ASSUME NEW u \in Threads \ {t}, vChecks[u] # <<>> PROVE FALSE
    BY Zenon
  <2>1. vChecks[u] \in Seq(1..MaxChecks)
    BY Zenon DEF TypeOK
  <2>2. 1 \in DOMAIN vChecks[u]
    BY <2>1
  <2> QED BY ZenonT(30), <2>2, <1>5 DEF InFlight
<1>7. \A u \in Threads : vChecks'[u] = <<>>
  BY Zenon, <1>4, <1>6
<1>8. \A u \in Threads : InFlight(u)' = {}
  BY <1>7 DEF InFlight
<1>9. queue' = <<>> /\ Queued' = {}
  BY <1>3 DEF Queued
<1>10. Outstanding' = {}
  BY Zenon, <1>8, <1>9 DEF Outstanding
<1>11. allOk <=> bad = {}
  BY Zenon, <1>1, <1>2 DEF Serving, Tells
<1>12. \A u \in Threads : pc'[u] \notin BusyPCs
  BY Zenon, <1>4, <1>6 DEF Batches, BusyPCs
<1>13. TypeOK'
  BY <1>3, <1>4, <1>7 DEF TypeOK, Serving
<1>14. Batches'
  BY <1>3, <1>7, <1>8, <1>9, <1>12 DEF Batches, Injective
<1>15. EachCheckHeldOnce'
  BY Zenon, <1>8, <1>9 DEF EachCheckHeldOnce
<1>16. Counters'
  BY Zenon, <1>1, <1>3, <1>4, <1>10, FS_EmptySet DEF Counters
<1>17. Round'
  BY Zenon, <1>1, <1>3, <1>4, <1>10, <1>11 DEF Round
<1>18. Results'
  BY Zenon, <1>12, <1>8 DEF Results, BusyPCs
<1> QED BY Zenon, <1>13, <1>14, <1>15, <1>16, <1>17, <1>18

(* A thread that finds the queue empty goes to sleep in cond.wait: what is *)
(* unfinished is with the other threads.                                   *)
LEMMA SleepStep ==
    ASSUME Inv, NEW t \in Threads, NEW idle, NEW total, NEW allOk, NEW todo, NEW p,
           Serving(t, idle, total, allOk, todo, p),
           queue = <<>>, Sleep(t, idle, total, allOk, p),
           nTodo' = todo, UNCHANGED round
    PROVE  Inv'
<1> USE DEF Inv
<1>1. /\ pc' = [p EXCEPT ![t] = "waiting"] /\ vChecks' = [vChecks EXCEPT ![t] = <<>>]
      /\ nTotal' = total /\ nIdle' = idle + 1 /\ fRet' = fRet /\ fAllOk' = allOk
      /\ queue' = queue /\ fOk' = fOk /\ nAdded' = nAdded /\ bad' = bad
  BY Zenon DEF Sleep, round
<1>2. /\ pc' \in [Threads -> PCs] /\ pc'[t] = "waiting"
      /\ \A u \in Threads \ {t} :
           pc'[u] = pc[u] \/ (pc[u] = "waiting" /\ pc'[u] = "woken")
      /\ vChecks'[t] = <<>>
      /\ \A u \in Threads \ {t} : vChecks'[u] = vChecks[u] /\ InFlight(u)' = InFlight(u)
      /\ Cardinality(Idle') = idle + 1 /\ Cardinality(Inside') = total
      /\ idle \in Nat /\ total \in Nat /\ todo \in Nat
  <2>1. "waiting" \in PCs /\ "waiting" \in IdlePCs /\ nAdded' = nAdded
    BY Zenon, <1>1 DEF PCs, IdlePCs
  <2>2. Served(t, idle, total, todo, "waiting", <<>>)
    BY ZenonT(30), <2>1, <1>1, ServeCounts
  <2> QED BY Zenon, <2>1, <2>2 DEF Served
<1>3. InFlight(t)' = {}
  BY <1>2 DEF InFlight
<1>4. queue' = queue /\ Queued' = Queued
  BY Zenon, <1>1 DEF Queued
<1>5. Outstanding' = OutstandingBut(t)
  BY <1>1, <1>2, <1>3, <1>4 DEF Outstanding, OutstandingBut
<1>6. pc'[Master] = "out" <=> pc[Master] = "out"
  BY Zenon, <1>2 DEF Serving, Threads
<1>7. TypeOK'
  <2>1. vChecks' \in [Threads -> Seq(1..MaxChecks)]
    BY Zenon, <1>1 DEF TypeOK
  <2> QED BY <2>1, <1>1, <1>2 DEF TypeOK, Serving
<1>8. Batches'
  <2>1. Queued' \subseteq 1..nAdded' /\ bad' \subseteq 1..nAdded'
    BY Zenon, <1>1, <1>4 DEF Batches
  <2>2. ASSUME NEW u \in Threads \ {t}
        PROVE  /\ InFlight(u)' \subseteq 1..nAdded'
               /\ vChecks'[u] = <<>> <=> pc'[u] \notin BusyPCs
               /\ Injective(vChecks'[u])
    BY <1>1, <1>2 DEF Batches, BusyPCs
  <2>3. Injective(<<>>)
    BY DEF Injective
  <2>4. pc'[t] \notin BusyPCs
    BY Zenon, <1>2 DEF BusyPCs
  <2>5. /\ InFlight(t)' \subseteq 1..nAdded'
        /\ vChecks'[t] = <<>> <=> pc'[t] \notin BusyPCs
        /\ Injective(vChecks'[t])
    BY Zenon, <1>2, <1>3, <2>3, <2>4
  <2> QED BY Zenon, <2>1, <2>2, <2>5 DEF Batches
<1>9. EachCheckHeldOnce'
  <2>1. \A i, j \in DOMAIN queue' : i # j => queue'[i] # queue'[j]
    BY <1>4 DEF EachCheckHeldOnce
  <2>2. \A u \in Threads : InFlight(u)' \cap Queued' = {}
    BY Zenon, <1>2, <1>3, <1>4 DEF EachCheckHeldOnce
  <2>3. \A u, v \in Threads : u # v => InFlight(u)' \cap InFlight(v)' = {}
    BY Zenon, <1>2, <1>3 DEF EachCheckHeldOnce
  <2> QED BY Zenon, <2>1, <2>2, <2>3 DEF EachCheckHeldOnce
<1>10. Counters'
  BY Zenon, <1>1, <1>2, <1>5 DEF Counters, Serving
<1>11. Round'
  <2>1. CASE pc[Master] = "out"
    BY ZenonT(30), <2>1, <1>1, <1>5, <1>6 DEF Round, Serving
  <2>2. CASE pc[Master] # "out"
    BY Zenon, <2>2, <1>1, <1>5, <1>6 DEF Round, Serving, Tells
  <2> QED BY Zenon, <2>1, <2>2
<1>12. Results'
  <2> SUFFICES ASSUME NEW u \in Threads
               PROVE  /\ pc'[u] \in BusyPCs /\ ~fOk'[u] => bad' # {}
                      /\ pc'[u] = "ran" /\ InFlight(u)' \cap bad' # {} => ~fOk'[u]
    BY ZenonT(30) DEF Results
  <2>1. CASE u = t
    BY Zenon, <2>1, <1>2 DEF BusyPCs
  <2>2. CASE u # t
    <3>1. fOk' = fOk /\ bad' = bad /\ InFlight(u)' = InFlight(u)
      BY Zenon, <2>2, <1>1, <1>2
    <3>2. /\ pc'[u] \in BusyPCs => pc[u] \in BusyPCs
          /\ pc'[u] = "ran" => pc[u] = "ran"
      BY Zenon, <2>2, <1>2 DEF BusyPCs
    <3> QED BY <3>1, <3>2, ZenonT(30) DEF Results
  <2> QED BY Zenon, <2>1, <2>2
<1> QED BY Zenon, <1>7, <1>8, <1>9, <1>10, <1>11, <1>12


(* A thread takes a batch from the back of the queue: what is unfinished   *)
(* stays the same, and the batch starts with the result so far.            *)
LEMMA TakeStep ==
    ASSUME Inv, NEW t \in Threads, NEW idle, NEW total, NEW allOk, NEW todo, NEW p,
           Serving(t, idle, total, allOk, todo, p),
           queue # <<>>, TakeBatch(t, idle, total, allOk, p),
           nTodo' = todo, UNCHANGED round
    PROVE  Inv'
<1> USE DEF Inv
<1> DEFINE n == BatchSize(Len(queue), total, idle)
           b == PopBack(queue, n)
           r == Rest(queue, n)
           B == {b[i] : i \in DOMAIN b}
           R == {r[i] : i \in DOMAIN r}
<1>1. /\ pc' = [p EXCEPT ![t] = "work"] /\ vChecks' = [vChecks EXCEPT ![t] = b]
      /\ nTotal' = total /\ nIdle' = idle /\ fRet' = fRet /\ fAllOk' = allOk
      /\ queue' = r /\ fOk' = [fOk EXCEPT ![t] = allOk] /\ nAdded' = nAdded /\ bad' = bad
  BY Zenon DEF TakeBatch, round
<1>2. /\ pc' \in [Threads -> PCs] /\ pc'[t] = "work"
      /\ \A u \in Threads \ {t} :
           pc'[u] = pc[u] \/ (pc[u] = "waiting" /\ pc'[u] = "woken")
      /\ vChecks'[t] = b
      /\ \A u \in Threads \ {t} : vChecks'[u] = vChecks[u] /\ InFlight(u)' = InFlight(u)
      /\ InFlight(t)' = B
      /\ Cardinality(Idle') = idle /\ Cardinality(Inside') = total
      /\ idle \in Nat /\ total \in Nat /\ todo \in Nat
  <2> HIDE DEF b, r
  <2>1. "work" \in PCs /\ "work" \in BusyPCs /\ nAdded' = nAdded
    BY Zenon, <1>1 DEF PCs, BusyPCs
  <2>2. Served(t, idle, total, todo, "work", b)
    BY <2>1, <1>1, ServeCounts, ZenonT(30)
  <2> QED BY Zenon, <2>1, <2>2 DEF Served
<1>3. queue \in Seq(1..MaxChecks) /\ Injective(queue)
  BY Zenon DEF TypeOK, EachCheckHeldOnce, Injective
<1>4. n \in 1..Len(queue)
  <2>1. Len(queue) \in Nat \ {0}
    BY <1>3
  <2> QED BY Zenon, <2>1, <1>2, BatchBound
<1>5. /\ b \in Seq(1..MaxChecks) /\ r \in Seq(1..MaxChecks) /\ b # <<>>
      /\ Injective(b) /\ Injective(r) /\ B \cap R = {} /\ B \cup R = Queued
  <2> HIDE DEF n
  <2>1. Splits(b, r, queue, 1..MaxChecks)
    BY <1>3, <1>4, TakeSplits, ZenonT(30)
  <2> QED BY <2>1, ZenonT(30) DEF Splits, Queued
<1> HIDE DEF n, b, r
<1>6. Queued' = R
  BY Zenon, <1>1 DEF Queued
<1> HIDE DEF B, R
<1>7. Outstanding' = OutstandingBut(t)
  BY SMTT(30), <1>1, <1>2, <1>5, <1>6 DEF Outstanding, OutstandingBut
<1>8. pc'[Master] = "out" <=> pc[Master] = "out"
  BY Zenon, <1>2 DEF Serving, Threads
<1>9. TypeOK'
  <2>1. vChecks' \in [Threads -> Seq(1..MaxChecks)]
    BY Zenon, <1>1, <1>5 DEF TypeOK
  <2>2. allOk \in BOOLEAN
    BY Zenon DEF Serving
  <2>3. fOk' \in [Threads -> BOOLEAN]
    BY Zenon, <2>2, <1>1 DEF TypeOK
  <2> QED BY Zenon, <2>1, <2>2, <2>3, <1>1, <1>2, <1>5 DEF TypeOK
<1>10. Batches'
  <2>1. Queued' \subseteq 1..nAdded' /\ bad' \subseteq 1..nAdded'
    BY ZenonT(30), <1>1, <1>5, <1>6 DEF Batches
  <2>2. ASSUME NEW u \in Threads \ {t}
        PROVE  /\ InFlight(u)' \subseteq 1..nAdded'
               /\ vChecks'[u] = <<>> <=> pc'[u] \notin BusyPCs
               /\ Injective(vChecks'[u])
    BY <1>1, <1>2 DEF Batches, BusyPCs
  <2>3. pc'[t] \in BusyPCs
    BY Zenon, <1>2 DEF BusyPCs
  <2>4. /\ InFlight(t)' \subseteq 1..nAdded'
        /\ vChecks'[t] = <<>> <=> pc'[t] \notin BusyPCs
        /\ Injective(vChecks'[t])
    BY ZenonT(30), <1>1, <1>2, <1>5, <2>3 DEF Batches
  <2> QED BY Zenon, <2>1, <2>2, <2>4 DEF Batches
<1>11. EachCheckHeldOnce'
  <2>1. \A i, j \in DOMAIN queue' : i # j => queue'[i] # queue'[j]
    BY <1>1, <1>5, ZenonT(30) DEF Injective
  <2>2. \A u \in Threads : InFlight(u)' \cap Queued' = {}
    BY Zenon, <1>2, <1>5, <1>6 DEF EachCheckHeldOnce
  <2>3. \A u, v \in Threads : u # v => InFlight(u)' \cap InFlight(v)' = {}
    BY SMTT(30), <1>2, <1>5 DEF EachCheckHeldOnce
  <2> QED BY <2>1, <2>2, <2>3, ZenonT(30) DEF EachCheckHeldOnce
<1>12. Counters'
  BY Zenon, <1>1, <1>2, <1>7 DEF Counters, Serving
<1>13. Round'
  <2>1. CASE pc[Master] = "out"
    BY ZenonT(30), <2>1, <1>1, <1>7, <1>8 DEF Round, Serving
  <2>2. CASE pc[Master] # "out"
    BY Zenon, <2>2, <1>1, <1>7, <1>8 DEF Round, Serving, Tells
  <2> QED BY Zenon, <2>1, <2>2
<1>14. Results'
  <2> SUFFICES ASSUME NEW u \in Threads
               PROVE  /\ pc'[u] \in BusyPCs /\ ~fOk'[u] => bad' # {}
                      /\ pc'[u] = "ran" /\ InFlight(u)' \cap bad' # {} => ~fOk'[u]
    BY ZenonT(30) DEF Results
  <2>1. CASE u = t
    <3>1. fOk'[t] <=> allOk
      BY Zenon, <1>1 DEF TypeOK
    <3>2. ~allOk => bad # {}
      BY Zenon DEF Serving, Tells
    <3> QED BY Zenon, <2>1, <3>1, <3>2, <1>1, <1>2
  <2>2. CASE u # t
    <3>1. fOk'[u] = fOk[u] /\ bad' = bad /\ InFlight(u)' = InFlight(u)
      BY Zenon, <2>2, <1>1, <1>2 DEF TypeOK
    <3>2. /\ pc'[u] \in BusyPCs => pc[u] \in BusyPCs
          /\ pc'[u] = "ran" => pc[u] = "ran"
      BY Zenon, <2>2, <1>2 DEF BusyPCs
    <3> QED BY <3>1, <3>2, ZenonT(30) DEF Results
  <2> QED BY Zenon, <2>1, <2>2
<1> QED BY Zenon, <1>9, <1>10, <1>11, <1>12, <1>13, <1>14

(* The critical section preserves the invariant, whatever it decides.      *)
LEMMA ServeStep ==
    ASSUME Inv, NEW t \in Threads, NEW idle, NEW total, NEW allOk, NEW todo, NEW p,
           Serving(t, idle, total, allOk, todo, p),
           Serve(t, idle, total, allOk, todo, p)
    PROVE  Inv'
<1>1. nTodo' = todo /\ UNCHANGED round
  BY Zenon DEF Serve
<1>2. CASE queue = <<>> /\ MayLeave(t, todo) /\ Leave(t, idle, total, allOk, p)
  BY <1>1, <1>2, LeaveStep, ZenonT(30)
<1>3. CASE queue = <<>> /\ ~MayLeave(t, todo) /\ Sleep(t, idle, total, allOk, p)
  BY <1>1, <1>3, SleepStep, ZenonT(30)
<1>4. CASE queue # <<>> /\ TakeBatch(t, idle, total, allOk, p)
  BY <1>1, <1>4, TakeStep, ZenonT(30)
<1> QED BY Zenon, <1>2, <1>3, <1>4 DEF Serve


-----------------------------------------------------------------------------
(* The actions.                                                            *)

(* A thread enters Loop: it is counted in nTotal before it looks for work. *)
LEMMA EnterStep ==
    ASSUME Inv, NEW t \in Threads, Enter(t)
    PROVE  Inv'
<1> USE DEF Inv
<1>1. pc[t] = "entering" /\ vChecks[t] = <<>>
  BY Zenon DEF Enter, Batches, BusyPCs
<1>2. InFlight(t) = {}
  BY <1>1 DEF InFlight
<1>3. OutstandingBut(t) = Outstanding
  BY Zenon, <1>2 DEF Outstanding, OutstandingBut
<1>4. Idle \ {t} = Idle /\ t \notin Inside
  BY Zenon, <1>1 DEF Idle, Inside, IdlePCs, BusyPCs
<1>5. Cardinality(Inside \cup {t}) = nTotal + 1
  BY ZenonT(30), <1>4, Finite, FS_AddElement DEF Counters
<1>6. Serving(t, nIdle, nTotal + 1, fAllOk, nTodo, pc)
  BY ZenonT(30), <1>1, <1>3, <1>4, <1>5 DEF Serving, Counters, Round, TypeOK
<1> QED BY <1>6, ServeStep, ZenonT(30) DEF Enter

(* A thread comes back from cond.wait and is no longer idle.               *)
LEMMA ResumeStep ==
    ASSUME Inv, NEW t \in Threads, Resume(t)
    PROVE  Inv'
<1> USE DEF Inv
<1>1. pc[t] = "woken" /\ vChecks[t] = <<>>
  BY Zenon DEF Resume, Batches, BusyPCs
<1>2. InFlight(t) = {}
  BY <1>1 DEF InFlight
<1>3. OutstandingBut(t) = Outstanding
  BY Zenon, <1>2 DEF Outstanding, OutstandingBut
<1>4. t \in Idle /\ Inside \cup {t} = Inside
  BY Zenon, <1>1 DEF Idle, Inside, IdlePCs
<1>5. Cardinality(Idle \ {t}) = nIdle - 1
  BY ZenonT(30), <1>4, Finite, FS_RemoveElement DEF Counters
<1>6. Serving(t, nIdle - 1, nTotal, fAllOk, nTodo, pc)
  BY ZenonT(30), <1>1, <1>3, <1>4, <1>5 DEF Serving, Counters, Round, TypeOK
<1> QED BY <1>6, ServeStep, ZenonT(30) DEF Resume

(* After a batch the thread subtracts its size from nTodo and records its  *)
(* result; when nothing is left it wakes the master.                       *)
LEMMA CleanUpStep ==
    ASSUME Inv, NEW t \in Threads, CleanUp(t)
    PROVE  Inv'
<1> USE DEF Inv
<1> DEFINE todo == nTodo - Len(vChecks[t])
           ok == fAllOk /\ fOk[t]
<1>1. pc[t] = "ran" /\ vChecks[t] # <<>>
  BY Zenon DEF CleanUp, Batches, BusyPCs
<1>2. PICK p : /\ p \in IF todo = 0 /\ t # Master THEN NotifyOne(pc, {Master}) ELSE {pc}
               /\ Serve(t, nIdle, nTotal, ok, todo, p)
  BY ZenonT(30) DEF CleanUp
<1>3. vChecks[t] \in Seq(1..MaxChecks) /\ Injective(vChecks[t])
  BY Zenon DEF TypeOK, Batches
<1>4. IsFiniteSet(InFlight(t)) /\ Cardinality(InFlight(t)) = Len(vChecks[t])
  BY <1>3, RangeSize, ZenonT(30) DEF InFlight
<1>5. InFlight(t) \subseteq Outstanding
  BY Zenon DEF Batches, Outstanding
<1>6. OutstandingBut(t) = Outstanding \ InFlight(t)
  BY Zenon DEF Outstanding, OutstandingBut, EachCheckHeldOnce
<1>7. todo = Cardinality(OutstandingBut(t))
  <2>1. Outstanding \cap InFlight(t) = InFlight(t)
    BY Zenon, <1>5
  <2>2. Cardinality(Outstanding \ InFlight(t)) =
          Cardinality(Outstanding) - Cardinality(Outstanding \cap InFlight(t))
    BY Finite, FS_Difference, ZenonT(30)
  <2>3. nTodo = Cardinality(Outstanding)
    BY Zenon DEF Counters
  <2> QED BY <2>1, <2>2, <2>3, <1>4, <1>6, ZenonT(30)
<1>8. Idle \ {t} = Idle /\ Inside \cup {t} = Inside
  BY Zenon, <1>1 DEF Idle, Inside, IdlePCs, BusyPCs
<1>9. pc[Master] # "out"
  <2>1. InFlight(t) # {}
    <3>1. 1 \in DOMAIN vChecks[t]
      BY <1>1, <1>3
    <3> QED BY ZenonT(30), <3>1 DEF InFlight
  <2> QED BY Zenon, <2>1, <1>5 DEF Round
<1>10. ok \in BOOLEAN /\ Tells(ok, OutstandingBut(t))
  <2>1. ~ok => bad # {}
    BY Zenon, <1>1, <1>9 DEF Round, Tells, Results, BusyPCs
  <2>2. ASSUME NEW c \in bad PROVE c \in OutstandingBut(t) \/ ~ok
    <3>1. c \in Outstanding \/ ~fAllOk
      BY Zenon, <1>9 DEF Round, Tells
    <3>2. c \in InFlight(t) => ~fOk[t]
      BY Zenon, <1>1 DEF Results
    <3> QED BY Zenon, <3>1, <3>2, <1>6
  <2> QED BY Zenon, <2>1, <2>2 DEF Tells
<1>11. /\ p \in [Threads -> PCs]
       /\ \A u \in Threads \ {t} : p[u] = pc[u] \/ (pc[u] = "waiting" /\ p[u] = "woken")
  <2>1. p = pc \/ p \in NotifyOne(pc, {Master})
    BY Zenon, <1>2
  <2>2. pc \in [Threads -> PCs] /\ Master \in Threads
    BY Zenon DEF TypeOK, Threads
  <2> QED BY Zenon, <2>1, <2>2 DEF NotifyOne, Waiting, PCs
<1> HIDE DEF todo, ok
<1>12. Serving(t, nIdle, nTotal, ok, todo, p)
  BY ZenonT(30), <1>1, <1>7, <1>8, <1>9, <1>10, <1>11 DEF Serving, Counters
<1> QED BY <1>2, <1>12, ServeStep, ZenonT(30)

(* A batch is executed outside the lock: its result takes in the failing   *)
(* checks it holds.                                                        *)
LEMMA ExecuteStep ==
    ASSUME Inv, NEW t \in Threads, Execute(t)
    PROVE  Inv'
<1> USE DEF Inv
<1> DEFINE ok == fOk[t] /\ \A i \in DOMAIN vChecks[t] : vChecks[t][i] \notin bad
<1>1. /\ pc[t] = "work" /\ pc' = [pc EXCEPT ![t] = "ran"]
      /\ fOk' = [fOk EXCEPT ![t] = ok]
      /\ queue' = queue /\ nIdle' = nIdle /\ nTotal' = nTotal /\ fAllOk' = fAllOk
      /\ nTodo' = nTodo /\ vChecks' = vChecks /\ nAdded' = nAdded /\ bad' = bad
      /\ fRet' = fRet
  BY ZenonT(30) DEF Execute, round
<1>2. ok \in BOOLEAN /\ (~ok <=> ~fOk[t] \/ InFlight(t) \cap bad # {})
  BY Zenon DEF InFlight, TypeOK
<1> HIDE DEF ok
<1>3. pc' \in [Threads -> PCs] /\ pc'[t] = "ran" /\ \A u \in Threads \ {t} : pc'[u] = pc[u]
  BY Zenon, <1>1 DEF TypeOK, PCs
<1>4. fOk' \in [Threads -> BOOLEAN] /\ fOk'[t] = ok /\ \A u \in Threads \ {t} : fOk'[u] = fOk[u]
  BY Zenon, <1>1, <1>2 DEF TypeOK
<1>5. Queued' = Queued /\ \A u \in Threads : InFlight(u)' = InFlight(u)
  BY <1>1, ZenonT(30) DEF Queued, InFlight
<1>6. Outstanding' = Outstanding
  BY Zenon, <1>1, <1>5 DEF Outstanding
<1>7. Idle' = Idle /\ Inside' = Inside
  BY Zenon, <1>1, <1>3 DEF Idle, Inside, IdlePCs, BusyPCs
<1>8. pc'[Master] = "out" <=> pc[Master] = "out"
  BY Zenon, <1>1, <1>3 DEF Threads
<1>9. TypeOK'
  BY Zenon, <1>1, <1>3, <1>4 DEF TypeOK
<1>10. Batches'
  <2>1. \A u \in Threads : pc'[u] \in BusyPCs <=> pc[u] \in BusyPCs
    BY Zenon, <1>1, <1>3 DEF BusyPCs
  <2> QED BY Zenon, <2>1, <1>1, <1>5 DEF Batches
<1>11. EachCheckHeldOnce'
  BY <1>1, <1>5, ZenonT(30) DEF EachCheckHeldOnce
<1>12. Counters'
  BY Zenon, <1>1, <1>6, <1>7 DEF Counters
<1>13. Round'
  BY Zenon, <1>1, <1>6, <1>8 DEF Round, Tells
<1>14. Results'
  <2> SUFFICES ASSUME NEW u \in Threads
               PROVE  /\ pc'[u] \in BusyPCs /\ ~fOk'[u] => bad' # {}
                      /\ pc'[u] = "ran" /\ InFlight(u)' \cap bad' # {} => ~fOk'[u]
    BY ZenonT(30) DEF Results
  <2>1. CASE u = t
    <3>1. pc[t] \in BusyPCs
      BY Zenon, <1>1 DEF BusyPCs
    <3>2. ~fOk[t] => bad # {}
      BY <3>1, ZenonT(30) DEF Results
    <3> QED BY Zenon, <2>1, <3>2, <1>1, <1>2, <1>4, <1>5
  <2>2. CASE u # t
    <3>1. fOk'[u] = fOk[u] /\ bad' = bad /\ InFlight(u)' = InFlight(u) /\ pc'[u] = pc[u]
      BY Zenon, <2>2, <1>1, <1>3, <1>4, <1>5
    <3> QED BY <3>1, ZenonT(30) DEF Results
  <2> QED BY Zenon, <2>1, <2>2
<1> QED BY Zenon, <1>9, <1>10, <1>11, <1>12, <1>13, <1>14


(* A thread moves without touching the queue: it stays idle, or it stays   *)
(* out of Loop's account, and the master does not leave or begin a round.  *)
LEMMA MoveStep ==
    ASSUME Inv, NEW t \in Threads, NEW x \in PCs, pc' = [pc EXCEPT ![t] = x],
           pc[t] \in IdlePCs <=> x \in IdlePCs, pc[t] \notin BusyPCs, x \notin BusyPCs,
           t = Master => pc[t] # "out" /\ x # "out",
           UNCHANGED <<queue, nIdle, nTotal, fAllOk, nTodo, vChecks, fOk, round, fRet>>
    PROVE  Inv'
<1> USE DEF Inv
<1>1. /\ queue' = queue /\ nIdle' = nIdle /\ nTotal' = nTotal /\ fAllOk' = fAllOk
      /\ nTodo' = nTodo /\ vChecks' = vChecks /\ nAdded' = nAdded /\ bad' = bad
      /\ fRet' = fRet /\ fOk' = fOk
  BY Zenon DEF round
<1>2. pc' \in [Threads -> PCs] /\ pc'[t] = x /\ \A u \in Threads \ {t} : pc'[u] = pc[u]
  BY Zenon DEF TypeOK
<1>3. Queued' = Queued /\ \A u \in Threads : InFlight(u)' = InFlight(u)
  BY <1>1, ZenonT(30) DEF Queued, InFlight
<1>4. Outstanding' = Outstanding
  BY Zenon, <1>1, <1>3 DEF Outstanding
<1>5. Idle' = Idle /\ Inside' = Inside
  BY Zenon, <1>2 DEF Idle, Inside
<1>6. pc'[Master] = "out" <=> pc[Master] = "out"
  BY Zenon, <1>2 DEF Threads
<1>7. \A u \in Threads : pc'[u] \in BusyPCs <=> pc[u] \in BusyPCs
  BY Zenon, <1>2
<1>8. \A u \in Threads : pc'[u] = "ran" => pc[u] = "ran"
  BY Zenon, <1>2 DEF BusyPCs
<1>9. TypeOK'
  BY Zenon, <1>1, <1>2 DEF TypeOK
<1>10. Batches'
  BY Zenon, <1>1, <1>3, <1>7 DEF Batches
<1>11. EachCheckHeldOnce'
  BY <1>1, <1>3, ZenonT(30) DEF EachCheckHeldOnce
<1>12. Counters'
  BY Zenon, <1>1, <1>4, <1>5 DEF Counters
<1>13. Round'
  BY <1>1, <1>4, <1>6 DEF Round, Tells
<1>14. Results'
  BY <1>1, <1>3, <1>7, <1>8, ZenonT(30) DEF Results
<1> QED BY Zenon, <1>9, <1>10, <1>11, <1>12, <1>13, <1>14

(* The steps of that kind: a spurious wake-up, the start of a worker, its  *)
(* interruption inside cond.wait, and the master's call of Wait().         *)
LEMMA MoveSteps ==
    ASSUME Inv,
           \/ \E t \in Threads : SpuriousWake(t)
           \/ \E w \in Workers : StartWorker(w) \/ Interrupt(w)
           \/ Wait
    PROVE  Inv'
<1>1. ASSUME NEW t \in Threads, SpuriousWake(t) PROVE Inv'
  <2>1. "woken" \in PCs /\ "woken" \in IdlePCs /\ "woken" \notin BusyPCs /\ "woken" # "out"
    BY Zenon DEF PCs, IdlePCs, BusyPCs
  <2>2. pc[t] \in IdlePCs /\ pc[t] \notin BusyPCs /\ pc[t] # "out"
    BY Zenon, <1>1 DEF SpuriousWake, IdlePCs, BusyPCs
  <2> QED BY <1>1, <2>1, <2>2, MoveStep, ZenonT(30) DEF SpuriousWake
<1>2. ASSUME NEW w \in Workers, StartWorker(w) PROVE Inv'
  <2>1. "entering" \in PCs /\ "entering" \notin IdlePCs /\ "entering" \notin BusyPCs
    BY Zenon DEF PCs, IdlePCs, BusyPCs
  <2>2. pc[w] \notin IdlePCs /\ pc[w] \notin BusyPCs /\ w # Master /\ w \in Threads
    BY Zenon, <1>2, CheckQueueAssumption DEF StartWorker, IdlePCs, BusyPCs, Threads
  <2> QED BY <1>2, <2>1, <2>2, MoveStep, ZenonT(30) DEF StartWorker
<1>3. ASSUME NEW w \in Workers, Interrupt(w) PROVE Inv'
  <2>1. "dead" \in PCs /\ "dead" \in IdlePCs /\ "dead" \notin BusyPCs
    BY Zenon DEF PCs, IdlePCs, BusyPCs
  <2>2. pc[w] \in IdlePCs /\ pc[w] \notin BusyPCs /\ w # Master /\ w \in Threads
    BY Zenon, <1>3, CheckQueueAssumption DEF Interrupt, IdlePCs, BusyPCs, Threads
  <2> QED BY <1>3, <2>1, <2>2, MoveStep, ZenonT(30) DEF Interrupt
<1>4. ASSUME Wait PROVE Inv'
  <2>1. /\ "entering" \in PCs /\ "entering" \notin IdlePCs /\ "entering" \notin BusyPCs
        /\ "entering" # "out"
    BY Zenon DEF PCs, IdlePCs, BusyPCs
  <2>2. /\ pc[Master] \notin IdlePCs /\ pc[Master] \notin BusyPCs /\ pc[Master] # "out"
        /\ Master \in Threads
    BY Zenon, <1>4 DEF Wait, IdlePCs, BusyPCs, Threads
  <2> QED BY <1>4, <2>1, <2>2, MoveStep, ZenonT(30) DEF Wait
<1> QED BY Zenon, <1>1, <1>2, <1>3, <1>4

(* Nothing of the last round is left when the master begins a new one.     *)
LEMMA NewControlStep ==
    ASSUME Inv, NewControl
    PROVE  Inv'
<1> USE DEF Inv
<1>1. /\ pc[Master] = "out" /\ pc' = [pc EXCEPT ![Master] = "adding"]
      /\ queue' = queue /\ nIdle' = nIdle /\ nTotal' = nTotal /\ fAllOk' = fAllOk
      /\ nTodo' = nTodo /\ vChecks' = vChecks /\ nAdded' = 0 /\ bad' = {}
      /\ fRet' = fRet /\ fOk' = fOk
  BY Zenon DEF NewControl
<1>2. Master \in Threads
  BY Zenon DEF Threads
<1>3. /\ pc' \in [Threads -> PCs] /\ pc'[Master] = "adding"
      /\ \A u \in Threads \ {Master} : pc'[u] = pc[u]
  BY Zenon, <1>1, <1>2 DEF TypeOK, PCs
<1>4. Outstanding = {} /\ fAllOk
  BY Zenon, <1>1 DEF Round
<1>5. Queued = {} /\ \A u \in Threads : InFlight(u) = {}
  BY Zenon, <1>4 DEF Outstanding, Batches
<1>6. Queued' = {} /\ \A u \in Threads : InFlight(u)' = {}
  BY <1>1, <1>5, ZenonT(30) DEF Queued, InFlight
<1>7. Outstanding' = Outstanding
  BY Zenon, <1>4, <1>6 DEF Outstanding
<1>8. Idle' = Idle /\ Inside' = Inside
  BY Zenon, <1>1, <1>2, <1>3 DEF Idle, Inside, IdlePCs, BusyPCs
<1>9. \A u \in Threads : pc'[u] \in BusyPCs <=> pc[u] \in BusyPCs
  BY Zenon, <1>1, <1>3 DEF BusyPCs
<1>10. \A u \in Threads : pc[u] \notin BusyPCs
  <2> SUFFICES ASSUME NEW u \in Threads, vChecks[u] # <<>> PROVE FALSE
    BY Zenon DEF Batches
  <2>1. vChecks[u] \in Seq(1..MaxChecks)
    BY Zenon DEF TypeOK
  <2>2. 1 \in DOMAIN vChecks[u]
    BY <2>1
  <2> QED BY ZenonT(30), <2>2, <1>5 DEF InFlight
<1>11. TypeOK'
  BY SMTT(30), <1>1, <1>3, CheckQueueAssumption DEF TypeOK
<1>12. Batches'
  <2>1. Queued' \subseteq 1..nAdded' /\ bad' \subseteq 1..nAdded'
    BY Zenon, <1>1, <1>6
  <2>2. ASSUME NEW u \in Threads
        PROVE  /\ InFlight(u)' \subseteq 1..nAdded'
               /\ vChecks'[u] = <<>> <=> pc'[u] \notin BusyPCs
               /\ Injective(vChecks'[u])
    BY Zenon, <1>1, <1>6, <1>9 DEF Batches
  <2> QED BY Zenon, <2>1, <2>2 DEF Batches
<1>13. EachCheckHeldOnce'
  BY Zenon, <1>1, <1>6 DEF EachCheckHeldOnce
<1>14. Counters'
  BY Zenon, <1>1, <1>7, <1>8 DEF Counters
<1>15. Round'
  BY Zenon, <1>1, <1>3, <1>4 DEF Round, Tells
<1>16. Results'
  BY Zenon, <1>6, <1>9, <1>10 DEF Results, BusyPCs
<1> QED BY Zenon, <1>11, <1>12, <1>13, <1>14, <1>15, <1>16


(* Add puts new checks, numbered after the ones of the round so far, into  *)
(* the queue, counts them and wakes workers.                               *)
LEMMA AddStep ==
    ASSUME Inv, NEW n \in 1..MaxChecks, NEW B \in SUBSET ((nAdded + 1)..(nAdded + n)),
           Add(n, B)
    PROVE  Inv'
<1> USE DEF Inv
<1> DEFINE a == [i \in 1..n |-> nAdded + i]
           A == (nAdded + 1)..(nAdded + n)
           L == Len(queue)
<1>1. /\ pc[Master] = "adding" /\ nAdded + n <= MaxChecks /\ queue' = queue \o a
      /\ nIdle' = nIdle /\ nTotal' = nTotal /\ fAllOk' = fAllOk
      /\ nTodo' = nTodo + n /\ vChecks' = vChecks /\ nAdded' = nAdded + n
      /\ bad' = bad \cup B /\ fRet' = fRet /\ fOk' = fOk
      /\ pc' \in NotifyOne(pc, Workers) \/ pc' = NotifyAll(pc, Workers)
  BY ZenonT(30) DEF Add
<1>2. n \in Nat /\ n > 0 /\ nAdded \in Nat /\ MaxChecks \in Nat /\ nTodo \in Nat
  BY CheckQueueAssumption DEF TypeOK
<1>3. pc \in [Threads -> PCs] /\ Workers \subseteq Threads /\ Master \in Threads
  BY Zenon DEF TypeOK, Threads
<1>4. /\ pc' \in [Threads -> PCs]
      /\ \A u \in Threads : pc'[u] = pc[u] \/ (pc[u] = "waiting" /\ pc'[u] = "woken")
  <2>1. CASE pc' = pc
    BY Zenon, <2>1, <1>3
  <2>2. CASE pc' = NotifyAll(pc, Workers)
    BY Zenon, <2>2, <1>3 DEF NotifyAll, Waiting, PCs
  <2>3. ASSUME NEW w \in Workers, pc[w] = "waiting", pc' = [pc EXCEPT ![w] = "woken"]
        PROVE  <1>4!:
    BY Zenon, <2>3, <1>3 DEF PCs
  <2>4. \/ pc' = pc
        \/ pc' = NotifyAll(pc, Workers)
        \/ \E w \in Workers : pc[w] = "waiting" /\ pc' = [pc EXCEPT ![w] = "woken"]
    BY Zenon, <1>1 DEF NotifyOne, Waiting
  <2> QED BY Zenon, <2>1, <2>2, <2>3, <2>4
<1>5. \A u \in Threads : InFlight(u)' = InFlight(u)
  BY <1>1, ZenonT(30) DEF InFlight
<1>6. queue \in Seq(1..MaxChecks) /\ L \in Nat /\ DOMAIN queue = 1..L
  BY DEF TypeOK
<1>6a. \A i \in 1..L : queue[i] \in 1..nAdded
  BY <1>6, ZenonT(30) DEF Batches, Queued
<1>6b. \A i, j \in 1..L : i # j => queue[i] # queue[j]
  BY <1>6, ZenonT(30) DEF EachCheckHeldOnce
<1>7. /\ a \in Seq(1..MaxChecks) /\ Len(a) = n
      /\ \A i \in 1..n : a[i] = nAdded + i
  <2>1. a \in [1..n -> 1..MaxChecks]
    BY <1>1, <1>2
  <2> QED BY <2>1, <1>2
<1> HIDE DEF a
<1>8. /\ queue' \in Seq(1..MaxChecks) /\ DOMAIN queue' = 1..(L + n)
      /\ \A i \in 1..L : queue'[i] = queue[i]
      /\ \A i \in 1..n : queue'[L + i] = nAdded + i
  <2>1. queue' \in Seq(1..MaxChecks) /\ Len(queue') = L + n
    <3> DEFINE S == 1..MaxChecks
    <3>1. queue \in Seq(S) /\ a \in Seq(S) /\ queue' = queue \o a /\ Len(a) = n
      BY Zenon, <1>1, <1>6, <1>7
    <3> HIDE DEF S
    <3>2. queue' \in Seq(S) /\ Len(queue') = L + n
      BY <3>1, ConcatProperties, ZenonT(30)
    <3> QED BY Zenon, <3>2 DEF S
  <2>2. DOMAIN queue' = 1..(L + n)
    BY SMTT(30), <2>1
  <2>3. ASSUME NEW i \in 1..L PROVE queue'[i] = queue[i]
    BY SMTT(30), <1>1, <1>2, <1>6, <1>7
  <2>4. ASSUME NEW i \in 1..n PROVE queue'[L + i] = nAdded + i
    BY SMTT(30), <1>1, <1>2, <1>6, <1>7
  <2> QED BY <2>1, <2>2, <2>3, <2>4, ZenonT(30)
<1> HIDE DEF L
<1>9. \A i \in 1..(L + n) :
        \/ i \in 1..L /\ queue'[i] = queue[i] /\ queue'[i] \in 1..nAdded
        \/ i - L \in 1..n /\ queue'[i] = nAdded + (i - L) /\ queue'[i] \in A
  <2> SUFFICES ASSUME NEW i \in 1..(L + n)
               PROVE  <1>9!(i)
    BY Zenon
  <2>1. CASE i \in 1..L
    BY <2>1, <1>6a, <1>8, ZenonT(30)
  <2>2. CASE i \notin 1..L
    <3>1. i - L \in 1..n /\ L + (i - L) = i
      BY <2>2, <1>2, <1>6
    <3>2. queue'[i] = nAdded + (i - L)
      BY <3>1, <1>8, ZenonT(30)
    <3> QED BY <3>1, <3>2, <1>2
  <2> QED BY Zenon, <2>1, <2>2
<1>10. \A i, j \in 1..(L + n) : i # j => queue'[i] # queue'[j]
  <2> SUFFICES ASSUME NEW i \in 1..(L + n), NEW j \in 1..(L + n), i # j
               PROVE  queue'[i] # queue'[j]
    BY Zenon
  <2>1. CASE i \in 1..L /\ j \in 1..L
    BY <2>1, <1>6b, <1>8, ZenonT(30)
  <2>2. CASE queue'[i] \in 1..nAdded /\ queue'[j] \in A
    BY <2>2, <1>2
  <2>3. CASE queue'[j] \in 1..nAdded /\ queue'[i] \in A
    BY SMTT(30), <2>3, <1>2
  <2>4. CASE queue'[i] = nAdded + (i - L) /\ queue'[j] = nAdded + (j - L)
    BY <2>4, <1>2, <1>6
  <2> QED BY <2>1, <2>2, <2>3, <2>4, <1>9, ZenonT(30)
<1>11. Queued' = Queued \cup A
  <2>1. \A c : c \in Queued' <=> \E i \in 1..(L + n) : c = queue'[i]
    BY <1>8, ZenonT(30) DEF Queued
  <2>2. \A c : c \in Queued <=> \E i \in 1..L : c = queue[i]
    BY <1>6, ZenonT(30) DEF Queued
  <2>3. \A i \in 1..L : i \in 1..(L + n)
    BY <1>2, <1>6
  <2>4. ASSUME NEW c \in A PROVE \E i \in 1..(L + n) : c = queue'[i]
    <3>1. /\ c - nAdded \in 1..n /\ nAdded + (c - nAdded) = c
          /\ L + (c - nAdded) \in 1..(L + n)
      BY <1>2, <1>6
    <3>2. queue'[L + (c - nAdded)] = nAdded + (c - nAdded)
      BY <3>1, <1>8, ZenonT(30)
    <3> QED BY <3>1, <3>2, ZenonT(30)
  <2> HIDE DEF A
  <2>5. ASSUME NEW c \in Queued' PROVE c \in Queued \cup A
    BY <2>1, <2>2, <1>9, ZenonT(30)
  <2>6. ASSUME NEW c \in Queued PROVE c \in Queued'
    BY <2>1, <2>2, <2>3, <1>8, ZenonT(30)
  <2> QED BY <2>1, <2>4, <2>5, <2>6, ZenonT(30)
<1>12. A \cap (1..nAdded) = {} /\ A \subseteq 1..nAdded' /\ 1..nAdded \subseteq 1..nAdded'
  BY <1>1, <1>2
<1>13. Outstanding \subseteq 1..nAdded /\ Outstanding' = Outstanding \cup A
  <2> HIDE DEF A
  <2>1. \A c : c \in Outstanding <=> c \in Queued \/ \E u \in Threads : c \in InFlight(u)
    BY ZenonT(30) DEF Outstanding, Batches
  <2>2. \A c : c \in Outstanding' <=>
          c \in 1..nAdded' /\ (c \in Queued' \/ \E u \in Threads : c \in InFlight(u)')
    BY Zenon DEF Outstanding
  <2>3. Outstanding \subseteq 1..nAdded
    BY Zenon DEF Outstanding
  <2>4. ASSUME NEW c PROVE c \in Outstanding' <=> c \in Outstanding \cup A
    <3>1. c \in Outstanding \cup A => c \in 1..nAdded'
      BY <2>3, <1>12, ZenonT(30)
    <3> QED BY <3>1, <2>1, <2>2, <1>5, <1>11, ZenonT(30)
  <2> QED BY <2>3, <2>4, ZenonT(30)
<1>14. Cardinality(Outstanding') = nTodo + n
  <2>1. IsFiniteSet(A) /\ Cardinality(A) = n
    <3>1. /\ IsFiniteSet(A)
          /\ Cardinality(A) = IF nAdded + 1 > nAdded + n THEN 0 ELSE (nAdded + n) - (nAdded + 1) + 1
      BY <1>2, FS_Interval
    <3> HIDE DEF A
    <3> QED BY SMTT(30), <3>1, <1>2
  <2> HIDE DEF A
  <2>2. Outstanding \cap A = {}
    BY Zenon, <1>12, <1>13
  <2>3. Cardinality(Outstanding \cup A) =
          Cardinality(Outstanding) + Cardinality(A) - Cardinality(Outstanding \cap A)
    BY <2>1, Finite, FS_Union, ZenonT(30)
  <2>4. nTodo = Cardinality(Outstanding) /\ Cardinality({}) = 0
    BY Zenon, FS_EmptySet DEF Counters
  <2> QED BY SMTT(30), <2>1, <2>2, <2>3, <2>4, <1>2, <1>13
<1>15. \A u \in Threads : /\ pc'[u] \in IdlePCs <=> pc[u] \in IdlePCs
                          /\ pc'[u] \in BusyPCs <=> pc[u] \in BusyPCs
                          /\ pc'[u] = "ran" <=> pc[u] = "ran"
  BY Zenon, <1>4 DEF IdlePCs, BusyPCs
<1>16. Idle' = Idle /\ Inside' = Inside
  BY Zenon, <1>15 DEF Idle, Inside
<1>17. pc'[Master] = "adding"
  BY Zenon, <1>1, <1>3, <1>4
<1>18. B \subseteq A /\ bad' \subseteq 1..nAdded'
  BY ZenonT(30), <1>1, <1>12 DEF Batches
<1> HIDE DEF A
<1>19. TypeOK'
  <2>1. nAdded' \in 0..MaxChecks /\ nTodo' \in Nat
    BY SMTT(30), <1>1, <1>2
  <2>2. bad' \subseteq 1..MaxChecks
    <3>1. 1..nAdded' \subseteq 1..MaxChecks
      BY SMTT(30), <2>1, <1>2
    <3> QED BY <3>1, <1>18, ZenonT(30)
  <2> QED BY Zenon, <2>1, <2>2, <1>1, <1>4, <1>8 DEF TypeOK
<1>20. Batches'
  <2>1. Queued' \subseteq 1..nAdded'
    BY Zenon, <1>11, <1>12 DEF Batches
  <2>2. ASSUME NEW u \in Threads
        PROVE  /\ InFlight(u)' \subseteq 1..nAdded'
               /\ vChecks'[u] = <<>> <=> pc'[u] \notin BusyPCs
               /\ Injective(vChecks'[u])
    BY Zenon, <1>1, <1>5, <1>12, <1>15 DEF Batches
  <2> QED BY ZenonT(30), <2>1, <2>2, <1>18 DEF Batches
<1>21. EachCheckHeldOnce'
  <2>1. ASSUME NEW u \in Threads PROVE InFlight(u)' \cap Queued' = {}
    BY Zenon, <1>5, <1>11, <1>12 DEF Batches, EachCheckHeldOnce
  <2>2. \A u, v \in Threads : u # v => InFlight(u)' \cap InFlight(v)' = {}
    BY Zenon, <1>5 DEF EachCheckHeldOnce
  <2> QED BY <2>1, <2>2, <1>8, <1>10, ZenonT(30) DEF EachCheckHeldOnce
<1>22. Counters'
  BY <1>1, <1>14, <1>16, ZenonT(30) DEF Counters
<1>23. Round'
  <2>1. Tells(fAllOk, Outstanding)
    BY Zenon, <1>1 DEF Round
  <2>2. Tells(fAllOk, Outstanding)'
    BY Zenon, <2>1, <1>1, <1>13, <1>18 DEF Tells
  <2> QED BY Zenon, <2>2, <1>17 DEF Round
<1>24. Results'
  <2> SUFFICES ASSUME NEW u \in Threads
               PROVE  /\ pc'[u] \in BusyPCs /\ ~fOk'[u] => bad' # {}
                      /\ pc'[u] = "ran" /\ InFlight(u)' \cap bad' # {} => ~fOk'[u]
    BY ZenonT(30) DEF Results
  <2>1. InFlight(u)' \cap bad' = InFlight(u) \cap bad
    BY Zenon, <1>1, <1>5, <1>12, <1>18 DEF Batches
  <2>2. bad # {} => bad' # {}
    BY Zenon, <1>1
  <2> QED BY <2>1, <2>2, <1>1, <1>15, ZenonT(30) DEF Results
<1> QED BY Zenon, <1>19, <1>20, <1>21, <1>22, <1>23, <1>24


(* A step that leaves the variables alone.                                 *)
LEMMA StutterStep ==
    ASSUME Inv, UNCHANGED vars
    PROVE  Inv'
<1> USE DEF Inv
<1>1. /\ queue' = queue /\ nIdle' = nIdle /\ nTotal' = nTotal /\ fAllOk' = fAllOk
      /\ nTodo' = nTodo /\ vChecks' = vChecks /\ nAdded' = nAdded /\ bad' = bad
      /\ fRet' = fRet /\ fOk' = fOk /\ pc' = pc
  BY Zenon DEF vars
<1>2. Queued' = Queued /\ \A u \in Threads : InFlight(u)' = InFlight(u)
  BY <1>1, ZenonT(30) DEF Queued, InFlight
<1>3. Outstanding' = Outstanding
  BY Zenon, <1>1, <1>2 DEF Outstanding
<1>4. Idle' = Idle /\ Inside' = Inside
  BY Zenon, <1>1 DEF Idle, Inside
<1>5. TypeOK'
  BY Zenon, <1>1 DEF TypeOK
<1>6. Batches' /\ EachCheckHeldOnce'
  BY <1>1, <1>2, ZenonT(30) DEF Batches, EachCheckHeldOnce
<1>7. Counters' /\ Round'
  BY <1>1, <1>3, <1>4, ZenonT(30) DEF Counters, Round, Tells
<1>8. Results'
  BY <1>1, <1>2, ZenonT(30) DEF Results
<1> QED BY Zenon, <1>5, <1>6, <1>7, <1>8

(* The invariant holds before any thread has started.                      *)
LEMMA Initially == Init => Inv
<1> SUFFICES ASSUME Init PROVE Inv
  BY Zenon
<1> USE DEF Init
<1>1. \A t \in Threads : pc[t] = "out" /\ vChecks[t] = <<>> /\ fOk[t]
  BY Zenon
<1>2. Master \in Threads
  BY Zenon DEF Threads
<1>3. Queued = {} /\ \A t \in Threads : InFlight(t) = {}
  BY <1>1 DEF Queued, InFlight
<1>4. Outstanding = {} /\ Idle = {} /\ Inside = {}
  BY SMTT(30), <1>1 DEF Outstanding, Idle, Inside, IdlePCs, BusyPCs
<1>5. TypeOK
  BY CheckQueueAssumption DEF TypeOK, PCs
<1>6. Batches
  BY SMTT(30), <1>1, <1>3 DEF Batches, BusyPCs, Injective
<1>7. EachCheckHeldOnce
  BY <1>3 DEF EachCheckHeldOnce
<1>8. Counters
  BY Zenon, <1>4, FS_EmptySet DEF Counters
<1>9. Round
  BY Zenon, <1>1, <1>2, <1>4 DEF Round
<1>10. Results
  BY Zenon, <1>1 DEF Results, BusyPCs
<1> QED BY Zenon, <1>5, <1>6, <1>7, <1>8, <1>9, <1>10 DEF Inv

(* Every step preserves the invariant.                                     *)
LEMMA Preserved == Inv /\ [Next]_vars => Inv'
<1> SUFFICES ASSUME Inv, [Next]_vars PROVE Inv'
  BY Zenon
<1>1. ASSUME NEW t \in Threads, Loop(t) PROVE Inv'
  BY <1>1, EnterStep, CleanUpStep, ResumeStep, ExecuteStep, ZenonT(30) DEF Loop
<1>2. CASE \/ \E t \in Threads : SpuriousWake(t)
           \/ \E w \in Workers : StartWorker(w) \/ Interrupt(w)
           \/ Wait
  BY <1>2, MoveSteps, ZenonT(30)
<1>3. CASE NewControl
  BY Zenon, <1>3, NewControlStep
<1>4. ASSUME NEW n \in 1..MaxChecks, NEW B \in SUBSET ((nAdded + 1)..(nAdded + n)), Add(n, B)
      PROVE  Inv'
  BY <1>4, AddStep, ZenonT(30)
<1>5. CASE UNCHANGED vars
  BY Zenon, <1>5, StutterStep
<1> QED BY <1>1, <1>2, <1>3, <1>4, <1>5, ZenonT(30) DEF Next

-----------------------------------------------------------------------------
(* The theorems.                                                           *)

(* The counters of CCheckQueue count idle threads, threads and unfinished  *)
(* checks, and a failing check is unfinished or recorded, whatever the     *)
(* number of threads and however batches, wake-ups and interrupts fall.    *)
THEOREM Invariance == Spec => []Inv
<1>1. Init => Inv
  BY Zenon, Initially
<1>2. Inv /\ [Next]_vars => Inv'
  BY Zenon, Preserved
<1> QED BY <1>1, <1>2, PTL DEF Spec

(* The assertion IsIdle() of CCheckQueueControl's constructor holds, and   *)
(* no thread holds a check of a round that is over, for any number of      *)
(* worker threads and any batch size.                                      *)
THEOREM QueueIdle == Spec => []IdleBetweenRounds
<1>1. Inv => IdleBetweenRounds
  <2> SUFFICES ASSUME Inv, pc[Master] = "out"
               PROVE  IsIdle /\ queue = <<>> /\ \A t \in Threads : vChecks[t] = <<>>
    BY ZenonT(30) DEF IdleBetweenRounds
  <2> USE DEF Inv
  <2>1. Outstanding = {} /\ fAllOk
    BY Zenon DEF Round
  <2>2. Queued = {} /\ \A t \in Threads : InFlight(t) = {}
    BY Zenon, <2>1 DEF Outstanding, Batches
  <2>3. queue = <<>>
    <3> SUFFICES ASSUME queue # <<>> PROVE FALSE
      BY Zenon
    <3>1. 1 \in DOMAIN queue
      BY DEF TypeOK
    <3> QED BY <3>1, <2>2, ZenonT(30) DEF Queued
  <2>4. ASSUME NEW t \in Threads, vChecks[t] # <<>> PROVE FALSE
    <3>1. vChecks[t] \in Seq(1..MaxChecks)
      BY Zenon DEF TypeOK
    <3>2. 1 \in DOMAIN vChecks[t]
      BY <2>4, <3>1
    <3> QED BY <3>2, <2>2, ZenonT(30) DEF InFlight
  <2>5. \A t \in Threads : pc[t] \notin BusyPCs
    BY Zenon, <2>4 DEF Batches
  <2>6. Inside = Idle
    BY Zenon, <2>5 DEF Inside, Idle
  <2>7. nTodo = 0 /\ nTotal = nIdle
    BY Zenon, <2>1, <2>6, FS_EmptySet DEF Counters
  <2> QED BY Zenon, <2>1, <2>3, <2>4, <2>7 DEF IsIdle
<1> QED BY <1>1, Invariance, PTL

(* What Wait() returns is the conjunction of all checks of the round, for  *)
(* any number of worker threads and any split into batches.                *)
THEOREM ResultCorrect == Spec => []ResultIsConjunction
<1>1. Inv => ResultIsConjunction
  BY Zenon DEF Inv, Round, ResultIsConjunction
<1> QED BY <1>1, Invariance, PTL

(* No check is in the hands of two threads, or of a thread and the queue.  *)
THEOREM ChecksHeldOnce == Spec => []EachCheckHeldOnce
<1>1. Inv => EachCheckHeldOnce
  BY Zenon DEF Inv
<1> QED BY <1>1, Invariance, PTL
=============================================================================
