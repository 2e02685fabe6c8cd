-------------------------- MODULE ProofStats_proofs --------------------------
(***************************************************************************)
(* Theorems about ProofStats, for any number of threads, proofs and steps. *)
(* That what a proof reports never falls from one proof to the next is not *)
(* inductive by itself: while the lock is held, what has been copied so    *)
(* far is between what the proofs before report and what the counters say. *)
(***************************************************************************)
EXTENDS ProofStats, TLAPS, FiniteSetTheorems

\* Who copies holds the lock.
CopiesLocked == \A t \in Threads : pc[t] = "copy" => lock = t

\* What is copied is at most what the counters say, and at least what the
\* proofs recorded so far report.
CopiesBetween ==
    \A t \in Threads : \A f \in Fields :
        (pc[t] = "copy" /\ f \notin todo[t]) =>
            /\ copy[t][f] <= stats[f]
            /\ \A i \in DOMAIN recorded : recorded[i][f] <= copy[t][f]

\* The discarded proofs are counted in the shared counters alone, and with the
\* lock held.
DiscardsCounted ==
    /\ leaves = (IF Len(recorded) > MaxProofs THEN MaxProofs ELSE Len(recorded))
    /\ stats["discarded_proofs"] = Len(recorded) - leaves
    /\ \A t \in Threads :
          /\ local[t]["discarded_proofs"] = 0
          /\ (pc[t] = "copy" /\ "discarded_proofs" \notin todo[t]) =>
                copy[t]["discarded_proofs"] = stats["discarded_proofs"]

IInv ==
    /\ TypeOK /\ CopiesLocked /\ CopiesBetween /\ LaterReportsMore
    /\ DiscardsCounted /\ DiscardsAreExact
-----------------------------------------------------------------------------
\* An addition keeps a counter a number and never lowers it.
LEMMA MergedGrows ==
    ASSUME NEW f \in Fields, NEW old \in Nat, NEW new \in Nat
    PROVE  Merged(f, old, new) \in Nat /\ old <= Merged(f, old, new)
BY DEF Merged

LEMMA AllMergedType ==
    ASSUME NEW old \in Stats, NEW new \in Stats
    PROVE  AllMerged(old, new) \in Stats
<1>1. \A f \in Fields : Merged(f, old[f], new[f]) \in Nat
  BY MergedGrows DEF Stats
<1> QED
  BY <1>1 DEF AllMerged, Stats

LEMMA NoStatsType == NoStats \in Stats
BY DEF NoStats, Stats
-----------------------------------------------------------------------------
\* In the initial states nothing is counted and nobody copies.
LEMMA InitIInv == Init => IInv
<1> SUFFICES ASSUME Init PROVE IInv
  OBVIOUS
<1> USE DEF Init
<1>1. TypeOK
  BY NoStatsType, StatsAssumption DEF TypeOK
<1>2. CopiesLocked /\ CopiesBetween
  BY DEF CopiesLocked, CopiesBetween
<1>3. LaterReportsMore /\ DiscardsAreExact
  BY DEF LaterReportsMore, DiscardsAreExact
<1>4. DiscardsCounted
  BY StatsAssumption DEF DiscardsCounted, NoStats, Fields, Counted
<1> QED
  BY <1>1, <1>2, <1>3, <1>4 DEF IInv
-----------------------------------------------------------------------------
(***************************************************************************)
(* One lemma for every action.                                             *)
(***************************************************************************)
LEMMA SearchStepIInv ==
    ASSUME IInv, NEW t \in Threads, SearchStep(t) PROVE IInv'
<1> USE DEF SearchStep
<1>1. PICK s \in StepStats :
        /\ local' = [local EXCEPT ![t] = AllMerged(@, s)]
        /\ reported' = [steps |-> reported.steps + 1,
                        stats |-> AllMerged(reported.stats, s)]
  OBVIOUS
<1>2. s \in Stats /\ s["discarded_proofs"] = 0
  BY StatsAssumption
<1>3. TypeOK'
  BY <1>1, <1>2, AllMergedType DEF IInv, TypeOK
<1>4. CopiesLocked' /\ CopiesBetween' /\ LaterReportsMore' /\ DiscardsAreExact'
  BY DEF IInv, CopiesLocked, CopiesBetween, LaterReportsMore, AtMost, DiscardsAreExact
<1>5. AllMerged(local[t], s)["discarded_proofs"] = 0
  BY <1>2 DEF IInv, DiscardsCounted, AllMerged, Merged, Fields, Counted
<1>6. DiscardsCounted'
  BY <1>1, <1>5 DEF IInv, TypeOK, DiscardsCounted
<1> QED
  BY <1>3, <1>4, <1>6 DEF IInv

LEMMA BeginRecordIInv ==
    ASSUME IInv, NEW t \in Threads, BeginRecord(t) PROVE IInv'
<1> USE DEF BeginRecord, Go
<1>1. TypeOK'
  BY DEF IInv, TypeOK
<1>2. CopiesLocked'
  BY StatsAssumption DEF IInv, TypeOK, CopiesLocked, Unlocked
<1>3. CopiesBetween'
  BY DEF IInv, TypeOK, CopiesBetween
<1>4. LaterReportsMore' /\ DiscardsAreExact'
  BY DEF IInv, LaterReportsMore, AtMost, DiscardsAreExact
<1>5. DiscardsCounted'
  BY DEF IInv, TypeOK, DiscardsCounted, Fields, Counted
<1> QED
  BY <1>1, <1>2, <1>3, <1>4, <1>5 DEF IInv

LEMMA LoadIInv ==
    ASSUME IInv, NEW t \in Threads, Load(t) PROVE IInv'
<1> USE DEF Load, Go
<1>1. PICK f \in todo[t] :
        /\ copy' = [copy EXCEPT ![t][f] = stats[f]]
        /\ pc' = [pc EXCEPT ![t] = "copy"]
        /\ todo' = [todo EXCEPT ![t] = todo[t] \ {f}]
  OBVIOUS
<1>2. f \in Fields /\ stats[f] \in Nat
  BY <1>1 DEF IInv, TypeOK, Stats
<1>3. TypeOK'
  BY <1>1, <1>2 DEF IInv, TypeOK, Stats
<1>4. CopiesLocked'
  BY <1>1 DEF IInv, TypeOK, CopiesLocked
<1>5. CopiesBetween'
  <2> SUFFICES ASSUME NEW u \in Threads, NEW h \in Fields,
                      (pc[u] = "copy" /\ h \notin todo[u])'
               PROVE  /\ copy'[u][h] <= stats[h]
                      /\ \A i \in DOMAIN recorded : recorded[i][h] <= copy'[u][h]
    BY DEF CopiesBetween
  <2>1. CASE u = t /\ h = f
    <3>1. copy'[u][h] = stats[f]
      BY <1>1, <1>2, <2>1 DEF IInv, TypeOK, Stats
    <3> QED
      BY <3>1, <1>2, <2>1 DEF IInv, LaterReportsMore, AtMost
  <2>2. CASE ~ (u = t /\ h = f)
    <3>1. copy'[u][h] = copy[u][h] /\ pc[u] = "copy" /\ h \notin todo[u]
      BY <1>1, <1>2, <2>2 DEF IInv, TypeOK, Stats
    <3> QED
      BY <3>1 DEF IInv, CopiesBetween
  <2> QED
    BY <2>1, <2>2
<1>6. LaterReportsMore' /\ DiscardsAreExact'
  BY DEF IInv, LaterReportsMore, AtMost, DiscardsAreExact
<1>7. DiscardsCounted'
  <2> SUFFICES ASSUME NEW u \in Threads,
                      (pc[u] = "copy" /\ "discarded_proofs" \notin todo[u])'
               PROVE  copy'[u]["discarded_proofs"] = stats["discarded_proofs"]
    BY DEF IInv, DiscardsCounted
  <2>1. CASE u = t /\ f = "discarded_proofs"
    BY <1>1, <1>2, <2>1 DEF IInv, TypeOK, Stats
  <2>2. CASE ~ (u = t /\ f = "discarded_proofs")
    <3>1. /\ copy'[u]["discarded_proofs"] = copy[u]["discarded_proofs"]
          /\ pc[u] = "copy" /\ "discarded_proofs" \notin todo[u]
      BY <1>1, <1>2, <2>2 DEF IInv, TypeOK, Stats
    <3> QED
      BY <3>1 DEF IInv, DiscardsCounted
  <2> QED
    BY <2>1, <2>2
<1> QED
  BY <1>3, <1>4, <1>5, <1>6, <1>7 DEF IInv

LEMMA EndRecordIInv ==
    ASSUME IInv, NEW t \in Threads, EndRecord(t) PROVE IInv'
<1> DEFINE n == Len(recorded)
<1>1. /\ pc[t] = "copy" /\ todo[t] = {}
      /\ recorded' = Append(recorded, copy[t])
      /\ pc' = [pc EXCEPT ![t] = "search"] /\ todo' = [todo EXCEPT ![t] = {}]
      /\ copy' = [copy EXCEPT ![t] = NoStats] /\ lock' = NoThread
      /\ UNCHANGED <<local, reported>>
  BY DEF EndRecord, Go
<1>2. /\ Full => /\ stats' = [stats EXCEPT !["discarded_proofs"] = @ + 1]
                 /\ leaves' = leaves
      /\ ~ Full => leaves' = leaves + 1 /\ stats' = stats
  BY DEF EndRecord
<1>3. /\ n \in Nat /\ n' = n + 1 /\ copy[t] \in Stats /\ recorded \in Seq(Stats)
      /\ DOMAIN recorded = 1 .. n /\ DOMAIN recorded' = 1 .. n + 1
      /\ recorded'[n + 1] = copy[t]
      /\ \A i \in 1 .. n : recorded'[i] = recorded[i]
  BY <1>1 DEF IInv, TypeOK
<1>4. /\ leaves = (IF n > MaxProofs THEN MaxProofs ELSE n)
      /\ stats["discarded_proofs"] = n - leaves
  BY DEF IInv, DiscardsCounted
<1>5. "discarded_proofs" \in Fields
  BY DEF Fields, Counted
<1>6. \A f \in Fields : stats[f] \in Nat
  BY DEF IInv, TypeOK, Stats
<1>7. stats' \in Stats /\ \A f \in Fields : stats[f] <= stats'[f]
  <2>1. CASE Full
    <3>1. stats' = [stats EXCEPT !["discarded_proofs"] = stats["discarded_proofs"] + 1]
      BY <1>2, <2>1
    <3>2. stats \in [Fields -> Nat]
      BY DEF IInv, TypeOK, Stats
    <3> QED
      BY ONLY <1>5, <3>1, <3>2 DEF Stats
  <2>2. CASE ~ Full
    BY <1>6, <1>2, <2>2 DEF IInv, TypeOK
  <2> QED
    BY <2>1, <2>2
<1>8. \A f \in Fields : stats[f] \in Nat /\ stats'[f] \in Nat /\ stats[f] <= stats'[f]
  BY <1>6, <1>7 DEF Stats
<1>9. MaxProofs \in Nat /\ leaves \in 0 .. MaxProofs
  BY StatsAssumption DEF IInv, TypeOK
<1>10. TypeOK'
  <2>1. stats' \in Stats
    BY <1>7
  <2>2. leaves' \in 0 .. MaxProofs
    BY <1>2, <1>9 DEF Full
  <2> QED
    BY <2>1, <2>2, <1>1, <1>3, NoStatsType DEF IInv, TypeOK
<1>11. CopiesLocked'
  <2> SUFFICES ASSUME NEW u \in Threads, pc'[u] = "copy" PROVE FALSE
    BY DEF CopiesLocked
  <2>1. u # t /\ pc[u] = "copy"
    BY <1>1 DEF IInv, TypeOK
  <2> QED
    BY <2>1, <1>1 DEF IInv, CopiesLocked
<1>12. \A u \in Threads : pc'[u] # "copy"
  BY <1>1, <1>11, StatsAssumption DEF CopiesLocked
<1>13. CopiesBetween'
  BY <1>12 DEF CopiesBetween
<1>14. \A f \in Fields :
        /\ copy[t][f] <= stats[f]
        /\ \A i \in 1 .. n : recorded[i][f] <= copy[t][f]
  BY <1>1, <1>3 DEF IInv, CopiesBetween
<1>15. LaterReportsMore'
  <2>1. ASSUME NEW i \in 1 .. n + 1, NEW j \in 1 .. n + 1, i <= j
        PROVE  AtMost(recorded'[i], recorded'[j])
    <3>1. CASE j <= n
      BY <1>3, <2>1, <3>1 DEF IInv, LaterReportsMore
    <3>2. CASE i <= n /\ j = n + 1
      BY <1>3, <1>14, <3>2 DEF AtMost
    <3>3. CASE i = n + 1 /\ j = n + 1
      BY <1>3, <3>3 DEF AtMost, Stats
    <3> QED
      BY <1>3, <2>1, <3>1, <3>2, <3>3
  <2>2. ASSUME NEW i \in 1 .. n + 1
        PROVE  AtMost(recorded'[i], stats')
    <3>1. AtMost(recorded'[i], recorded'[n + 1])
      BY <1>3, <2>1
    <3>2. \A f \in Fields : recorded'[i][f] \in Nat /\ copy[t][f] \in Nat
      BY <1>3, <1>10 DEF TypeOK, Stats
    <3> QED
      BY <1>3, <1>8, <1>14, <3>1, <3>2 DEF AtMost
  <2> QED
    BY <1>3, <2>1, <2>2 DEF LaterReportsMore
<1>16. n \in Nat /\ n' = n + 1
  BY <1>3
<1> HIDE DEF n
<1>17. /\ leaves' = (IF n + 1 > MaxProofs THEN MaxProofs ELSE n + 1)
       /\ stats'["discarded_proofs"] = n + 1 - leaves'
  <2>1. "discarded_proofs" \in Fields
    BY <1>5
  <2>3. CASE n >= MaxProofs
    <3>1. leaves = MaxProofs /\ Full
      BY <1>4, <2>3, <1>16, <1>9 DEF Full
    <3>2. leaves' = leaves /\ stats'["discarded_proofs"] = stats["discarded_proofs"] + 1
      BY <3>1, <1>2, <2>1 DEF IInv, TypeOK, Stats
    <3> QED
      BY <3>1, <3>2, <1>4, <2>3, <1>16, <1>9
  <2>4. CASE ~ (n >= MaxProofs)
    <3>1. leaves = n /\ ~ Full
      BY <1>4, <2>4, <1>16, <1>9 DEF Full
    <3>2. leaves' = n + 1 /\ stats' = stats
      BY <3>1, <1>2
    <3> QED
      BY <3>1, <3>2, <1>4, <2>4, <1>16, <1>9
  <2> QED
    BY <2>3, <2>4
<1>18. DiscardsCounted'
  <2>1. local' = local /\ Len(recorded') = n + 1
    BY <1>1, <1>3
  <2>2. \A u \in Threads : local[u]["discarded_proofs"] = 0
    BY DEF IInv, DiscardsCounted
  <2>3. /\ leaves' = (IF Len(recorded') > MaxProofs THEN MaxProofs ELSE Len(recorded'))
        /\ stats'["discarded_proofs"] = Len(recorded') - leaves'
    BY ONLY <2>1, <1>17, <1>16, <1>9
  <2>4. \A u \in Threads :
          /\ local'[u]["discarded_proofs"] = 0
          /\ (pc'[u] = "copy" /\ "discarded_proofs" \notin todo'[u]) =>
                copy'[u]["discarded_proofs"] = stats'["discarded_proofs"]
    BY ONLY <2>1, <2>2, <1>12
  <2> QED
    BY ONLY <2>3, <2>4 DEF DiscardsCounted
<1>19. DiscardsAreExact'
  <2>1. copy[t]["discarded_proofs"] = (IF n > MaxProofs THEN n - MaxProofs ELSE 0)
    <3>1. copy[t]["discarded_proofs"] = stats["discarded_proofs"]
      BY <1>1 DEF IInv, DiscardsCounted
    <3> QED
      BY ONLY <3>1, <1>4, <1>16, <1>9
  <2> SUFFICES ASSUME NEW i \in 1 .. n + 1
               PROVE  recorded'[i]["discarded_proofs"] =
                        (IF i - 1 > MaxProofs THEN i - 1 - MaxProofs ELSE 0)
    BY <1>3 DEF DiscardsAreExact
  <2>2. CASE i <= n
    BY <1>3, <2>2 DEF IInv, DiscardsAreExact
  <2>3. CASE i = n + 1
    BY <1>3, <2>1, <2>3
  <2> QED
    BY <1>3, <2>2, <2>3
<1> QED
  BY <1>10, <1>11, <1>13, <1>15, <1>18, <1>19 DEF IInv

LEMMA AddToIInv ==
    ASSUME IInv, NEW t \in Threads, AddTo(t) PROVE IInv'
<1>1. PICK f \in todo[t] :
        /\ stats' = [stats EXCEPT ![f] = Synced(f, @, local[t][f])]
        /\ pc' = [pc EXCEPT ![t] = "sync"]
        /\ todo' = [todo EXCEPT ![t] = todo[t] \ {f}]
  BY DEF AddTo, Go
<1>2. pc[t] = "sync" /\ UNCHANGED <<local, copy, lock, leaves, recorded, reported>>
  BY DEF AddTo
<1>3. f \in Fields /\ stats[f] \in Nat /\ local[t][f] \in Nat
  BY <1>1 DEF IInv, TypeOK, Stats
<1>4. stats'[f] \in Nat /\ stats[f] <= stats'[f]
  BY <1>1, <1>3, MergedGrows DEF IInv, TypeOK, Stats, Synced
<1>5. \A h \in Fields : h # f => stats'[h] = stats[h]
  BY <1>1 DEF IInv, TypeOK, Stats
<1>6. TypeOK'
  <2>1. stats' \in Stats
    BY <1>1, <1>3, <1>4 DEF IInv, TypeOK, Stats
  <2> QED
    BY <2>1, <1>1, <1>2 DEF IInv, TypeOK
<1>7. CopiesLocked'
  <2>1. \A u \in Threads : pc'[u] = "copy" => pc[u] = "copy"
    BY <1>1, <1>2 DEF IInv, TypeOK
  <2> QED
    <3>1. lock' = lock /\ CopiesLocked
      BY <1>2 DEF IInv
    <3> QED
      BY ONLY <2>1, <3>1 DEF CopiesLocked
<1>8. \A h \in Fields : stats[h] \in Nat /\ stats'[h] \in Nat /\ stats[h] <= stats'[h]
  <2>1. \A h \in Fields : stats[h] \in Nat
    BY DEF IInv, TypeOK, Stats
  <2> QED
    BY ONLY <2>1, <1>4, <1>5
<1>9. \A u \in Threads : pc'[u] = "copy" =>
          pc[u] = "copy" /\ todo'[u] = todo[u] /\ copy'[u] = copy[u]
  BY <1>1, <1>2 DEF IInv, TypeOK
<1>10. CopiesBetween'
  <2> SUFFICES ASSUME NEW u \in Threads, NEW h \in Fields,
                      pc[u] = "copy", h \notin todo[u]
               PROVE  /\ copy[u][h] <= stats'[h]
                      /\ \A i \in DOMAIN recorded : recorded[i][h] <= copy[u][h]
    BY <1>2, <1>9 DEF CopiesBetween
  <2>1. copy[u][h] \in Nat /\ copy[u][h] <= stats[h]
    BY DEF IInv, TypeOK, Stats, CopiesBetween
  <2> QED
    BY <2>1, <1>8 DEF IInv, CopiesBetween
<1>11. LaterReportsMore'
  <2>1. ASSUME NEW i \in DOMAIN recorded PROVE AtMost(recorded[i], stats')
    <3>1. \A h \in Fields : recorded[i][h] \in Nat /\ recorded[i][h] <= stats[h]
      BY <2>1 DEF IInv, TypeOK, Stats, LaterReportsMore, AtMost
    <3> QED
      BY <3>1, <1>8 DEF AtMost
  <2> QED
    BY <2>1, <1>2 DEF IInv, LaterReportsMore
<1>12. DiscardsAreExact'
  BY <1>2 DEF IInv, DiscardsAreExact
<1>13. stats'["discarded_proofs"] = stats["discarded_proofs"]
  <2>1. CASE f = "discarded_proofs"
    <3>1. local[t][f] = 0
      BY <2>1 DEF IInv, DiscardsCounted
    <3> QED
      BY <3>1, <2>1, <1>1, <1>3 DEF IInv, TypeOK, Stats, Synced, Merged, Counted
  <2>2. CASE f # "discarded_proofs"
    BY <2>2, <1>5 DEF Fields, Counted
  <2> QED
    BY <2>1, <2>2
<1>14. DiscardsCounted'
  BY <1>2, <1>9, <1>13 DEF IInv, DiscardsCounted
<1> QED
  BY <1>6, <1>7, <1>10, <1>11, <1>12, <1>14 DEF IInv

\* The steps that touch neither the counters nor a copy.
LEMMA QuietIInv ==
    ASSUME IInv, NEW t \in Threads, BeginSync(t) \/ EndSync(t) \/ Leave(t)
    PROVE  IInv'
<1>1. /\ pc[t] # "copy" /\ pc'[t] # "copy"
      /\ UNCHANGED <<stats, copy, lock, leaves, recorded, reported>>
      /\ \A u \in Threads \ {t} : pc'[u] = pc[u] /\ todo'[u] = todo[u]
  BY DEF BeginSync, EndSync, Leave, Go, IInv, TypeOK
<1>2. local' = local \/ local' = [local EXCEPT ![t] = NoStats]
  BY DEF BeginSync, EndSync, Leave
<1>3. TypeOK'
  <2>1. local' \in [Threads -> Stats]
    BY <1>2, NoStatsType DEF IInv, TypeOK
  <2>2. /\ pc' \in [Threads -> {"search", "copy", "sync", "through"}]
        /\ todo' \in [Threads -> SUBSET Fields]
    BY DEF BeginSync, EndSync, Leave, Go, IInv, TypeOK
  <2> QED
    BY <1>1, <2>1, <2>2 DEF IInv, TypeOK
<1>4. CopiesLocked' /\ CopiesBetween'
  BY <1>1 DEF IInv, CopiesLocked, CopiesBetween
<1>5. LaterReportsMore' /\ DiscardsAreExact'
  BY <1>1 DEF IInv, LaterReportsMore, DiscardsAreExact
<1>6. \A u \in Threads : local'[u]["discarded_proofs"] = 0
  <2>1. NoStats["discarded_proofs"] = 0
    BY DEF NoStats, Fields, Counted
  <2> QED
    BY <2>1, <1>2 DEF IInv, TypeOK, DiscardsCounted
<1>7. DiscardsCounted'
  BY <1>1, <1>6 DEF IInv, DiscardsCounted
<1> QED
  BY <1>3, <1>4, <1>5, <1>7 DEF IInv
-----------------------------------------------------------------------------
LEMMA NextIInv == IInv /\ [Next]_vars => IInv'
<1> SUFFICES ASSUME IInv, [Next]_vars PROVE IInv'
  OBVIOUS
<1>1. ASSUME NEW t \in Threads, SearchStep(t) PROVE IInv'
  BY <1>1, SearchStepIInv
<1>2. ASSUME NEW t \in Threads, BeginRecord(t) PROVE IInv'
  BY <1>2, BeginRecordIInv
<1>3. ASSUME NEW t \in Threads, Load(t) PROVE IInv'
  BY <1>3, LoadIInv
<1>4. ASSUME NEW t \in Threads, EndRecord(t) PROVE IInv'
  BY <1>4, EndRecordIInv
<1>5. ASSUME NEW t \in Threads, AddTo(t) PROVE IInv'
  BY <1>5, AddToIInv
<1>6. ASSUME NEW t \in Threads, BeginSync(t) \/ EndSync(t) \/ Leave(t) PROVE IInv'
  BY <1>6, QuietIInv
<1>7. CASE UNCHANGED vars
  BY <1>7 DEF vars, IInv, TypeOK, CopiesLocked, CopiesBetween, LaterReportsMore,
              AtMost, DiscardsCounted, DiscardsAreExact
<1> QED
  BY <1>1, <1>2, <1>3, <1>4, <1>5, <1>6, <1>7 DEF Next, Finished

LEMMA SpecIInv == Spec => []IInv
BY InitIInv, NextIInv, PTL DEF Spec
-----------------------------------------------------------------------------
\* The counters, the copies and the local statistics stay numbers, and never
\* more leaf proofs are kept than asked for.
THEOREM TypeCorrect == Spec => []TypeOK
<1>1. IInv => TypeOK
  BY DEF IInv
<1> QED
  BY <1>1, SpecIInv, PTL

\* What the proofs report never falls from one recorded proof to the next, nor
\* above what the counters say, however the threads interleave.
THEOREM ReportsGrow == Spec => []LaterReportsMore
<1>1. IInv => LaterReportsMore
  BY DEF IInv
<1> QED
  BY <1>1, SpecIInv, PTL

\* Of the discarded proofs, which are counted under the lock, every proof
\* reports exactly those before it.
THEOREM DiscardsExact == Spec => []DiscardsAreExact
<1>1. IInv => DiscardsAreExact
  BY DEF IInv
<1> QED
  BY <1>1, SpecIInv, PTL
-----------------------------------------------------------------------------
(***************************************************************************)
(* That nothing is lost.  What has been reported and is not in a shared    *)
(* counter is still to be added by some thread: for a number that counts,  *)
(* the sum of what the threads have yet to add is missing, for a greatest  *)
(* number, one of them has it.  The sum is the number of units the threads *)
(* have between them, so that no addition over threads need be defined.    *)
(***************************************************************************)

\* What each thread has yet to add to a counter.
Pending(f) ==
    [t \in Threads |->
        IF pc[t] = "sync" /\ f \notin todo[t] THEN 0 ELSE local[t][f]]

Units(w) == UNION { {t} \X (1 .. w[t]) : t \in Threads }

IsSum(total, known, w) ==
    /\ IsFiniteSet(Units(w))
    /\ total = known + Cardinality(Units(w))

IsPeak(top, known, w) ==
    /\ known <= top
    /\ \A t \in Threads : w[t] <= top
    /\ known = top \/ \E t \in Threads : w[t] = top

\* The counters that steps report to and add up.
Summed == Counted \ {"discarded_proofs"}

Outstanding ==
    /\ \A f \in Summed : IsSum(reported.stats[f], stats[f], Pending(f))
    /\ \A f \in Greatest : IsPeak(reported.stats[f], stats[f], Pending(f))

\* A thread that is through has nothing left to add.
Emptied == \A t \in Threads : pc[t] = "through" => local[t] = NoStats
-----------------------------------------------------------------------------
\* One thread's units are as many as the number says.
LEMMA UnitsOfOne ==
    ASSUME NEW t, NEW n \in Nat
    PROVE  IsFiniteSet({t} \X (1 .. n)) /\ Cardinality({t} \X (1 .. n)) = n
<1>1. IsFiniteSet(1 .. n) /\ Cardinality(1 .. n) = n
  BY FS_Interval
<1>2. IsFiniteSet({t}) /\ Cardinality({t}) = 1
  BY FS_Singleton
<1> QED
  BY <1>1, <1>2, FS_Product

\* Of two sets without a common element the sizes add up.
LEMMA SizesAddUp ==
    ASSUME NEW S, NEW T, IsFiniteSet(S), IsFiniteSet(T), S \cap T = {}
    PROVE  /\ IsFiniteSet(S \cup T)
           /\ Cardinality(S \cup T) = Cardinality(S) + Cardinality(T)
<1>1. Cardinality(S \cap T) = 0
  BY FS_EmptySet
<1>2. Cardinality(S) \in Nat /\ Cardinality(T) \in Nat
  BY FS_CardinalityType
<1>3. /\ IsFiniteSet(S \cup T)
      /\ Cardinality(S \cup T) = Cardinality(S) + Cardinality(T) - Cardinality(S \cap T)
  BY FS_Union, Zenon
<1> QED
  BY ONLY <1>1, <1>2, <1>3

\* When one thread has another number, the units change by the difference.
LEMMA UnitsOfAll ==
    ASSUME NEW w \in [Threads -> Nat], NEW v \in [Threads -> Nat], NEW t \in Threads,
           \A u \in Threads \ {t} : v[u] = w[u],
           IsFiniteSet(Units(w))
    PROVE  /\ IsFiniteSet(Units(v))
           /\ Cardinality(Units(v)) + w[t] = Cardinality(Units(w)) + v[t]
<1> DEFINE Others == UNION { {u} \X (1 .. w[u]) : u \in Threads \ {t} }
           Old == {t} \X (1 .. w[t])
           New == {t} \X (1 .. v[t])
<1>1. Units(w) = Others \cup Old
  BY DEF Units
<1>2. Units(v) = Others \cup New
  <2>1. Others = UNION { {u} \X (1 .. v[u]) : u \in Threads \ {t} }
    OBVIOUS
  <2> QED
    BY <2>1 DEF Units
<1>3. Others \cap Old = {} /\ Others \cap New = {}
  OBVIOUS
<1>4. IsFiniteSet(Others)
  BY <1>1, FS_Subset
<1>5. /\ IsFiniteSet(Old) /\ Cardinality(Old) = w[t]
      /\ IsFiniteSet(New) /\ Cardinality(New) = v[t]
  BY UnitsOfOne
<1> HIDE DEF Others, Old, New
<1>6. Cardinality(Units(w)) = Cardinality(Others) + w[t]
  BY <1>1, <1>3, <1>4, <1>5, SizesAddUp
<1>7. IsFiniteSet(Units(v)) /\ Cardinality(Units(v)) = Cardinality(Others) + v[t]
  BY <1>2, <1>3, <1>4, <1>5, SizesAddUp
<1>8. Cardinality(Others) \in Nat
  BY <1>4, FS_CardinalityType
<1> QED
  BY <1>6, <1>7, <1>8

\* Nobody has a unit if all have zero.
LEMMA NoUnits ==
    ASSUME NEW w \in [Threads -> Nat], \A t \in Threads : w[t] = 0
    PROVE  IsFiniteSet(Units(w)) /\ Cardinality(Units(w)) = 0
<1>1. Units(w) = {}
  BY DEF Units
<1> QED
  BY <1>1, FS_EmptySet

\* What is pending are numbers.
LEMMA PendingType ==
    ASSUME TypeOK, NEW f \in Fields PROVE Pending(f) \in [Threads -> Nat]
BY DEF TypeOK, Stats, Pending

LEMMA FieldsAre ==
    /\ Summed \subseteq Fields /\ Greatest \subseteq Fields
    /\ \A f \in Summed : f \in Counted /\ f # "discarded_proofs"
    /\ \A f \in Greatest : f \notin Counted /\ f # "discarded_proofs"
    /\ \A f \in Fields : f = "discarded_proofs" \/ f \in Summed \/ f \in Greatest
BY DEF Summed, Greatest, Counted, Fields
-----------------------------------------------------------------------------
\* In the initial states nothing is reported, counted or pending.
LEMMA InitOutstanding == Init => Outstanding /\ Emptied
<1> SUFFICES ASSUME Init PROVE Outstanding /\ Emptied
  OBVIOUS
<1>1. \A f \in Fields : reported.stats[f] = 0 /\ stats[f] = 0
  BY DEF Init, NoStats
<1>2. \A f \in Fields : /\ Pending(f) \in [Threads -> Nat]
                        /\ \A t \in Threads : Pending(f)[t] = 0
  BY DEF Init, NoStats, Pending
<1>3. ASSUME NEW f \in Summed
      PROVE  IsSum(reported.stats[f], stats[f], Pending(f))
  <2>1. f \in Fields
    BY FieldsAre
  <2>2. IsFiniteSet(Units(Pending(f))) /\ Cardinality(Units(Pending(f))) = 0
    BY <2>1, <1>2, NoUnits
  <2> QED
    BY <2>1, <2>2, <1>1 DEF IsSum
<1>4. ASSUME NEW f \in Greatest
      PROVE  IsPeak(reported.stats[f], stats[f], Pending(f))
  BY <1>1, <1>2, FieldsAre DEF IsPeak
<1>5. Emptied
  BY DEF Init, Emptied
<1> QED
  BY <1>3, <1>4, <1>5 DEF Outstanding

\* A step that leaves what is reported, counted and pending leaves them in balance.
LEMMA BalanceStays ==
    ASSUME IInv, Outstanding, reported' = reported,
           \A f \in Fields : f # "discarded_proofs" => stats'[f] = stats[f],
           \A f \in Fields : Pending(f)' = Pending(f)
    PROVE  Outstanding'
<1>1. ASSUME NEW f \in Summed
      PROVE  IsSum(reported.stats[f], stats[f], Pending(f))'
  <2>1. f \in Fields /\ f # "discarded_proofs"
    BY FieldsAre
  <2>2. /\ IsSum(reported.stats[f], stats[f], Pending(f))
        /\ Pending(f)' = Pending(f) /\ stats'[f] = stats[f]
    BY <2>1 DEF Outstanding
  <2> QED
    BY <2>2 DEF IsSum, Units
<1>2. ASSUME NEW f \in Greatest
      PROVE  IsPeak(reported.stats[f], stats[f], Pending(f))'
  <2>1. f \in Fields /\ f # "discarded_proofs"
    BY FieldsAre
  <2>2. /\ IsPeak(reported.stats[f], stats[f], Pending(f))
        /\ Pending(f)' = Pending(f) /\ stats'[f] = stats[f]
    BY <2>1 DEF Outstanding
  <2> QED
    BY <2>2 DEF IsPeak
<1> QED
  BY <1>1, <1>2 DEF Outstanding

\* A step of the search adds what it reports to what its thread has pending.
LEMMA SearchStepOutstanding ==
    ASSUME IInv, Outstanding, NEW t \in Threads, SearchStep(t)
    PROVE  Outstanding'
<1>1. PICK s \in StepStats :
        /\ local' = [local EXCEPT ![t] = AllMerged(@, s)]
        /\ reported' = [steps |-> reported.steps + 1,
                        stats |-> AllMerged(reported.stats, s)]
  BY DEF SearchStep
<1>2. pc[t] = "search" /\ UNCHANGED <<stats, pc, todo>> /\ TypeOK /\ TypeOK'
  BY SearchStepIInv DEF SearchStep, IInv
<1>3. s \in Stats
  BY StatsAssumption
<1>4. \A f \in Fields :
        /\ s[f] \in Nat /\ reported.stats[f] \in Nat /\ stats[f] \in Nat
        /\ reported'.stats[f] = Merged(f, reported.stats[f], s[f])
        /\ reported'.stats[f] \in Nat
        /\ Pending(f) \in [Threads -> Nat]
        /\ Pending(f)' \in [Threads -> Nat]
        /\ Pending(f)'[t] = Merged(f, Pending(f)[t], s[f])
        /\ \A u \in Threads \ {t} : Pending(f)'[u] = Pending(f)[u]
  <2> TAKE f \in Fields
  <2>1. s[f] \in Nat /\ reported.stats[f] \in Nat /\ stats[f] \in Nat
    BY <1>2, <1>3 DEF TypeOK, Stats
  <2>2. reported'.stats[f] = Merged(f, reported.stats[f], s[f])
    BY <1>1 DEF AllMerged
  <2>3. reported'.stats[f] \in Nat
    BY <2>1, <2>2, MergedGrows
  <2>4. Pending(f) \in [Threads -> Nat]
    BY <1>2, PendingType
  <2>5. Pending(f)' = [u \in Threads |->
            IF pc[u] = "sync" /\ f \notin todo[u] THEN 0 ELSE local'[u][f]]
    BY <1>2 DEF Pending
  <2>6. local'[t][f] = Merged(f, local[t][f], s[f])
    BY <1>1, <1>2 DEF AllMerged, TypeOK
  <2>7. \A u \in Threads : u # t => local'[u] = local[u]
    BY <1>1, <1>2 DEF TypeOK
  <2>8. local[t][f] \in Nat
    BY <1>2 DEF TypeOK, Stats
  <2>9. /\ Pending(f)'[t] = Merged(f, Pending(f)[t], s[f])
        /\ \A u \in Threads \ {t} : Pending(f)'[u] = Pending(f)[u]
    BY <2>5, <2>6, <2>7, <1>2 DEF Pending
  <2>10. Pending(f)' \in [Threads -> Nat]
    <3>1. \A u \in Threads : Pending(f)'[u] \in Nat
      BY <2>1, <2>4, <2>9, MergedGrows
    <3> QED
      BY <3>1, <2>5
  <2> QED
    BY <2>1, <2>2, <2>3, <2>4, <2>9, <2>10
<1>5. ASSUME NEW f \in Summed
      PROVE  IsSum(reported.stats[f], stats[f], Pending(f))'
  <2>1. f \in Fields /\ f \in Counted
    BY FieldsAre
  <2> DEFINE a == reported.stats[f]
             b == reported'.stats[f]
             k == stats[f]
             w == Pending(f)
             v == Pending(f)'
             n == s[f]
  <2>2. /\ a \in Nat /\ b \in Nat /\ k \in Nat /\ n \in Nat
        /\ w \in [Threads -> Nat] /\ v \in [Threads -> Nat]
        /\ b = a + n /\ v[t] = w[t] + n
        /\ \A u \in Threads \ {t} : v[u] = w[u]
    BY <2>1, <1>4 DEF Merged
  <2>3. IsSum(a, k, w)
    BY DEF Outstanding
  <2> HIDE DEF a, b, k, w, v, n
  <2>4. /\ IsFiniteSet(Units(w)) /\ a = k + Cardinality(Units(w))
        /\ Cardinality(Units(w)) \in Nat
    BY <2>3, FS_CardinalityType DEF IsSum
  <2>5. IsFiniteSet(Units(v)) /\ b = k + Cardinality(Units(v))
    <3>1. /\ IsFiniteSet(Units(v))
          /\ Cardinality(Units(v)) + w[t] = Cardinality(Units(w)) + v[t]
      BY <2>2, <2>4, UnitsOfAll
    <3>2. Cardinality(Units(v)) \in Nat /\ w[t] \in Nat
      BY <3>1, <2>2, FS_CardinalityType
    <3> QED
      BY <3>1, <3>2, <2>2, <2>4
  <2>6. stats'[f] = stats[f]
    BY <1>2
  <2> QED
    BY <2>5, <2>6 DEF IsSum, b, k, v, Units
<1>6. ASSUME NEW f \in Greatest
      PROVE  IsPeak(reported.stats[f], stats[f], Pending(f))'
  <2>1. f \in Fields /\ f \notin Counted
    BY FieldsAre
  <2> DEFINE a == reported.stats[f]
             b == reported'.stats[f]
             k == stats[f]
             w == Pending(f)
             v == Pending(f)'
             n == s[f]
  <2>2. /\ a \in Nat /\ b \in Nat /\ k \in Nat /\ n \in Nat
        /\ w \in [Threads -> Nat] /\ v \in [Threads -> Nat]
        /\ b = (IF n > a THEN n ELSE a) /\ v[t] = (IF n > w[t] THEN n ELSE w[t])
        /\ \A u \in Threads \ {t} : v[u] = w[u]
    BY <2>1, <1>4 DEF Merged
  <2>3. /\ k <= a /\ \A u \in Threads : w[u] <= a
        /\ k = a \/ \E u \in Threads : w[u] = a
    BY DEF Outstanding, IsPeak
  <2> HIDE DEF a, b, k, w, v, n
  <2>4. k <= b /\ a <= b /\ n <= b
    BY <2>2, <2>3
  <2>5. w[t] \in Nat /\ w[t] <= a
    BY <2>2, <2>3
  <2>6. v[t] <= b
    BY <2>2, <2>4, <2>5
  <2>7. \A u \in Threads : v[u] <= b
    <3> TAKE u \in Threads
    <3>1. CASE u = t
      BY <3>1, <2>6
    <3>2. CASE u # t
      <4>1. v[u] = w[u] /\ w[u] \in Nat /\ w[u] <= a
        BY <3>2, <2>2, <2>3
      <4> QED
        BY <4>1, <2>2, <2>4
    <3> QED
      BY <3>1, <3>2
  <2>8. k = b \/ \E u \in Threads : v[u] = b
    <3>1. CASE n > a
      <4>1. b = n /\ v[t] = n
        BY <3>1, <2>2, <2>5
      <4> QED
        BY <4>1
    <3>2. CASE ~ (n > a) /\ k = a
      BY <3>2, <2>2
    <3>3. CASE ~ (n > a) /\ \E u \in Threads : w[u] = a
      <4>1. PICK u \in Threads : w[u] = a
        BY <3>3
      <4>2. b = a
        BY <3>3, <2>2
      <4>3. v[u] = a
        <5>1. CASE u = t
          BY <5>1, <4>1, <3>3, <2>2
        <5>2. CASE u # t
          BY <5>2, <4>1, <2>2
        <5> QED
          BY <5>1, <5>2
      <4> QED
        BY <4>2, <4>3
    <3> QED
      BY <3>1, <3>2, <3>3, <2>3
  <2>9. stats'[f] = stats[f]
    BY <1>2
  <2>10. /\ k <= b /\ \A u \in Threads : v[u] <= b
         /\ k = b \/ \E u \in Threads : v[u] = b
    BY <2>4, <2>7, <2>8
  <2> QED
    BY <2>9, <2>10 DEF IsPeak, b, k, v
<1> QED
  BY <1>5, <1>6 DEF Outstanding

\* An addition moves what a thread has pending into the counter.
LEMMA AddToOutstanding ==
    ASSUME IInv, Outstanding, NEW t \in Threads, AddTo(t)
    PROVE  Outstanding'
<1>1. PICK g \in todo[t] :
        /\ stats' = [stats EXCEPT ![g] = Synced(g, @, local[t][g])]
        /\ todo' = [todo EXCEPT ![t] = todo[t] \ {g}]
  BY DEF AddTo, Go
<1>2. /\ pc[t] = "sync" /\ pc' = pc /\ UNCHANGED <<local, reported>>
      /\ TypeOK /\ TypeOK'
  BY AddToIInv DEF AddTo, Go, IInv, TypeOK
<1>3. \A f \in Fields :
        /\ reported.stats[f] \in Nat /\ stats[f] \in Nat /\ stats'[f] \in Nat
        /\ Pending(f) \in [Threads -> Nat] /\ Pending(f)' \in [Threads -> Nat]
        /\ f # g => stats'[f] = stats[f] /\ Pending(f)' = Pending(f)
        /\ f = g => /\ stats'[f] = Merged(f, stats[f], Pending(f)[t])
                    /\ Pending(f)'[t] = 0
                    /\ \A u \in Threads \ {t} : Pending(f)'[u] = Pending(f)[u]
  <2> TAKE f \in Fields
  <2>1. reported.stats[f] \in Nat /\ stats[f] \in Nat /\ stats'[f] \in Nat
    BY <1>2 DEF TypeOK, Stats
  <2>2. Pending(f) \in [Threads -> Nat]
    BY <1>2, PendingType
  <2>3. Pending(f)' = [u \in Threads |->
            IF pc[u] = "sync" /\ f \notin todo'[u] THEN 0 ELSE local[u][f]]
    BY <1>2 DEF Pending
  <2>4. /\ todo'[t] = todo[t] \ {g}
        /\ \A u \in Threads \ {t} : todo'[u] = todo[u]
    BY <1>1, <1>2 DEF TypeOK
  <2>5. \A u \in Threads \ {t} : Pending(f)'[u] = Pending(f)[u]
    BY <2>3, <2>4 DEF Pending
  <2>6. CASE f # g
    <3>1. stats'[f] = stats[f]
      BY <2>6, <1>1, <1>2 DEF TypeOK, Stats
    <3>2. Pending(f)' = Pending(f)
      <4>1. \A u \in Threads : f \notin todo'[u] <=> f \notin todo[u]
        BY <2>4, <2>6
      <4> QED
        BY <4>1, <2>3 DEF Pending
    <3> QED
      BY <2>1, <2>2, <2>6, <3>1, <3>2
  <2>7. CASE f = g
    <3>1. Pending(f)[t] = local[t][f]
      BY <2>7, <1>1 DEF Pending
    <3>2. stats'[f] = Merged(f, stats[f], local[t][f])
      BY <2>7, <1>1, <1>2 DEF TypeOK, Stats, Synced
    <3>3. Pending(f)'[t] = 0
      BY <2>3, <2>4, <2>7, <1>2
    <3>4. Pending(f)' \in [Threads -> Nat]
      <4>1. \A u \in Threads : Pending(f)'[u] \in Nat
        BY <2>2, <2>5, <3>3
      <4> QED
        BY <4>1, <2>3
    <3> QED
      BY <2>1, <2>2, <2>5, <2>7, <3>1, <3>2, <3>3, <3>4
  <2> QED
    BY <2>6, <2>7
<1>4. g \in Fields
  BY <1>1, <1>2 DEF TypeOK
<1>5. ASSUME NEW f \in Summed
      PROVE  IsSum(reported.stats[f], stats[f], Pending(f))'
  <2>1. f \in Fields /\ f \in Counted
    BY FieldsAre
  <2> DEFINE a == reported.stats[f]
             k == stats[f]
             l == stats'[f]
             w == Pending(f)
             v == Pending(f)'
  <2>2. /\ a \in Nat /\ k \in Nat /\ l \in Nat
        /\ w \in [Threads -> Nat] /\ v \in [Threads -> Nat]
        /\ (l = k + w[t] /\ v[t] = 0) \/ (l = k /\ v[t] = w[t])
        /\ \A u \in Threads \ {t} : v[u] = w[u]
    BY <2>1, <1>3 DEF Merged
  <2>3. IsSum(a, k, w)
    BY DEF Outstanding
  <2>4. reported'.stats[f] = a
    BY <1>2
  <2> HIDE DEF a, k, l, w, v
  <2>5. /\ IsFiniteSet(Units(w)) /\ a = k + Cardinality(Units(w))
        /\ Cardinality(Units(w)) \in Nat
    BY <2>3, FS_CardinalityType DEF IsSum
  <2>6. IsFiniteSet(Units(v)) /\ a = l + Cardinality(Units(v))
    <3>1. /\ IsFiniteSet(Units(v))
          /\ Cardinality(Units(v)) + w[t] = Cardinality(Units(w)) + v[t]
      BY <2>2, <2>5, UnitsOfAll
    <3>2. Cardinality(Units(v)) \in Nat /\ w[t] \in Nat
      BY <3>1, <2>2, FS_CardinalityType
    <3> QED
      BY <3>1, <3>2, <2>2, <2>5
  <2> QED
    BY <2>4, <2>6 DEF IsSum, l, v, Units
<1>6. ASSUME NEW f \in Greatest
      PROVE  IsPeak(reported.stats[f], stats[f], Pending(f))'
  <2>1. f \in Fields /\ f \notin Counted
    BY FieldsAre
  <2> DEFINE a == reported.stats[f]
             k == stats[f]
             l == stats'[f]
             w == Pending(f)
             v == Pending(f)'
  <2>2. /\ a \in Nat /\ k \in Nat /\ l \in Nat
        /\ w \in [Threads -> Nat] /\ v \in [Threads -> Nat]
        /\ \/ l = (IF w[t] > k THEN w[t] ELSE k) /\ v[t] = 0
           \/ l = k /\ v[t] = w[t]
        /\ \A u \in Threads \ {t} : v[u] = w[u]
    BY <2>1, <1>3 DEF Merged
  <2>3. /\ k <= a /\ \A u \in Threads : w[u] <= a
        /\ k = a \/ \E u \in Threads : w[u] = a
    BY DEF Outstanding, IsPeak
  <2>4. reported'.stats[f] = a
    BY <1>2
  <2> HIDE DEF a, k, l, w, v
  <2>5. w[t] \in Nat /\ w[t] <= a /\ v[t] \in Nat
    BY <2>2, <2>3
  <2>6. l <= a /\ v[t] <= a
    BY <2>2, <2>3, <2>5
  <2>7. \A u \in Threads : v[u] <= a
    <3> TAKE u \in Threads
    <3> QED
      BY <2>2, <2>3, <2>6
  <2>8. l = a \/ \E u \in Threads : v[u] = a
    <3>1. CASE k = a
      BY <3>1, <2>2, <2>3, <2>5
    <3>2. CASE \E u \in Threads : w[u] = a
      <4>1. PICK u \in Threads : w[u] = a
        BY <3>2
      <4>2. CASE u = t
        BY <4>1, <4>2, <2>2, <2>3, <2>5
      <4>3. CASE u # t
        BY <4>1, <4>3, <2>2
      <4> QED
        BY <4>2, <4>3
    <3> QED
      BY <3>1, <3>2, <2>3
  <2>9. /\ l <= a /\ \A u \in Threads : v[u] <= a
        /\ l = a \/ \E u \in Threads : v[u] = a
    BY <2>6, <2>7, <2>8
  <2> QED
    BY <2>4, <2>9 DEF IsPeak, l, v
<1> QED
  BY <1>5, <1>6 DEF Outstanding

\* The other steps of a thread change nothing that is pending: a thread begins
\* its sync with all counters to add to, and ends it when it has added to all.
LEMMA PendingStays ==
    ASSUME IInv, NEW t \in Threads,
           \/ BeginRecord(t) \/ Load(t) \/ EndRecord(t)
           \/ BeginSync(t) \/ EndSync(t) \/ Leave(t),
           NEW f \in Fields
    PROVE  Pending(f)' = Pending(f)
<1>1. TypeOK
  BY DEF IInv
<1>2. \A u \in Threads \ {t} : pc'[u] = pc[u] /\ todo'[u] = todo[u] /\ local'[u] = local[u]
  BY <1>1 DEF BeginRecord, Load, EndRecord, BeginSync, EndSync, Leave, Go, TypeOK
<1> DEFINE Left(p, d, l) == IF p = "sync" /\ f \notin d THEN 0 ELSE l[f]
<1>3. Left(pc'[t], todo'[t], local'[t]) = Left(pc[t], todo[t], local[t])
  <2>1. CASE BeginRecord(t) \/ Load(t) \/ EndRecord(t) \/ Leave(t)
    <3>1. pc[t] # "sync" /\ pc'[t] # "sync" /\ local'[t] = local[t]
      BY <1>1, <2>1 DEF BeginRecord, Load, EndRecord, Leave, Go, TypeOK
    <3> QED
      BY <3>1
  <2>2. CASE BeginSync(t)
    <3>1. pc[t] # "sync" /\ todo'[t] = Fields /\ local'[t] = local[t]
      BY <1>1, <2>2 DEF BeginSync, Go, TypeOK
    <3> QED
      BY <3>1
  <2>3. CASE EndSync(t)
    <3>1. /\ pc[t] = "sync" /\ todo[t] = {}
          /\ pc'[t] # "sync" /\ local'[t] = NoStats
      BY <1>1, <2>3 DEF EndSync, Go, TypeOK
    <3> QED
      BY <3>1 DEF NoStats
  <2> QED
    BY <2>1, <2>2, <2>3
<1>4. \A u \in Threads :
        Left(pc'[u], todo'[u], local'[u]) = Left(pc[u], todo[u], local[u])
  BY <1>2, <1>3
<1> QED
  BY <1>4 DEF Pending

\* A thread leaves with nothing, and does nothing after that.
LEMMA NextEmptied == ASSUME IInv, Emptied, [Next]_vars PROVE Emptied'
<1>1. CASE UNCHANGED vars
  BY <1>1 DEF vars, Emptied
<1>2. ASSUME NEW t \in Threads,
             \/ SearchStep(t) \/ BeginRecord(t) \/ Load(t) \/ EndRecord(t)
             \/ BeginSync(t) \/ AddTo(t) \/ EndSync(t)
      PROVE  Emptied'
  <2>1. pc'[t] # "through"
    BY <1>2 DEF SearchStep, BeginRecord, Load, EndRecord, BeginSync, AddTo, EndSync,
                Go, IInv, TypeOK
  <2>2. \A u \in Threads \ {t} : pc'[u] = pc[u] /\ local'[u] = local[u]
    BY <1>2 DEF SearchStep, BeginRecord, Load, EndRecord, BeginSync, AddTo, EndSync,
                Go, IInv, TypeOK
  <2> QED
    BY <2>1, <2>2 DEF Emptied
<1>3. ASSUME NEW t \in Threads, Leave(t) PROVE Emptied'
  BY <1>3 DEF Leave, Go, IInv, TypeOK, Emptied
<1> QED
  BY <1>1, <1>2, <1>3 DEF Next, Finished

LEMMA NextOutstanding == ASSUME IInv, Outstanding, [Next]_vars PROVE Outstanding'
<1>1. CASE UNCHANGED vars
  BY <1>1, BalanceStays DEF vars, Pending
<1>2. ASSUME NEW t \in Threads, SearchStep(t) PROVE Outstanding'
  BY <1>2, SearchStepOutstanding
<1>3. ASSUME NEW t \in Threads, AddTo(t) PROVE Outstanding'
  BY <1>3, AddToOutstanding
<1>4. ASSUME NEW t \in Threads,
             \/ BeginRecord(t) \/ Load(t) \/ EndRecord(t)
             \/ BeginSync(t) \/ EndSync(t) \/ Leave(t)
      PROVE  Outstanding'
  <2>1. \A f \in Fields : Pending(f)' = Pending(f)
    BY <1>4, PendingStays
  <2>2. reported' = reported
    BY <1>4 DEF BeginRecord, Load, EndRecord, BeginSync, EndSync, Leave
  <2>3. \A f \in Fields : f # "discarded_proofs" => stats'[f] = stats[f]
    BY <1>4 DEF BeginRecord, Load, EndRecord, BeginSync, EndSync, Leave, IInv, TypeOK, Stats
  <2> QED
    BY <2>1, <2>2, <2>3, BalanceStays
<1> QED
  BY <1>1, <1>2, <1>3, <1>4 DEF Next, Finished

LEMMA SpecOutstanding == Spec => [](Outstanding /\ Emptied)
<1>1. IInv /\ Outstanding /\ Emptied /\ [Next]_vars => (Outstanding /\ Emptied)'
  BY NextOutstanding, NextEmptied
<1> QED
  BY <1>1, InitOutstanding, SpecIInv, PTL DEF Spec

\* With every thread through nothing is pending, so the counters are all that
\* the steps reported, each report once; the discarded proofs are as many as
\* were recorded and not kept.
THEOREM AllIsCounted == Spec => []NothingIsLost
<1>1. IInv /\ Outstanding /\ Emptied => NothingIsLost
  <2> SUFFICES ASSUME IInv, Outstanding, Emptied, AllThrough
               PROVE  stats = [reported.stats EXCEPT
                                  !["discarded_proofs"] = Len(recorded) - leaves]
    BY DEF NothingIsLost
  <2>1. /\ stats \in [Fields -> Nat] /\ reported.stats \in [Fields -> Nat]
        /\ TypeOK
    BY DEF IInv, TypeOK, Stats
  <2>2. \A f \in Fields : /\ Pending(f) \in [Threads -> Nat]
                          /\ \A t \in Threads : Pending(f)[t] = 0
    BY <2>1, PendingType DEF AllThrough, Emptied, Pending, NoStats
  <2>3. ASSUME NEW f \in Fields, f # "discarded_proofs"
        PROVE  stats[f] = reported.stats[f]
    <3>1. stats[f] \in Nat /\ reported.stats[f] \in Nat
      BY <2>1
    <3>2. CASE f \in Summed
      <4>1. Cardinality(Units(Pending(f))) = 0
        BY <2>2, NoUnits
      <4>2. reported.stats[f] = stats[f] + Cardinality(Units(Pending(f)))
        BY <3>2 DEF Outstanding, IsSum
      <4> QED
        BY <3>1, <4>1, <4>2
    <3>3. CASE f \in Greatest
      <4>1. /\ stats[f] <= reported.stats[f]
            /\ \/ stats[f] = reported.stats[f]
               \/ \E t \in Threads : Pending(f)[t] = reported.stats[f]
        BY <3>3 DEF Outstanding, IsPeak
      <4> QED
        BY <3>1, <4>1, <2>2
    <3> QED
      BY <2>3, <3>2, <3>3, FieldsAre
  <2>4. stats["discarded_proofs"] = Len(recorded) - leaves
    BY DEF IInv, DiscardsCounted
  <2> QED
    BY <2>1, <2>3, <2>4
<1> QED
  BY <1>1, SpecIInv, SpecOutstanding, PTL
=============================================================================
