----------------------------- MODULE ProofStats -----------------------------
(***************************************************************************)
(* The statistics of a search.  Threads collect their own and add them to  *)
(* the five shared counters after every round of a batch                   *)
(* (sync_with_shared_ctx); a thread that records a proof stores a copy of  *)
(* the shared counters with it (record_leaf_proof, copy_and_freeze).        *)
(*                                                                         *)
(* The counters are relaxed atomics: each is added to and read by itself,  *)
(* and a thread's accesses to different counters take effect in any order. *)
(* What the steps of the search do to the statistics is the input.         *)
(***************************************************************************)
EXTENDS Integers, Sequences

CONSTANTS
    Threads,
    NoThread,   \* holds the lock when nobody does
    MaxProofs,  \* how many leaf proofs are kept at most
    StepStats,  \* what one search_proof_step may report
    MaxSteps,   \* bound: steps of the search
    MaxRecords  \* bound: proofs recorded

Counted == {"attempted_resolutions", "successful_resolutions",
            "discarded_proofs"}
Greatest == {"max_resolvent_width_seen", "max_depth_seen"}
Fields == Counted \cup Greatest

Stats == [Fields -> Nat]

ASSUME StatsAssumption ==
    /\ NoThread \notin Threads
    /\ MaxProofs \in Nat \ {0}
    /\ StepStats \subseteq { s \in Stats : s["discarded_proofs"] = 0 }
    /\ MaxSteps \in Nat /\ MaxRecords \in Nat

VARIABLES
    stats,      \* SharedProofStats
    local,      \* LocalProofStats of every thread
    pc,
    todo,       \* the counters that a thread has yet to add to or to read
    copy,       \* the counters it has read
    lock,       \* of scored_leaf_proof_steps: the thread that writes
    leaves,     \* how many leaf proofs are kept
    recorded,   \* history: the copies stored with proofs, in order
    reported    \* history: what all steps so far have reported

vars == <<stats, local, pc, todo, copy, lock, leaves, recorded, reported>>

NoStats == [f \in Fields |-> 0]

Init ==
    /\ stats = NoStats
    /\ local = [t \in Threads |-> NoStats]
    /\ pc = [t \in Threads |-> "search"]
    /\ todo = [t \in Threads |-> {}]
    /\ copy = [t \in Threads |-> NoStats]
    /\ lock = NoThread
    /\ leaves = 0
    /\ recorded = <<>>
    /\ reported = [steps |-> 0, stats |-> NoStats]
-----------------------------------------------------------------------------
\* fetch_add or fetch_max
Merged(f, old, new) ==
    IF f \in Counted THEN old + new ELSE IF new > old THEN new ELSE old

\* A mistake: a store where fetch_add and fetch_max belong.
Stored(f, old, new) == new

\* One counter with what a thread has collected.
Synced(f, old, new) == Merged(f, old, new)

AllMerged(old, new) == [f \in Fields |-> Merged(f, old[f], new[f])]

Go(t, to, fs) == pc' = [pc EXCEPT ![t] = to] /\ todo' = [todo EXCEPT ![t] = fs]

\* search_proof_step, for a goal: its own statistics only.
SearchStep(t) ==
    /\ pc[t] = "search" /\ reported.steps < MaxSteps
    /\ \E s \in StepStats :
          /\ local' = [local EXCEPT ![t] = AllMerged(@, s)]
          /\ reported' = [steps |-> reported.steps + 1,
                          stats |-> AllMerged(reported.stats, s)]
    /\ UNCHANGED <<stats, pc, todo, copy, lock, leaves, recorded>>

\* A mistake: the statistics are copied without the lock.
NoLock == TRUE

Unlocked == lock = NoThread

\* record_leaf_proof takes the lock.
BeginRecord(t) ==
    /\ pc[t] = "search" /\ Len(recorded) < MaxRecords
    /\ Unlocked
    /\ lock' = t
    /\ Go(t, "copy", Fields)
    /\ UNCHANGED <<stats, local, copy, leaves, recorded, reported>>

\* copy_and_freeze: one of its five loads.
Load(t) ==
    /\ pc[t] = "copy"
    /\ \E f \in todo[t] :
          /\ copy' = [copy EXCEPT ![t][f] = stats[f]]
          /\ Go(t, "copy", todo[t] \ {f})
    /\ UNCHANGED <<stats, local, lock, leaves, recorded, reported>>

\* A mistake: the length is compared before the leaf has joined.
FullTooLate == leaves > MaxProofs

Full == leaves >= MaxProofs

\* The leaf joins the others, or the worst of all is dropped and counted.
EndRecord(t) ==
    /\ pc[t] = "copy" /\ todo[t] = {}
    /\ recorded' = Append(recorded, copy[t])
    /\ IF Full
       THEN stats' = [stats EXCEPT !["discarded_proofs"] = @ + 1]
            /\ UNCHANGED leaves
       ELSE leaves' = leaves + 1 /\ UNCHANGED stats
    /\ lock' = NoThread
    /\ copy' = [copy EXCEPT ![t] = NoStats]
    /\ Go(t, "search", {})
    /\ UNCHANGED <<local, reported>>

\* sync_with_shared_ctx, at the end of a round.  A round of which all goals are
\* refused has nothing to report, and is left out.
BeginSync(t) ==
    /\ pc[t] = "search" /\ local[t] # NoStats
    /\ Go(t, "sync", Fields)
    /\ UNCHANGED <<stats, local, copy, lock, leaves, recorded, reported>>

\* One of its five additions.
AddTo(t) ==
    /\ pc[t] = "sync"
    /\ \E f \in todo[t] :
          /\ stats' = [stats EXCEPT ![f] = Synced(f, @, local[t][f])]
          /\ Go(t, "sync", todo[t] \ {f})
    /\ UNCHANGED <<local, copy, lock, leaves, recorded, reported>>

\* The thread goes on with the next round, or with the next batch.
EndSync(t) ==
    /\ pc[t] = "sync" /\ todo[t] = {}
    /\ local' = [local EXCEPT ![t] = NoStats]
    /\ Go(t, "search", {})
    /\ UNCHANGED <<stats, copy, lock, leaves, recorded, reported>>

\* There is no batch left for the thread.
Leave(t) ==
    /\ pc[t] = "search" /\ local[t] = NoStats
    /\ Go(t, "through", {})
    /\ UNCHANGED <<stats, local, copy, lock, leaves, recorded, reported>>

AllThrough == \A t \in Threads : pc[t] = "through"

\* prove_all_with_stats makes the last copy after the scope of the threads,
\* when the counters do not change any more.
Finished == AllThrough /\ UNCHANGED vars

Next ==
    \/ \E t \in Threads :
          \/ SearchStep(t) \/ BeginRecord(t) \/ Load(t) \/ EndRecord(t)
          \/ BeginSync(t) \/ AddTo(t) \/ EndSync(t) \/ Leave(t)
    \/ Finished

Spec == Init /\ [][Next]_vars
-----------------------------------------------------------------------------
(***************************************************************************)
(* Properties.                                                             *)
(***************************************************************************)
AtMost(a, b) == \A f \in Fields : a[f] <= b[f]

\* Every variable stays in its type.
TypeOK ==
    /\ stats \in Stats
    /\ local \in [Threads -> Stats]
    /\ pc \in [Threads -> {"search", "copy", "sync", "through"}]
    /\ todo \in [Threads -> SUBSET Fields]
    /\ copy \in [Threads -> Stats]
    /\ lock \in Threads \cup {NoThread}
    /\ leaves \in 0 .. MaxProofs
    /\ recorded \in Seq(Stats)
    /\ reported \in [steps : Nat, stats : Stats]

\* Of two proofs the one recorded later reports no less, in any counter, though
\* other threads add to the counters while they are copied, and no proof reports
\* more than the counters say after it.
LaterReportsMore ==
    /\ \A i, j \in DOMAIN recorded : i <= j => AtMost(recorded[i], recorded[j])
    /\ \A i \in DOMAIN recorded : AtMost(recorded[i], stats)

\* A proof reports as many discarded proofs as had been discarded when it was
\* recorded: all that were recorded before it and could not be kept.
DiscardsAreExact ==
    \A i \in DOMAIN recorded :
        recorded[i]["discarded_proofs"] =
            (IF i - 1 > MaxProofs THEN i - 1 - MaxProofs ELSE 0)

\* When all threads are through, the counters are what the steps reported, each
\* once, and the proofs that were recorded and not kept.
NothingIsLost ==
    AllThrough =>
        stats = [reported.stats EXCEPT
                    !["discarded_proofs"] = Len(recorded) - leaves]
=============================================================================
