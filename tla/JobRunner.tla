----------------------------- MODULE JobRunner -----------------------------
(***************************************************************************)
(* The global phases of llir-reducer: the thread pool of job_runner.h and  *)
(* the search of GlobalReducer in reducer.cpp.  Threads draw a set of      *)
(* symbols to delete, build and test the smaller program without the lock, *)
(* and post the result to a pool of the best programs so far.              *)
(*                                                                         *)
(* A program is named by the set of symbols deleted from the original one; *)
(* deletion and the clean-up passes are deterministic, the user's test     *)
(* script is not assumed to be.                                            *)
(***************************************************************************)
EXTENDS Naturals, Sequences, FiniteSets

CONSTANTS
  Threads,        \* the worker threads (-threads)
  Symbols,        \* what Enumerate finds in the original program
  Size,           \* size of the program left after deleting a set of symbols
  OptPool,        \* -pool: how many results are kept
  OptStop,        \* -stop: candidates without progress before giving up
  OptCheckpoint,  \* -checkpoint
  OptTimeout,     \* whether -timeout is set
  MaxUnopened     \* bound: candidates after which the output can be opened

Deletions == SUBSET Symbols

\* A pool of one entry cannot be split into the two halves Request combines.
ASSUME JobRunnerAssumption ==
  /\ IsFiniteSet(Threads) /\ Threads # {}
  /\ IsFiniteSet(Symbols)
  /\ Size \in [Deletions -> Nat]
  /\ OptPool \in Nat /\ OptPool >= 2
  /\ OptStop \in Nat
  /\ OptCheckpoint \in BOOLEAN
  /\ OptTimeout \in BOOLEAN
  /\ MaxUnopened \in Nat

VARIABLES
  pc,        \* where each thread is in the loop of Execute
  task,      \* the symbols the thread was told to delete
  result,    \* what its last Run returned
  symbols,   \* symbols_, enumerated by the first Request
  reduced,   \* reduced_: passing results, smallest first
  uid,       \* uid_: number of candidates run
  expired,   \* the timeout has passed
  file,      \* the output file
  missed,    \* history: the output could not be opened since it was last written
  best,      \* what GetBest returned, <<>> before
  passed     \* history: the sizes of all programs the test accepted

disk == <<file, missed>>

vars == <<pc, task, result, symbols, reduced, uid, expired, disk, best, passed>>

Results == [deleted : Deletions, size : Nat, pass : BOOLEAN, id : Nat]

\* What the output file holds: what was there before the search, a program that
\* is not written to its end, or a whole program.
Files == [kind : {"old", "partial"}, deleted : {{}}] \cup [kind : {"whole"}, deleted : Deletions]

Old      == [kind |-> "old", deleted |-> {}]
Partial  == [kind |-> "partial", deleted |-> {}]
Whole(D) == [kind |-> "whole", deleted |-> D]

NoResult == [deleted |-> {}, size |-> 0, pass |-> FALSE, id |-> 0]

Larger(a, b)  == IF a >= b THEN a ELSE b
Smaller(a, b) == IF a <= b THEN a ELSE b

\* Sub-samples of a shuffled vector.
Samples(S, n) == {T \in SUBSET S : Cardinality(T) = n}

-----------------------------------------------------------------------------
(* Request                                                                 *)

\* The reduction stalled: too many candidates since the best one.
Stalled ==
  IF reduced = <<>> THEN uid > OptStop ELSE uid - reduced[1].id > OptStop

\* The deletion sets the search may be seeded with.
Seeds == IF reduced = <<>> THEN {{}} ELSE {reduced[r].deleted : r \in DOMAIN reduced}

\* Extend a seed by a random 5% to 30% of the other symbols, at least one.
Extended(seed) ==
  LET diff == symbols' \ seed
      d    == Cardinality(diff)
      Ns   == {Larger(1, n) : n \in (d * 5) \div 100 .. (d * 30) \div 100}
  IN UNION { {seed \cup T : T \in Samples(diff, n)} : n \in Ns }

\* Combine the r0-th result, of the better half, with its mirror image in the
\* worse one.
CombinedWith(r0) ==
  LET fst     == reduced[r0].deleted
      del     == reduced[Len(reduced) + 1 - r0].deleted
      surplus == Cardinality(reduced[1].deleted) - Cardinality(fst)
      minimum == Smaller(Cardinality(del), Larger(0, surplus))
      Ns      == Larger(minimum, Cardinality(del) \div 2) .. Cardinality(del)
  IN UNION { {fst \cup T : T \in Samples(del, n)} : n \in Ns }

Combined == UNION {CombinedWith(r0) : r0 \in 1 .. Len(reduced) \div 2}

\* (mutant) A thread without work tries again.
QuitRetries(t) ==
  /\ pc' = [pc EXCEPT ![t] = "loop"]
  /\ UNCHANGED task

\* No more work for this thread.
Quit(t) ==
  /\ pc' = [pc EXCEPT ![t] = "done"]
  /\ UNCHANGED task

Start(t, D) ==
  /\ pc' = [pc EXCEPT ![t] = "run"]
  /\ task' = [task EXCEPT ![t] = D]

\* The loop of Execute: the timeout is checked before each request.
Loop(t) ==
  /\ pc[t] = "loop"
  /\ pc' = [pc EXCEPT ![t] = IF expired THEN "done" ELSE "request"]
  /\ UNCHANGED <<task, result, symbols, reduced, uid, expired, disk, best, passed>>

\* (mutant) Write is called without the lock.
LockIgnored == TRUE

\* The lock is only held beyond a step by a thread that writes the output.
LockFree == \A t \in Threads : pc[t] \notin {"open", "write"}

\* Request, under the lock.
Request(t) ==
  /\ pc[t] = "request"
  /\ LockFree
  /\ symbols' = IF symbols = {} THEN Symbols ELSE symbols
  /\ \/ symbols' = {} /\ Quit(t)
     \/ symbols' # {} /\ Stalled /\ Quit(t)
     \/ /\ symbols' # {} /\ ~Stalled
        /\ \E seed \in Seeds :
             IF seed = symbols'
               THEN Quit(t)
               ELSE \E D \in Extended(seed) : Start(t, D)
     \/ /\ symbols' # {} /\ ~Stalled
        /\ Len(reduced) >= OptPool
        /\ \E D \in Combined : Start(t, D)
  /\ UNCHANGED <<result, reduced, uid, expired, disk, best, passed>>

\* Run, without the lock: clone, delete, clean up, test.
Run(t) ==
  /\ pc[t] = "run"
  /\ uid' = uid + 1
  /\ \E pass \in BOOLEAN :
       /\ result' = [result EXCEPT ![t] = [deleted |-> task[t], size |-> Size[task[t]],
                                           pass |-> pass, id |-> uid + 1]]
       /\ passed' = IF pass THEN passed \cup {Size[task[t]]} ELSE passed
  /\ task' = [task EXCEPT ![t] = {}]
  /\ pc' = [pc EXCEPT ![t] = "post"]
  /\ UNCHANGED <<symbols, reduced, expired, disk, best>>

-----------------------------------------------------------------------------
(* Post                                                                    *)

\* std::upper_bound on Size: ties go behind.
UpperBound(q, size) ==
  CHOOSE i \in 1 .. Len(q) + 1 :
    /\ \A j \in 1 .. i - 1 : q[j].size <= size
    /\ i <= Len(q) => q[i].size > size

Insert(q, r) ==
  LET p == UpperBound(q, r.size)
  IN [i \in 1 .. Len(q) + 1 |-> IF i < p THEN q[i] ELSE IF i = p THEN r ELSE q[i - 1]]

\* (mutant) Keeps the end of the pool.
TruncateFront(q) ==
  IF Len(q) > OptPool THEN [i \in 1 .. OptPool |-> q[i + Len(q) - OptPool]] ELSE q

\* Keeps the pool at a manageable size.
Truncate(q) == [i \in 1 .. Smaller(Len(q), OptPool) |-> q[i]]

\* The first result, or one that is better than all before.
Improves(q, r) == q = <<>> \/ q[1].size > Insert(q, r)[1].size

\* (mutant) Post does not look at the verdict of the test.
PostAnything(t) ==
  /\ pc[t] = "post"
  /\ LockFree
  /\ reduced' = Truncate(Insert(reduced, result[t]))
  /\ pc' = [pc EXCEPT ![t] = IF OptCheckpoint /\ Improves(reduced, result[t]) THEN "open" ELSE "loop"]
  /\ result' = [result EXCEPT ![t] = NoResult]
  /\ UNCHANGED <<task, symbols, uid, expired, disk, best, passed>>

\* Post, under the lock, up to the call of Write.  The pool is truncated behind
\* that call; nothing reads it before the lock is given up except Write, which
\* reads the head.
Post(t) ==
  /\ pc[t] = "post"
  /\ LockFree
  /\ IF result[t].pass
       THEN /\ reduced' = Truncate(Insert(reduced, result[t]))
            /\ pc' = [pc EXCEPT ![t] = IF OptCheckpoint /\ Improves(reduced, result[t])
                                        THEN "open" ELSE "loop"]
       ELSE /\ pc' = [pc EXCEPT ![t] = "loop"]
            /\ UNCHANGED reduced
  /\ result' = [result EXCEPT ![t] = NoResult]
  /\ UNCHANGED <<task, symbols, uid, expired, disk, best, passed>>

\* Write: opening the output truncates it in place.
OpenOutput(t) ==
  /\ pc[t] = "open"
  /\ file' = Partial
  /\ pc' = [pc EXCEPT ![t] = "write"]
  /\ UNCHANGED <<task, result, symbols, reduced, uid, expired, missed, best, passed>>

\* Write: the output cannot be opened.  Post does not look at what Write returns.
OpenFails(t) ==
  /\ pc[t] = "open"
  /\ uid <= MaxUnopened
  /\ missed' = TRUE
  /\ pc' = [pc EXCEPT ![t] = "loop"]
  /\ UNCHANGED <<task, result, symbols, reduced, uid, expired, file, best, passed>>

\* Write: the best program is in the file, and the file is kept.
WriteOutput(t) ==
  /\ pc[t] = "write"
  /\ file' = Whole(reduced[1].deleted)
  /\ missed' = FALSE
  /\ pc' = [pc EXCEPT ![t] = "loop"]
  /\ UNCHANGED <<task, result, symbols, reduced, uid, expired, best, passed>>

-----------------------------------------------------------------------------

\* (mutant) The main thread does not wait for the others.
GetBestEarly ==
  /\ best = <<>>
  /\ \E t \in Threads : pc[t] = "done"
  /\ best' = <<IF reduced = <<>> THEN {} ELSE reduced[1].deleted>>
  /\ UNCHANGED <<pc, task, result, symbols, reduced, uid, expired, disk, passed>>

\* Execute joins every thread; GetBest falls back to the original program.
GetBest ==
  /\ best = <<>>
  /\ \A t \in Threads : pc[t] = "done"
  /\ best' = <<IF reduced = <<>> THEN {} ELSE reduced[1].deleted>>
  /\ UNCHANGED <<pc, task, result, symbols, reduced, uid, expired, disk, passed>>

\* The clock reaches the end point.
Expire ==
  /\ OptTimeout /\ ~expired
  /\ expired' = TRUE
  /\ UNCHANGED <<pc, task, result, symbols, reduced, uid, disk, best, passed>>

Init ==
  /\ pc = [t \in Threads |-> "loop"]
  /\ task = [t \in Threads |-> {}]
  /\ result = [t \in Threads |-> NoResult]
  /\ symbols = {}
  /\ reduced = <<>>
  /\ uid = 0
  /\ expired = FALSE
  /\ file = Old
  /\ missed = FALSE
  /\ best = <<>>
  /\ passed = {}

Write(t) == OpenOutput(t) \/ OpenFails(t) \/ WriteOutput(t)

Thread(t) == Loop(t) \/ Request(t) \/ Run(t) \/ Post(t) \/ Write(t)

Finished == best # <<>> /\ UNCHANGED vars

Next ==
  \/ \E t \in Threads : Loop(t)
  \/ \E t \in Threads : Request(t)
  \/ \E t \in Threads : Run(t)
  \/ \E t \in Threads : Post(t)
  \/ \E t \in Threads : OpenOutput(t)
  \/ \E t \in Threads : OpenFails(t)
  \/ \E t \in Threads : WriteOutput(t)
  \/ GetBest
  \/ Expire
  \/ Finished

\* The operating system schedules every thread; the test script ends.
Spec ==
  /\ Init /\ [][Next]_vars
  /\ \A t \in Threads : WF_vars(Thread(t))
  /\ WF_vars(GetBest)

-----------------------------------------------------------------------------
(* Properties                                                              *)

TypeOK ==
  /\ pc \in [Threads -> {"loop", "request", "run", "post", "open", "write", "done"}]
  /\ task \in [Threads -> Deletions]
  /\ result \in [Threads -> Results]
  /\ symbols \in Deletions
  /\ reduced \in Seq(Results)
  /\ uid \in Nat
  /\ expired \in BOOLEAN
  /\ file \in Files
  /\ missed \in BOOLEAN
  /\ best \in Seq(Deletions)
  /\ passed \subseteq Nat

\* "Result is always sorted, keep it that way", within the bound of the pool,
\* and only programs the test accepted are kept, whatever the order in which
\* the threads post.
PoolSorted ==
  /\ Len(reduced) <= OptPool
  /\ \A i, j \in DOMAIN reduced : i <= j => reduced[i].size <= reduced[j].size
  /\ \A i \in DOMAIN reduced :
       reduced[i].pass /\ reduced[i].size = Size[reduced[i].deleted]

\* Sequence numbers are handed out outside the lock: no two results share one,
\* and none is ahead of the counter (Request subtracts it, unsigned).
IdsUnique ==
  /\ \A i \in DOMAIN reduced : reduced[i].id \in 1 .. uid
  /\ \A i, j \in DOMAIN reduced : i # j => reduced[i].id # reduced[j].id

\* The best program never gets worse: no post, however late, displaces a
\* smaller result or empties the pool.
BestImproves ==
  [][reduced # <<>> =>
       reduced' # <<>> /\ reduced'[1].size <= reduced[1].size]_vars

\* A size that passed and that the pool has not seen yet.
OnItsWay(n) == \E t \in Threads : pc[t] = "post" /\ result[t].pass /\ result[t].size = n

\* What an interruption leaves in the output file, reducer.cpp:112 and :363: a
\* part of a program exactly within Write, after the file was truncated; else
\* the file as it was or a program that the test accepted.  Outside Write, and
\* unless the file could not be opened, that program is as small as any that
\* passed and was posted, whichever thread wrote last.
CheckpointIsBest ==
  OptCheckpoint =>
    /\ file.kind = "partial" <=> \E t \in Threads : pc[t] = "write"
    /\ file.kind = "whole" => Size[file.deleted] \in passed
    /\ LockFree /\ ~missed =>
         \A n \in passed :
           OnItsWay(n) \/ (file.kind = "whole" /\ Size[file.deleted] <= n)

\* What the reducer returns is the smallest of all programs the test accepted:
\* none is lost to a full pool, to a post that comes late or to a thread that
\* stopped early.
BestIsSmallest ==
  best # <<>> /\ passed # {} =>
    /\ Size[best[1]] \in passed
    /\ \A n \in passed : Size[best[1]] <= n

\* Execute ends: every thread comes back to be joined, with or without a
\* timeout, and the reducer has its answer.
Terminates == <>(best # <<>>)

=============================================================================
