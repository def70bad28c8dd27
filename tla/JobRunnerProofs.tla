-------------------------- MODULE JobRunnerProofs --------------------------
(***************************************************************************)
(* Proofs about the reducer's search, for any number of threads and        *)
(* symbols, any pool, and any behaviour of the test.                       *)
(***************************************************************************)
EXTENDS JobRunner, WellFoundedInduction, TLAPS

Posting(t) == pc[t] = "post"

\* A result on its way to the pool is what its candidate was, under a number
\* that nobody else has.
ResultsExact ==
  \A t \in Threads : Posting(t) =>
    /\ result[t].size = Size[result[t].deleted]
    /\ result[t].id \in 1 .. uid
    /\ \A i \in DOMAIN reduced : reduced[i].id # result[t].id
    /\ \A u \in Threads : u # t /\ Posting(u) => result[u].id # result[t].id

\* Every program that passed is on its way, or the best is at least as small.
NothingLost ==
  \A n \in passed :
    \/ \E t \in Threads : Posting(t) /\ result[t].pass /\ result[t].size = n
    \/ reduced # <<>> /\ reduced[1].size <= n

\* Nothing else than programs that passed can become the best.
OnlyPassed ==
  /\ \A i \in DOMAIN reduced : reduced[i].size \in passed
  /\ \A t \in Threads : Posting(t) /\ result[t].pass => result[t].size \in passed

\* The answer is taken when no thread can change it any more.
AnswerFinal ==
  best # <<>> =>
    /\ \A t \in Threads : pc[t] = "done"
    /\ best = <<IF reduced = <<>> THEN {} ELSE reduced[1].deleted>>

Writing(t) == pc[t] \in {"open", "write"}

\* One thread at a time is in Write, and there is a best program for it to write.
OneWriter ==
  \A t \in Threads : Writing(t) =>
    /\ reduced # <<>>
    /\ \A u \in Threads : Writing(u) => u = t

\* The output is cut short exactly within Write, and holds only what passed.
FileSound ==
  /\ file.kind = "partial" <=> \E t \in Threads : pc[t] = "write"
  /\ file.kind = "whole" => Size[file.deleted] \in passed

\* Outside Write the output is the head of the pool, or could not be opened.
FileCurrent ==
  OptCheckpoint /\ LockFree /\ ~missed =>
    file = IF reduced = <<>> THEN Old ELSE Whole(reduced[1].deleted)

FileInv == OneWriter /\ FileSound /\ FileCurrent

IInv ==
  /\ TypeOK /\ PoolSorted /\ IdsUnique /\ FileInv
  /\ ResultsExact /\ NothingLost /\ OnlyPassed /\ AnswerFinal

-----------------------------------------------------------------------------
(* The pool                                                                *)

\* The least number principle.
LEMMA Least ==
  ASSUME NEW S \in SUBSET Nat, S # {}
  PROVE  \E m \in S : \A k \in S : m <= k
<1>1. PICK m \in S : \A k \in S : ~ (<<k, m>> \in OpToRel(<, Nat))
  BY NatLessThanWellFounded, WFMin
<1>2. \A k \in S : ~ (k < m)
  BY <1>1 DEF OpToRel
<1> QED BY <1>2

\* The entries of a pool are results, with sizes and numbers.
LEMMA PoolEntries ==
  ASSUME NEW q \in Seq(Results)
  PROVE  /\ Len(q) \in Nat
         /\ DOMAIN q = 1 .. Len(q)
         /\ \A i \in 1 .. Len(q) : q[i] \in Results /\ q[i].size \in Nat /\ q[i].id \in Nat
<1>1. Len(q) \in Nat /\ DOMAIN q = 1 .. Len(q)
  OBVIOUS
<1>2. \A i \in 1 .. Len(q) : q[i] \in Results
  OBVIOUS
<1>3. \A r \in Results : r.size \in Nat /\ r.id \in Nat
  BY DEF Results
<1> QED BY <1>1, <1>2, <1>3

\* upper_bound finds a position, whatever the pool holds.
LEMMA UpperBoundExists ==
  ASSUME NEW q \in Seq(Results), NEW size \in Nat
  PROVE  /\ UpperBound(q, size) \in 1 .. Len(q) + 1
         /\ \A j \in 1 .. UpperBound(q, size) - 1 : q[j].size <= size
         /\ UpperBound(q, size) <= Len(q) => q[UpperBound(q, size)].size > size
<1> DEFINE S == {i \in 1 .. Len(q) + 1 : i <= Len(q) => q[i].size > size}
<1>1. Len(q) \in Nat /\ \A i \in 1 .. Len(q) : q[i].size \in Nat
  BY PoolEntries
<1>2. Len(q) + 1 \in S
  BY <1>1
<1>3. PICK m \in S : \A k \in S : m <= k
  <2>1. S \in SUBSET Nat /\ S # {}
    BY <1>1, <1>2
  <2> HIDE DEF S
  <2> QED BY <2>1, Least
<1>4. \A j \in 1 .. m - 1 : q[j].size <= size
  BY <1>1, <1>3
<1> QED BY <1>1, <1>3, <1>4 DEF UpperBound

\* What Insert makes of the pool.
LEMMA InsertShape ==
  ASSUME NEW q \in Seq(Results), NEW r \in Results
  PROVE  LET p == UpperBound(q, r.size)
         IN /\ Insert(q, r) \in Seq(Results)
            /\ Len(Insert(q, r)) = Len(q) + 1
            /\ \A i \in 1 .. Len(q) + 1 :
                 Insert(q, r)[i] = IF i < p THEN q[i] ELSE IF i = p THEN r ELSE q[i - 1]
<1> DEFINE p == UpperBound(q, r.size)
<1>1. r.size \in Nat /\ Len(q) \in Nat
  BY DEF Results
<1>2. p \in 1 .. Len(q) + 1
  BY <1>1, UpperBoundExists
<1> HIDE DEF p
<1>3. \A i \in 1 .. Len(q) + 1 :
        (IF i < p THEN q[i] ELSE IF i = p THEN r ELSE q[i - 1]) \in Results
  BY <1>1, <1>2
<1>4. Insert(q, r) = [i \in 1 .. Len(q) + 1 |->
                        IF i < p THEN q[i] ELSE IF i = p THEN r ELSE q[i - 1]]
  BY DEF Insert, p
<1>5. Insert(q, r) \in [1 .. Len(q) + 1 -> Results]
  BY <1>3, <1>4
<1>6. Insert(q, r) \in Seq(Results) /\ Len(Insert(q, r)) = Len(q) + 1
  BY <1>1, <1>5
<1> QED BY <1>4, <1>6 DEF p

Join(q, r) == Truncate(Insert(q, r))

SizesSorted(q) == \A i, j \in DOMAIN q : i <= j => q[i].size <= q[j].size
IdsDistinct(q) == \A i, j \in DOMAIN q : i # j => q[i].id # q[j].id

\* What posting makes of the pool, position by position.
LEMMA JoinShape ==
  ASSUME NEW q \in Seq(Results), NEW r \in Results
  PROVE  /\ Join(q, r) \in Seq(Results)
         /\ Len(Join(q, r)) \in 1 .. OptPool
         /\ Len(Join(q, r)) <= Len(q) + 1
         /\ \A i \in 1 .. Len(Join(q, r)) : Join(q, r)[i] = Insert(q, r)[i]
<1> DEFINE s == Insert(q, r)
           n == Smaller(Len(s), OptPool)
<1>1. s \in Seq(Results) /\ Len(s) = Len(q) + 1 /\ Len(q) \in Nat
  BY InsertShape
<1> HIDE DEF s
<1>2. n \in Nat /\ n >= 1 /\ n <= OptPool /\ n <= Len(s)
  BY <1>1, JobRunnerAssumption DEF Smaller
<1> HIDE DEF n
<1>3. Truncate(s) = [i \in 1 .. n |-> s[i]]
  BY DEF Truncate, n
<1>4. Truncate(s) \in [1 .. n -> Results]
  BY <1>1, <1>2, <1>3
<1>5. Truncate(s) \in Seq(Results) /\ Len(Truncate(s)) = n
  BY <1>2, <1>4
<1>6. Join(q, r) = Truncate(s)
  BY DEF Join, s
<1>7. \A i \in 1 .. n : Truncate(s)[i] = s[i]
  BY <1>3
<1> QED BY <1>1, <1>2, <1>5, <1>6, <1>7, JobRunnerAssumption DEF s

\* The first m entries of s are those of q, of length n, with r put at p.
Placed(s, m, q, n, p, r) ==
  /\ n \in Nat /\ m \in Nat /\ m <= n + 1 /\ p \in 1 .. n + 1
  /\ \A i \in 1 .. m :
       \/ i < p /\ i \in 1 .. n /\ s[i] = q[i]
       \/ i = p /\ s[i] = r
       \/ i > p /\ i - 1 \in 1 .. n /\ s[i] = q[i - 1]

AtUpperBound(q, n, p, r) ==
  /\ r.size \in Nat /\ \A i \in 1 .. n : q[i].size \in Nat
  /\ \A j \in 1 .. p - 1 : q[j].size <= r.size
  /\ p <= n => q[p].size > r.size

Ordered(q, n) == \A k, l \in 1 .. n : k <= l => q[k].size <= q[l].size
Numbered(q, n) == \A k, l \in 1 .. n : k # l => q[k].id # q[l].id

\* Put at its upper bound, r keeps a sorted pool sorted.
LEMMA PlacedOrdered ==
  ASSUME NEW n, NEW m, NEW p, NEW q, NEW r, NEW s,
         Placed(s, m, q, n, p, r), AtUpperBound(q, n, p, r), Ordered(q, n)
  PROVE  Ordered(s, m)
<1> SUFFICES ASSUME NEW i \in 1 .. m, NEW j \in 1 .. m, i <= j
             PROVE  s[i].size <= s[j].size
  BY DEF Ordered
<1> USE DEF Placed, AtUpperBound, Ordered
<1>1. CASE j < p
  BY <1>1
<1>2. CASE j = p /\ i < p
  BY <1>2
<1>3. CASE j = p /\ i = p
  BY <1>3
<1>4. CASE j > p /\ i < p
  <2>1. i \in 1 .. n /\ j - 1 \in 1 .. n /\ i <= j - 1 /\ s[i] = q[i] /\ s[j] = q[j - 1]
    BY <1>4
  <2> QED BY <2>1
<1>5. CASE j > p /\ i = p
  <2>1. p \in 1 .. n /\ j - 1 \in 1 .. n /\ p <= j - 1 /\ s[i] = r /\ s[j] = q[j - 1]
    BY <1>5
  <2>2. q[p].size <= q[j - 1].size
    BY <2>1
  <2> QED BY <2>1, <2>2
<1>6. CASE i > p
  <2>1. i - 1 \in 1 .. n /\ j - 1 \in 1 .. n /\ s[i] = q[i - 1] /\ s[j] = q[j - 1]
    BY <1>6
  <2> QED BY <2>1
<1> QED BY <1>1, <1>2, <1>3, <1>4, <1>5, <1>6

\* A new number keeps the numbers of a pool distinct.
LEMMA PlacedNumbered ==
  ASSUME NEW n, NEW m, NEW p, NEW q, NEW r, NEW s,
         Placed(s, m, q, n, p, r), Numbered(q, n),
         \A k \in 1 .. n : q[k].id # r.id
  PROVE  Numbered(s, m)
<1> SUFFICES ASSUME NEW i \in 1 .. m, NEW j \in 1 .. m, i < j
             PROVE  s[i].id # s[j].id
  BY DEF Numbered, Placed
<1> USE DEF Placed, Numbered
<1>1. CASE j < p
  BY <1>1
<1>2. CASE j = p
  BY <1>2
<1>3. CASE i = p
  BY <1>3
<1>4. CASE j > p /\ i < p
  <2>1. i \in 1 .. n /\ j - 1 \in 1 .. n /\ i # j - 1 /\ s[i] = q[i] /\ s[j] = q[j - 1]
    BY <1>4
  <2> QED BY <2>1
<1>5. CASE i > p
  <2>1. /\ i - 1 \in 1 .. n /\ j - 1 \in 1 .. n /\ i - 1 # j - 1
        /\ s[i] = q[i - 1] /\ s[j] = q[j - 1]
    BY <1>5
  <2> QED BY <2>1
<1> QED BY <1>1, <1>2, <1>3, <1>4, <1>5

\* Posting keeps the pool sorted, its entries old ones or the new one, their
\* numbers distinct, and the smallest in front.
LEMMA JoinKeeps ==
  ASSUME NEW q \in Seq(Results), NEW r \in Results
  PROVE  /\ \A i \in 1 .. Len(Join(q, r)) :
              Join(q, r)[i] = r \/ \E k \in 1 .. Len(q) : Join(q, r)[i] = q[k]
         /\ SizesSorted(q) => SizesSorted(Join(q, r))
         /\ IdsDistinct(q) /\ (\A i \in DOMAIN q : q[i].id # r.id) => IdsDistinct(Join(q, r))
         /\ Join(q, r)[1] = IF q = <<>> \/ q[1].size > r.size THEN r ELSE q[1]
         /\ Insert(q, r)[1] = Join(q, r)[1]
<1> DEFINE s == Join(q, r)
           p == UpperBound(q, r.size)
<1>1. /\ r.size \in Nat /\ Len(q) \in Nat
      /\ \A i \in 1 .. Len(q) : q[i].size \in Nat
      /\ DOMAIN q = 1 .. Len(q)
  BY PoolEntries DEF Results
<1>2. /\ p \in 1 .. Len(q) + 1
      /\ \A j \in 1 .. p - 1 : q[j].size <= r.size
      /\ p <= Len(q) => q[p].size > r.size
  BY <1>1, UpperBoundExists
<1>3. /\ s \in Seq(Results) /\ Len(s) \in Nat /\ Len(s) >= 1 /\ Len(s) <= Len(q) + 1
      /\ DOMAIN s = 1 .. Len(s)
  BY JoinShape, JobRunnerAssumption
<1>4. \A i \in 1 .. Len(s) :
        s[i] = IF i < p THEN q[i] ELSE IF i = p THEN r ELSE q[i - 1]
  <2>1. \A i \in 1 .. Len(q) + 1 :
          Insert(q, r)[i] = IF i < p THEN q[i] ELSE IF i = p THEN r ELSE q[i - 1]
    BY InsertShape
  <2>2. \A i \in 1 .. Len(s) : s[i] = Insert(q, r)[i]
    BY JoinShape
  <2> HIDE DEF s, p
  <2>3. \A i \in 1 .. Len(s) : i \in 1 .. Len(q) + 1
    BY <1>1, <1>3
  <2> QED BY <2>1, <2>2, <2>3
<1>5. Insert(q, r)[1] = s[1]
  <2>1. 1 \in 1 .. Len(s)
    BY <1>3
  <2> QED BY <2>1, JoinShape
<1> HIDE DEF s, p
<1>6. Placed(s, Len(s), q, Len(q), p, r) /\ AtUpperBound(q, Len(q), p, r)
  BY <1>1, <1>2, <1>3, <1>4 DEF Placed, AtUpperBound
<1>7. ASSUME SizesSorted(q) PROVE SizesSorted(s)
  <2>1. Ordered(q, Len(q))
    BY <1>1, <1>7 DEF SizesSorted, Ordered
  <2>2. Ordered(s, Len(s))
    BY <1>6, <2>1, PlacedOrdered
  <2> QED BY <1>3, <2>2 DEF SizesSorted, Ordered
<1>8. ASSUME IdsDistinct(q), \A i \in DOMAIN q : q[i].id # r.id PROVE IdsDistinct(s)
  <2>1. Numbered(q, Len(q)) /\ \A k \in 1 .. Len(q) : q[k].id # r.id
    BY <1>1, <1>8 DEF IdsDistinct, Numbered
  <2>2. Numbered(s, Len(s))
    BY <1>6, <2>1, PlacedNumbered
  <2> QED BY <1>3, <2>2 DEF IdsDistinct, Numbered
<1>9. s[1] = IF q = <<>> \/ q[1].size > r.size THEN r ELSE q[1]
  <2>1. s[1] = IF 1 < p THEN q[1] ELSE r
    BY <1>2, <1>3, <1>4
  <2>2. q = <<>> <=> Len(q) = 0
    OBVIOUS
  <2>3. 1 < p <=> Len(q) >= 1 /\ ~ (q[1].size > r.size)
    BY <1>1, <1>2
  <2> QED BY <1>1, <2>1, <2>2, <2>3
<1>10. \A i \in 1 .. Len(s) : s[i] = r \/ \E k \in 1 .. Len(q) : s[i] = q[k]
  BY <1>6 DEF Placed
<1> QED BY <1>5, <1>7, <1>8, <1>9, <1>10 DEF s

-----------------------------------------------------------------------------
(* The threads                                                             *)

\* What Request hands out is a set of symbols of the program.
LEMMA RequestType ==
  ASSUME TypeOK, NEW t \in Threads, Request(t)
  PROVE  /\ symbols' \in Deletions
         /\ task' \in [Threads -> Deletions]
         /\ \/ pc' = [pc EXCEPT ![t] = "done"]
            \/ pc' = [pc EXCEPT ![t] = "run"]
<1>1. symbols' \in Deletions
  BY DEF Request, TypeOK, Deletions
<1>2. ASSUME NEW D \in Deletions, Start(t, D)
      PROVE  task' \in [Threads -> Deletions] /\ pc' = [pc EXCEPT ![t] = "run"]
  BY <1>2 DEF Start, TypeOK
<1>3. ASSUME Quit(t)
      PROVE  task' \in [Threads -> Deletions] /\ pc' = [pc EXCEPT ![t] = "done"]
  BY <1>3 DEF Quit, TypeOK
<1>4. /\ DOMAIN reduced = 1 .. Len(reduced) /\ Len(reduced) \in Nat
      /\ \A i \in 1 .. Len(reduced) : reduced[i].deleted \in Deletions
  <2>1. \A r \in Results : r.deleted \in Deletions
    BY DEF Results
  <2> QED BY <2>1, PoolEntries DEF TypeOK
<1>5. ASSUME NEW seed \in Seeds PROVE seed \in Deletions
  BY <1>4 DEF Seeds, Deletions
<1>6. ASSUME NEW seed \in Deletions, NEW D \in Extended(seed) PROVE D \in Deletions
  <2>0. PICK sizes : Extended(seed) = UNION { {seed \cup T : T \in Samples(symbols' \ seed, n)} : n \in sizes }
    BY DEF Extended
  <2>1. PICK n : \E T \in Samples(symbols' \ seed, n) : D = seed \cup T
    <3>1. D \in UNION { {seed \cup T : T \in Samples(symbols' \ seed, n)} : n \in sizes }
      BY <1>6, <2>0
    <3> QED BY <3>1
  <2> QED BY <1>1, <2>1 DEF Samples, Deletions
<1>7. ASSUME NEW D \in Combined PROVE D \in Deletions
  <2>0. PICK r0 \in 1 .. Len(reduced) \div 2 : D \in CombinedWith(r0)
    BY <1>7 DEF Combined
  <2>1. PICK n : \E T \in Samples(reduced[Len(reduced) + 1 - r0].deleted, n) :
            D = reduced[r0].deleted \cup T
    BY <2>0 DEF CombinedWith
  <2>2. r0 \in 1 .. Len(reduced) /\ Len(reduced) + 1 - r0 \in 1 .. Len(reduced)
    BY <1>4, <2>1
  <2> QED BY <1>4, <2>1, <2>2 DEF Samples, Deletions
<1>8. \/ Quit(t)
      \/ \E seed \in Seeds : \E D \in Extended(seed) : Start(t, D)
      \/ \E D \in Combined : Start(t, D)
  BY DEF Request
<1> QED BY <1>1, <1>2, <1>3, <1>5, <1>6, <1>7, <1>8

\* A step that only moves threads which are not about to post, and leaves
\* them not about to post, keeps what does not concern the file.
LEMMA QuietPool ==
  ASSUME IInv, NEW t \in Threads, ~ Posting(t), pc[t] # "done",
         NEW s, s # "post", pc' = [pc EXCEPT ![t] = s],
         UNCHANGED <<result, reduced, uid, best, passed>>
  PROVE  /\ PoolSorted' /\ IdsUnique' /\ ResultsExact'
         /\ NothingLost' /\ OnlyPassed' /\ AnswerFinal'
<1> USE DEF IInv, TypeOK
<1>0. \A u \in Threads : Posting(u)' <=> Posting(u)
  BY DEF Posting
<1>1. PoolSorted' /\ IdsUnique'
  BY DEF PoolSorted, IdsUnique
<1>2. ResultsExact'
  BY <1>0 DEF ResultsExact
<1>3. NothingLost' /\ OnlyPassed'
  BY <1>0 DEF NothingLost, OnlyPassed
<1>4. AnswerFinal'
  BY DEF AnswerFinal
<1> QED BY <1>1, <1>2, <1>3, <1>4

\* A step of a thread outside Write that stays outside and leaves the head of the
\* pool and the file alone keeps what concerns the file.
LEMMA QuietFile ==
  ASSUME IInv, NEW t \in Threads, ~ Writing(t),
         NEW s, s \notin {"open", "write"}, pc' = [pc EXCEPT ![t] = s],
         UNCHANGED disk, passed \subseteq passed',
         reduced' = <<>> <=> reduced = <<>>,
         reduced # <<>> => reduced'[1] = reduced[1]
  PROVE  FileInv'
<1> USE DEF IInv, TypeOK, disk
<1>0. \A u \in Threads : /\ Writing(u)' <=> Writing(u)
                         /\ pc'[u] = "write" <=> pc[u] = "write"
  BY DEF Writing
<1>1. OneWriter'
  BY <1>0 DEF FileInv, OneWriter
<1>2. FileSound'
  BY <1>0 DEF FileInv, FileSound
<1>3. LockFree' <=> LockFree
  BY <1>0 DEF LockFree, Writing
<1>4. FileCurrent'
  BY <1>3 DEF FileInv, FileCurrent, Whole, Old
<1> QED BY <1>1, <1>2, <1>4 DEF FileInv

LEMMA QuietStep ==
  ASSUME IInv, TypeOK', NEW t \in Threads, ~ Posting(t), ~ Writing(t), pc[t] # "done",
         NEW s, s \notin {"post", "open", "write"}, pc' = [pc EXCEPT ![t] = s],
         UNCHANGED <<result, reduced, uid, disk, best, passed>>
  PROVE  IInv'
<1>1. /\ PoolSorted' /\ IdsUnique' /\ ResultsExact'
      /\ NothingLost' /\ OnlyPassed' /\ AnswerFinal'
  BY QuietPool
<1>2. FileInv'
  BY QuietFile
<1> QED BY <1>1, <1>2 DEF IInv

\* Run: the candidate gets the next number and, if it passed, is on its way.
LEMMA RunStep ==
  ASSUME IInv, NEW t \in Threads, Run(t)
  PROVE  IInv'
<1> USE DEF IInv
<1>0. PICK pass \in BOOLEAN :
        /\ pc[t] = "run" /\ pc' = [pc EXCEPT ![t] = "post"]
        /\ uid' = uid + 1
        /\ result' = [result EXCEPT ![t] = [deleted |-> task[t], size |-> Size[task[t]],
                                            pass |-> pass, id |-> uid + 1]]
        /\ passed' = IF pass THEN passed \cup {Size[task[t]]} ELSE passed
        /\ task' = [task EXCEPT ![t] = {}]
        /\ UNCHANGED <<symbols, reduced, expired, disk, best>>
  BY DEF Run
<1> DEFINE r == [deleted |-> task[t], size |-> Size[task[t]], pass |-> pass, id |-> uid + 1]
<1>1. task[t] \in Deletions /\ Size[task[t]] \in Nat /\ uid \in Nat /\ uid + 1 \in Nat
  BY JobRunnerAssumption DEF TypeOK
<1>2. r \in Results
  BY <1>1 DEF Results
<1>3. TypeOK'
  <2>1. result' \in [Threads -> Results]
    BY <1>0, <1>2 DEF TypeOK
  <2>2. passed' \subseteq Nat
    BY <1>0, <1>1 DEF TypeOK
  <2> QED BY <1>0, <1>1, <2>1, <2>2 DEF TypeOK, disk, Deletions
<1>4. /\ r.size = Size[task[t]] /\ r.deleted = task[t] /\ r.pass = pass /\ r.id = uid + 1
      /\ result'[t] = r
      /\ \A u \in Threads : u # t => result'[u] = result[u]
      /\ Posting(t)' /\ ~ Posting(t)
      /\ \A u \in Threads : u # t => (Posting(u)' <=> Posting(u))
  BY <1>0 DEF TypeOK, Posting
<1> HIDE DEF r
<1>5. DOMAIN reduced = 1 .. Len(reduced) /\ \A i \in 1 .. Len(reduced) : reduced[i].id \in Nat
  BY PoolEntries DEF TypeOK
<1>6. PoolSorted' /\ FileInv'
  <2>1. ~ Writing(t) /\ passed \subseteq passed'
    BY <1>0 DEF Writing
  <2> QED BY <1>0, <2>1, QuietFile DEF PoolSorted
<1>7. IdsUnique'
  BY <1>0, <1>1 DEF IdsUnique
<1>8. ResultsExact'
  <2> SUFFICES ASSUME NEW u \in Threads, Posting(u)'
               PROVE  /\ result'[u].size = Size[result'[u].deleted]
                      /\ result'[u].id \in 1 .. uid'
                      /\ \A i \in DOMAIN reduced' : reduced'[i].id # result'[u].id
                      /\ \A w \in Threads : w # u /\ Posting(w)' => result'[w].id # result'[u].id
    BY DEF ResultsExact
  <2>1. \A i \in DOMAIN reduced : reduced[i].id \in 1 .. uid
    BY DEF IdsUnique
  <2>2. \A w \in Threads : w # t /\ Posting(w)' =>
          /\ result'[w].size = Size[result'[w].deleted]
          /\ result'[w].id \in 1 .. uid
          /\ \A i \in DOMAIN reduced : reduced[i].id # result'[w].id
    BY <1>4 DEF ResultsExact
  <2>3. CASE u = t
    <3>1. result'[u].id = uid + 1 /\ result'[u].size = Size[result'[u].deleted]
      BY <1>4, <2>3
    <3> QED BY <1>0, <1>1, <2>1, <2>2, <2>3, <3>1
  <2>4. CASE u # t
    <3>1. \A w \in Threads : w # u /\ w # t /\ Posting(w)' => result'[w].id # result'[u].id
      BY <1>4, <2>4 DEF ResultsExact
    <3>2. result'[t].id # result'[u].id
      BY <1>1, <1>4, <2>2, <2>4
    <3> QED BY <1>0, <1>1, <2>2, <2>4, <3>1, <3>2
  <2> QED BY <2>3, <2>4
<1>9. NothingLost'
  <2> SUFFICES ASSUME NEW n \in passed'
               PROVE  \/ \E u \in Threads : Posting(u)' /\ result'[u].pass /\ result'[u].size = n
                      \/ reduced' # <<>> /\ reduced'[1].size <= n
    BY DEF NothingLost
  <2>1. CASE n \in passed
    BY <1>0, <1>4, <2>1 DEF NothingLost
  <2>2. CASE n \notin passed
    BY <1>0, <1>4, <2>2
  <2> QED BY <2>1, <2>2
<1>10. OnlyPassed'
  BY <1>0, <1>4 DEF OnlyPassed
<1>11. AnswerFinal'
  BY <1>0 DEF AnswerFinal
<1> QED BY <1>3, <1>6, <1>7, <1>8, <1>9, <1>10, <1>11

\* Post: the result joins the pool or is thrown away.
LEMMA PostStep ==
  ASSUME IInv, NEW t \in Threads, Post(t)
  PROVE  /\ IInv'
         /\ reduced # <<>> => reduced' # <<>> /\ reduced'[1].size <= reduced[1].size
<1> USE DEF IInv
<1> DEFINE r == result[t]
<1>0. /\ pc[t] = "post" /\ LockFree
      /\ pc' = [pc EXCEPT ![t] = IF r.pass /\ OptCheckpoint /\ Improves(reduced, r)
                                  THEN "open" ELSE "loop"]
      /\ reduced' = IF r.pass THEN Join(reduced, r) ELSE reduced
      /\ result' = [result EXCEPT ![t] = NoResult]
      /\ UNCHANGED <<task, symbols, uid, expired, disk, best, passed>>
  BY DEF Post, Join
<1>1. r \in Results /\ r.deleted \in Deletions /\ r.size \in Nat /\ r.pass \in BOOLEAN
  BY DEF TypeOK, Results
<1>2. reduced \in Seq(Results) /\ reduced' \in Seq(Results)
  BY <1>0, <1>1, JoinShape DEF TypeOK
<1>3. /\ \A u \in Threads : Posting(u)' <=> u # t /\ Posting(u)
      /\ \A u \in Threads : u # t => result'[u] = result[u]
      /\ Posting(t)
  BY <1>0 DEF TypeOK, Posting
<1>4. /\ r.size = Size[r.deleted] /\ r.id \in 1 .. uid
      /\ \A i \in DOMAIN reduced : reduced[i].id # r.id
      /\ \A u \in Threads : u # t /\ Posting(u) => result[u].id # r.id
  BY <1>3 DEF ResultsExact
<1> HIDE DEF r
<1>5. /\ DOMAIN reduced = 1 .. Len(reduced) /\ Len(reduced) \in Nat
      /\ DOMAIN reduced' = 1 .. Len(reduced') /\ Len(reduced') \in Nat
      /\ \A i \in 1 .. Len(reduced) : reduced[i].size \in Nat
      /\ \A i \in 1 .. Len(reduced') : reduced'[i].size \in Nat
      /\ reduced = <<>> <=> Len(reduced) = 0
      /\ reduced' = <<>> <=> Len(reduced') = 0
  BY <1>2, PoolEntries
<1>6. \A i \in DOMAIN reduced' :
        \/ r.pass /\ reduced'[i] = r
        \/ \E k \in DOMAIN reduced : reduced'[i] = reduced[k]
  <2>1. CASE r.pass
    <3>1. reduced' = Join(reduced, r)
      BY <1>0, <2>1
    <3>2. \A i \in 1 .. Len(Join(reduced, r)) :
            Join(reduced, r)[i] = r \/ \E k \in 1 .. Len(reduced) : Join(reduced, r)[i] = reduced[k]
      BY <1>1, <1>2, JoinKeeps
    <3> QED BY <1>5, <2>1, <3>1, <3>2
  <2>2. CASE ~ r.pass
    BY <1>0, <2>2
  <2> QED BY <2>1, <2>2
<1>7. ASSUME r.pass
      PROVE  /\ reduced' # <<>>
             /\ reduced'[1] = IF reduced = <<>> \/ reduced[1].size > r.size
                                THEN r ELSE reduced[1]
             /\ reduced'[1] = Insert(reduced, r)[1]
  <2>1. reduced' = Join(reduced, r)
    BY <1>0, <1>7
  <2>2. Len(Join(reduced, r)) >= 1
    BY <1>1, <1>2, JoinShape, JobRunnerAssumption
  <2>3. /\ Join(reduced, r)[1] = IF reduced = <<>> \/ reduced[1].size > r.size
                                   THEN r ELSE reduced[1]
        /\ Insert(reduced, r)[1] = Join(reduced, r)[1]
    BY <1>1, <1>2, JoinKeeps
  <2>4. reduced' # <<>>
    BY <1>5, <2>1, <2>2
  <2> QED BY <2>1, <2>3, <2>4
<1>8. TypeOK'
  <2>1. NoResult \in Results
    BY DEF NoResult, Results, Deletions
  <2>2. result' \in [Threads -> Results]
    BY <1>0, <2>1 DEF TypeOK
  <2> QED BY <1>0, <1>2, <2>2 DEF TypeOK, disk
<1>9. PoolSorted'
  <2>1. Len(reduced') <= OptPool
    <3>1. CASE r.pass
      BY <1>0, <1>1, <1>2, <3>1, JoinShape, JobRunnerAssumption
    <3>2. CASE ~ r.pass
      BY <1>0, <3>2 DEF PoolSorted
    <3> QED BY <3>1, <3>2
  <2>2. SizesSorted(reduced) /\ SizesSorted(reduced')
    <3>1. SizesSorted(reduced)
      BY DEF PoolSorted, SizesSorted
    <3>2. CASE r.pass
      BY <1>0, <1>1, <1>2, <3>1, <3>2, JoinKeeps
    <3>3. CASE ~ r.pass
      BY <1>0, <3>1, <3>3
    <3> QED BY <3>1, <3>2, <3>3
  <2>3. \A i \in DOMAIN reduced' :
          reduced'[i].pass /\ reduced'[i].size = Size[reduced'[i].deleted]
    BY <1>4, <1>6 DEF PoolSorted
  <2> QED BY <2>1, <2>2, <2>3 DEF PoolSorted, SizesSorted
<1>10. IdsUnique'
  <2>1. IdsDistinct(reduced')
    <3>1. IdsDistinct(reduced)
      BY DEF IdsUnique, IdsDistinct
    <3>2. CASE r.pass
      BY <1>0, <1>1, <1>2, <1>4, <3>1, <3>2, JoinKeeps
    <3>3. CASE ~ r.pass
      BY <1>0, <3>1, <3>3
    <3> QED BY <3>2, <3>3
  <2>2. \A i \in DOMAIN reduced' : reduced'[i].id \in 1 .. uid'
    BY <1>0, <1>4, <1>6 DEF IdsUnique
  <2> QED BY <2>1, <2>2 DEF IdsUnique, IdsDistinct
<1>11. FileInv'
  <2>1. \A u \in Threads : ~ Writing(u) /\ pc[u] # "write"
    BY <1>0 DEF LockFree, Writing
  <2>2. CASE r.pass /\ OptCheckpoint /\ Improves(reduced, r)
    <3>1. /\ \A u \in Threads : Writing(u)' <=> u = t
          /\ \A u \in Threads : pc'[u] # "write"
      BY <1>0, <2>1, <2>2 DEF TypeOK, Writing
    <3>2. OneWriter'
      BY <1>7, <2>2, <3>1 DEF OneWriter
    <3>3. FileSound'
      BY <1>0, <2>1, <3>1 DEF FileInv, FileSound, disk
    <3>4. ~ LockFree'
      BY <3>1 DEF LockFree, Writing
    <3> QED BY <3>2, <3>3, <3>4 DEF FileInv, FileCurrent
  <2>3. CASE ~ (r.pass /\ OptCheckpoint /\ Improves(reduced, r))
    <3>1. /\ \A u \in Threads : ~ Writing(u)' /\ pc'[u] # "write"
          /\ pc' = [pc EXCEPT ![t] = "loop"]
      BY <1>0, <2>1, <2>3 DEF TypeOK, Writing
    <3>2. OneWriter'
      BY <3>1 DEF OneWriter
    <3>3. FileSound'
      BY <1>0, <2>1, <3>1 DEF FileInv, FileSound, disk
    <3>4. ASSUME OptCheckpoint
          PROVE  /\ reduced' = <<>> <=> reduced = <<>>
                 /\ reduced # <<>> => reduced'[1] = reduced[1]
      <4>1. CASE ~ r.pass
        BY <1>0, <4>1
      <4>2. CASE r.pass
        <5>1. ~ Improves(reduced, r)
          BY <2>3, <3>4, <4>2
        <5>2. reduced # <<>> /\ ~ (reduced[1].size > reduced'[1].size)
          BY <1>7, <4>2, <5>1 DEF Improves
        <5>3. CASE reduced[1].size > r.size
          BY <1>7, <4>2, <5>2, <5>3
        <5>4. CASE ~ (reduced[1].size > r.size)
          BY <1>7, <4>2, <5>2, <5>4
        <5> QED BY <5>3, <5>4
      <4> QED BY <4>1, <4>2
    <3>5. FileCurrent'
      BY <1>0, <3>4 DEF FileInv, FileCurrent, Whole, Old, disk
    <3> QED BY <3>2, <3>3, <3>5 DEF FileInv
  <2> QED BY <2>2, <2>3
<1>12. ResultsExact'
  <2> SUFFICES ASSUME NEW u \in Threads, Posting(u)'
               PROVE  /\ result'[u].size = Size[result'[u].deleted]
                      /\ result'[u].id \in 1 .. uid'
                      /\ \A i \in DOMAIN reduced' : reduced'[i].id # result'[u].id
                      /\ \A w \in Threads : w # u /\ Posting(w)' => result'[w].id # result'[u].id
    BY DEF ResultsExact
  <2>1. u # t /\ Posting(u) /\ result'[u] = result[u] /\ result[u].id # r.id
    BY <1>3, <1>4
  <2>2. \A i \in DOMAIN reduced' : reduced'[i].id # result'[u].id
    BY <1>6, <2>1 DEF ResultsExact
  <2> QED BY <1>0, <1>3, <2>1, <2>2 DEF ResultsExact
<1>13. reduced # <<>> => reduced' # <<>> /\ reduced'[1].size <= reduced[1].size
  <2>1. CASE r.pass
    BY <1>1, <1>5, <1>7, <2>1
  <2>2. CASE ~ r.pass
    BY <1>0, <1>5, <2>2
  <2> QED BY <2>1, <2>2
<1>14. NothingLost'
  <2> SUFFICES ASSUME NEW n \in passed
               PROVE  \/ \E u \in Threads : Posting(u)' /\ result'[u].pass /\ result'[u].size = n
                      \/ reduced' # <<>> /\ reduced'[1].size <= n
    BY <1>0 DEF NothingLost
  <2>0. n \in Nat
    BY DEF TypeOK
  <2>1. CASE reduced # <<>> /\ reduced[1].size <= n
    <3>1. reduced' # <<>> /\ reduced'[1].size <= reduced[1].size
      BY <1>13, <2>1
    <3>2. reduced'[1].size \in Nat /\ reduced[1].size \in Nat
      BY <1>5, <2>1, <3>1
    <3> QED BY <2>0, <2>1, <3>1, <3>2
  <2>2. ASSUME NEW u \in Threads, Posting(u), result[u].pass, result[u].size = n, u # t
        PROVE  Posting(u)' /\ result'[u].pass /\ result'[u].size = n
    BY <1>3, <2>2
  <2>3. CASE r.pass /\ r.size = n
    BY <1>1, <1>5, <1>7, <2>3
  <2> QED BY <2>1, <2>2, <2>3 DEF NothingLost, r
<1>15. OnlyPassed'
  <2>1. \A i \in DOMAIN reduced' : reduced'[i].size \in passed'
    <3>1. r.pass => r.size \in passed
      BY <1>3 DEF OnlyPassed, r
    <3> QED BY <1>0, <1>6, <3>1 DEF OnlyPassed
  <2>2. \A u \in Threads : Posting(u)' /\ result'[u].pass => result'[u].size \in passed'
    BY <1>0, <1>3 DEF OnlyPassed
  <2> QED BY <2>1, <2>2 DEF OnlyPassed
<1>16. AnswerFinal'
  BY <1>0 DEF AnswerFinal
<1> QED BY <1>8, <1>9, <1>10, <1>11, <1>12, <1>13, <1>14, <1>15, <1>16

\* Write: the file is cut short, left alone, or made the best program.
LEMMA WriteStep ==
  ASSUME IInv, NEW t \in Threads, Write(t)
  PROVE  IInv' /\ reduced' = reduced
<1> USE DEF IInv
<1>0. /\ Writing(t) /\ ~ Posting(t) /\ pc[t] # "done"
      /\ UNCHANGED <<task, result, symbols, reduced, uid, expired, best, passed>>
  BY DEF Write, OpenOutput, OpenFails, WriteOutput, Writing, Posting
<1>1. reduced # <<>> /\ \A u \in Threads : u # t => ~ Writing(u)
  BY <1>0 DEF FileInv, OneWriter
<1>2. /\ reduced[1].deleted \in Deletions
      /\ Size[reduced[1].deleted] \in passed
  <2>1. 1 \in DOMAIN reduced /\ reduced[1] \in Results
    BY <1>1, PoolEntries DEF TypeOK
  <2>2. reduced[1].size = Size[reduced[1].deleted] /\ reduced[1].size \in passed
    BY <2>1 DEF PoolSorted, OnlyPassed
  <2> QED BY <2>1, <2>2 DEF Results
<1>3. CASE OpenOutput(t)
  <2>1. pc' = [pc EXCEPT ![t] = "write"] /\ file' = Partial /\ missed' = missed
    BY <1>3 DEF OpenOutput
  <2>2. /\ \A u \in Threads : Writing(u)' <=> u = t
        /\ pc'[t] = "write"
    BY <1>1, <2>1 DEF TypeOK, Writing
  <2>3. TypeOK'
    BY <1>0, <2>1 DEF TypeOK, Files, Partial
  <2>4. OneWriter' /\ FileSound'
    BY <1>0, <1>1, <2>1, <2>2 DEF OneWriter, FileSound, Partial
  <2>5. ~ LockFree'
    BY <2>2 DEF LockFree
  <2>6. FileInv'
    BY <2>4, <2>5 DEF FileInv, FileCurrent
  <2>7. /\ PoolSorted' /\ IdsUnique' /\ ResultsExact'
        /\ NothingLost' /\ OnlyPassed' /\ AnswerFinal'
    BY <1>0, <2>1, QuietPool
  <2> QED BY <1>0, <2>3, <2>6, <2>7
<1>4. CASE OpenFails(t)
  <2>1. /\ pc[t] = "open" /\ pc' = [pc EXCEPT ![t] = "loop"]
        /\ file' = file /\ missed' = TRUE
    BY <1>4 DEF OpenFails
  <2>2. \A u \in Threads : ~ Writing(u)' /\ pc'[u] # "write" /\ pc[u] # "write"
    BY <1>1, <2>1 DEF TypeOK, Writing
  <2>3. TypeOK'
    BY <1>0, <2>1 DEF TypeOK
  <2>4. OneWriter' /\ FileSound'
    BY <1>0, <2>1, <2>2 DEF OneWriter, FileInv, FileSound
  <2>5. FileInv'
    BY <2>1, <2>4 DEF FileInv, FileCurrent
  <2>6. /\ PoolSorted' /\ IdsUnique' /\ ResultsExact'
        /\ NothingLost' /\ OnlyPassed' /\ AnswerFinal'
    BY <1>0, <2>1, QuietPool
  <2> QED BY <1>0, <2>3, <2>5, <2>6
<1>5. CASE WriteOutput(t)
  <2>1. /\ pc' = [pc EXCEPT ![t] = "loop"]
        /\ file' = Whole(reduced[1].deleted) /\ missed' = FALSE
    BY <1>5 DEF WriteOutput
  <2>2. \A u \in Threads : ~ Writing(u)' /\ pc'[u] # "write"
    BY <1>1, <2>1 DEF TypeOK, Writing
  <2>3. TypeOK'
    BY <1>0, <1>2, <2>1 DEF TypeOK, Files, Whole
  <2>4. OneWriter' /\ FileSound'
    BY <1>0, <1>2, <2>1, <2>2 DEF OneWriter, FileSound, Whole
  <2>5. FileCurrent'
    BY <1>0, <1>1, <2>1 DEF FileCurrent, Whole
  <2>6. /\ PoolSorted' /\ IdsUnique' /\ ResultsExact'
        /\ NothingLost' /\ OnlyPassed' /\ AnswerFinal'
    BY <1>0, <2>1, QuietPool
  <2> QED BY <1>0, <2>3, <2>4, <2>5, <2>6 DEF FileInv
<1> QED BY <1>3, <1>4, <1>5 DEF Write

-----------------------------------------------------------------------------
(* The theorems                                                            *)

\* The search starts with an empty pool and nothing under way.
LEMMA InitInv == Init => IInv
<1> SUFFICES ASSUME Init PROVE IInv
  OBVIOUS
<1> USE DEF Init
<1>1. NoResult \in Results /\ {} \in Deletions
  BY DEF NoResult, Results, Deletions
<1>2. TypeOK
  <2>1. /\ pc \in [Threads -> {"loop", "request", "run", "post", "open", "write", "done"}]
        /\ task \in [Threads -> Deletions]
        /\ result \in [Threads -> Results]
    BY <1>1
  <2>2. reduced \in Seq(Results) /\ best \in Seq(Deletions)
    OBVIOUS
  <2>3. symbols \in Deletions /\ uid \in Nat /\ expired \in BOOLEAN /\ file \in Files
    BY <1>1 DEF Files, Old
  <2> QED BY <2>1, <2>2, <2>3 DEF TypeOK
<1>3. DOMAIN reduced = {} /\ Len(reduced) = 0
  OBVIOUS
<1>4. PoolSorted /\ IdsUnique
  BY <1>3, JobRunnerAssumption DEF PoolSorted, IdsUnique
<1>5. AnswerFinal /\ NothingLost
  BY DEF AnswerFinal, NothingLost
<1>7. FileInv
  BY DEF FileInv, OneWriter, FileSound, FileCurrent, Writing, Old
<1>6. ResultsExact /\ OnlyPassed
  BY <1>3 DEF ResultsExact, OnlyPassed, Posting
<1> QED BY <1>2, <1>4, <1>5, <1>6, <1>7 DEF IInv

\* Every step of every thread keeps the inductive invariant, and the best
\* result only gets smaller.
LEMMA StepInv ==
  ASSUME IInv, [Next]_vars
  PROVE  /\ IInv'
         /\ reduced # <<>> => reduced' # <<>> /\ reduced'[1].size <= reduced[1].size
<1>0. reduced # <<>> => reduced[1].size <= reduced[1].size
  <2>1. reduced # <<>> => reduced[1].size \in Nat
    BY PoolEntries DEF IInv, TypeOK
  <2> QED BY <2>1
<1>1. ASSUME NEW t \in Threads, Loop(t) PROVE IInv' /\ reduced' = reduced
  <2>1. /\ TypeOK' /\ ~ Posting(t) /\ ~ Writing(t) /\ pc[t] # "done"
        /\ UNCHANGED <<result, reduced, uid, disk, best, passed>>
    BY <1>1 DEF Loop, IInv, TypeOK, Posting, Writing, disk
  <2>2. PICK s : s \notin {"post", "open", "write"} /\ pc' = [pc EXCEPT ![t] = s]
    BY <1>1 DEF Loop
  <2> QED BY <2>1, <2>2, QuietStep
<1>2. ASSUME NEW t \in Threads, Request(t) PROVE IInv' /\ reduced' = reduced
  <2>1. /\ ~ Posting(t) /\ ~ Writing(t) /\ pc[t] # "done"
        /\ UNCHANGED <<result, reduced, uid, expired, disk, best, passed>>
    BY <1>2 DEF Request, Posting, Writing
  <2>2. PICK s \in {"done", "run"} : pc' = [pc EXCEPT ![t] = s]
    BY <1>2, RequestType DEF IInv
  <2>3. symbols' \in Deletions /\ task' \in [Threads -> Deletions]
    BY <1>2, RequestType DEF IInv
  <2>4. TypeOK'
    BY <2>1, <2>2, <2>3 DEF IInv, TypeOK, disk
  <2>5. s \notin {"post", "open", "write"}
    BY <2>2
  <2> QED BY <2>1, <2>2, <2>4, <2>5, QuietStep
<1>3. ASSUME NEW t \in Threads, Run(t) PROVE IInv' /\ reduced' = reduced
  BY <1>3, RunStep DEF Run
<1>4. ASSUME NEW t \in Threads, Post(t)
      PROVE  /\ IInv'
             /\ reduced # <<>> => reduced' # <<>> /\ reduced'[1].size <= reduced[1].size
  BY <1>4, PostStep
<1>7. ASSUME NEW t \in Threads, Write(t) PROVE IInv' /\ reduced' = reduced
  BY <1>7, WriteStep
<1>5. ASSUME GetBest PROVE IInv' /\ reduced' = reduced
  <2>1. /\ \A t \in Threads : pc[t] = "done"
        /\ best' = <<IF reduced = <<>> THEN {} ELSE reduced[1].deleted>>
        /\ UNCHANGED <<pc, task, result, symbols, reduced, uid, expired, disk, passed>>
    BY <1>5 DEF GetBest
  <2>2. (IF reduced = <<>> THEN {} ELSE reduced[1].deleted) \in Deletions
    <3>1. \A r \in Results : r.deleted \in Deletions
      BY DEF Results
    <3> QED BY <3>1, PoolEntries DEF IInv, TypeOK, Deletions
  <2>3. TypeOK'
    BY <2>1, <2>2 DEF IInv, TypeOK, disk
  <2>4. PoolSorted' /\ IdsUnique' /\ FileInv'
    BY <2>1 DEF IInv, PoolSorted, IdsUnique, FileInv, OneWriter, FileSound, FileCurrent,
                Writing, LockFree, disk
  <2>5. ResultsExact' /\ NothingLost' /\ OnlyPassed'
    BY <2>1 DEF IInv, ResultsExact, NothingLost, OnlyPassed, Posting
  <2>6. AnswerFinal'
    BY <2>1 DEF AnswerFinal
  <2> QED BY <2>1, <2>3, <2>4, <2>5, <2>6 DEF IInv
<1>6. ASSUME Expire \/ Finished \/ UNCHANGED vars PROVE IInv' /\ reduced' = reduced
  <2>1. UNCHANGED <<pc, task, result, symbols, reduced, uid, disk, best, passed>>
    BY <1>6 DEF Expire, Finished, vars
  <2>2. expired' \in BOOLEAN
    BY <1>6 DEF Expire, Finished, vars, IInv, TypeOK
  <2>3. TypeOK'
    BY <2>1, <2>2 DEF IInv, TypeOK, disk
  <2>4. PoolSorted' /\ IdsUnique' /\ FileInv'
    BY <2>1 DEF IInv, PoolSorted, IdsUnique, FileInv, OneWriter, FileSound, FileCurrent,
                Writing, LockFree, disk
  <2>5. ResultsExact' /\ NothingLost' /\ OnlyPassed' /\ AnswerFinal'
    BY <2>1 DEF IInv, ResultsExact, NothingLost, OnlyPassed, AnswerFinal, Posting
  <2> QED BY <2>1, <2>3, <2>4, <2>5 DEF IInv
<1> QED BY <1>0, <1>1, <1>2, <1>3, <1>4, <1>5, <1>6, <1>7 DEF Next, Write

\* When the reducer answers, nothing is on its way: the best of the pool is the
\* smallest of all the programs that passed.
LEMMA InvAnswers == IInv => BestIsSmallest
<1> SUFFICES ASSUME IInv, best # <<>>, passed # {}
             PROVE  /\ Size[best[1]] \in passed
                    /\ \A n \in passed : Size[best[1]] <= n
  BY DEF BestIsSmallest
<1>1. \A t \in Threads : ~ Posting(t)
  BY DEF IInv, AnswerFinal, Posting
<1>2. reduced # <<>> /\ \A n \in passed : reduced[1].size <= n
  BY <1>1 DEF IInv, NothingLost
<1>3. best[1] = reduced[1].deleted
  BY <1>2 DEF IInv, AnswerFinal
<1>4. 1 \in DOMAIN reduced
  BY <1>2 DEF IInv, TypeOK
<1>5. reduced[1].size = Size[reduced[1].deleted] /\ reduced[1].size \in passed
  BY <1>4 DEF IInv, PoolSorted, OnlyPassed
<1> QED BY <1>2, <1>3, <1>5

\* The search keeps its inductive invariant.
THEOREM SpecInv == Spec => []IInv
<1>1. IInv /\ [Next]_vars => IInv'
  BY StepInv
<1> QED BY InitInv, <1>1, PTL DEF Spec

\* Whatever the order in which threads post, the pool is sorted, bounded and
\* holds only programs that passed, under distinct numbers.
THEOREM PoolCorrect == Spec => [](TypeOK /\ PoolSorted /\ IdsUnique)
<1>1. IInv => TypeOK /\ PoolSorted /\ IdsUnique
  BY DEF IInv
<1> QED BY SpecInv, <1>1, PTL

\* The file is the head of the pool, and of all that passed only results that
\* were not posted yet can be smaller.
LEMMA InvCheckpoint == IInv => CheckpointIsBest
<1> SUFFICES ASSUME IInv, OptCheckpoint PROVE CheckpointIsBest
  BY DEF CheckpointIsBest
<1>1. ASSUME LockFree, ~missed, NEW n \in passed
      PROVE  OnItsWay(n) \/ (file.kind = "whole" /\ Size[file.deleted] <= n)
  <2>1. CASE \E t \in Threads : Posting(t) /\ result[t].pass /\ result[t].size = n
    BY <2>1 DEF OnItsWay, Posting
  <2>2. CASE reduced # <<>> /\ reduced[1].size <= n
    <3>1. file = Whole(reduced[1].deleted)
      BY <1>1, <2>2 DEF IInv, FileInv, FileCurrent
    <3>2. 1 \in DOMAIN reduced
      BY <2>2, PoolEntries DEF IInv, TypeOK
    <3>3. reduced[1].size = Size[reduced[1].deleted]
      BY <3>2 DEF IInv, PoolSorted
    <3> QED BY <2>2, <3>1, <3>3 DEF Whole
  <2> QED BY <2>1, <2>2 DEF IInv, NothingLost
<1> QED BY <1>1 DEF CheckpointIsBest, IInv, FileInv, FileSound

\* An interruption leaves a part of a program in the output only within Write.
\* Outside it the output is a program that passed, as small as any that was
\* posted, unless the last Write could not open it.
THEOREM CheckpointCorrect == Spec => []CheckpointIsBest
BY SpecInv, InvCheckpoint, PTL

\* The answer is the smallest program that passed.
THEOREM AnswerCorrect == Spec => []BestIsSmallest
BY SpecInv, InvAnswers, PTL

\* No post makes the best program worse.
THEOREM BestNeverWorse == Spec => BestImproves
<1>1. IInv /\ [Next]_vars =>
        [reduced # <<>> => reduced' # <<>> /\ reduced'[1].size <= reduced[1].size]_vars
  BY StepInv
<1> QED BY SpecInv, <1>1, PTL DEF Spec, BestImproves

=============================================================================
