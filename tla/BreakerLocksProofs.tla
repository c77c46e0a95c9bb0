-------------------------- MODULE BreakerLocksProofs --------------------------
(***************************************************************************)
(* Proof that the lock operations of circuit_breaker.py follow one global *)
(* order (LockOrder) for any number of threads, as long as no thread reads *)
(* get_stats: whatever call, reset, register and reset_all interleave,     *)
(* a thread about to take a lock holds only locks of smaller rank.        *)
(*                                                                         *)
(* The argument reads each thread's remaining lock operations: what a     *)
(* thread holds is exactly what its remaining program still releases      *)
(* before taking it again, and every program of the breaker is well       *)
(* formed (each acquisition is closed by a release, nothing is released   *)
(* twice, and locks are nested in rank order).  Both facts survive every *)
(* step, because a step only removes the first operation of a program.    *)
(***************************************************************************)
EXTENDS BreakerLocks, SequenceTheorems, TLAPS

(* A lock operation.                                                       *)
Op == {Acq(l) : l \in Locks} \cup {Rel(l) : l \in Locks}

(* The remaining program s releases l before it next takes it: the thread *)
(* running s holds l.                                                      *)
Pending(s, l) ==
    \E k \in 1..Len(s) : s[k] = Rel(l) /\ \A j \in 1..k - 1 : s[j] # Acq(l)

(* Within s, a lock still held when m is taken has a smaller rank than m. *)
Ordered(s) ==
    \A i, k \in 1..Len(s) : \A m, l \in Locks :
        /\ i < k /\ s[i] = Acq(m) /\ s[k] = Rel(l)
        /\ \A j \in i..k - 1 : s[j] # Acq(l)
        => Rank(l) < Rank(m)

(* Every acquisition in s is followed by the release of that lock, with   *)
(* no other operation on it in between.                                    *)
Closed(s) ==
    \A i \in 1..Len(s) : \A m \in Locks :
        s[i] = Acq(m) =>
            \E k \in i + 1..Len(s) :
                /\ s[k] = Rel(m)
                /\ \A j \in i + 1..k - 1 : s[j] # Acq(m) /\ s[j] # Rel(m)

(* Between two releases of a lock in s, the lock is taken again.           *)
SingleRelease(s) ==
    \A i, k \in 1..Len(s) : \A m \in Locks :
        i < k /\ s[i] = Rel(m) /\ s[k] = Rel(m) =>
            \E j \in i + 1..k - 1 : s[j] = Acq(m)

WellFormed(s) == s \in Seq(Op) /\ Ordered(s) /\ Closed(s) /\ SingleRelease(s)

(* The inductive invariant: each lock has at most one owner, each thread's *)
(* remaining program is well formed, and a thread owns exactly the locks  *)
(* its remaining program still has to release.                             *)
IInv ==
    /\ owner \in [Locks -> Threads \cup {NoOwner}]
    /\ prog \in [Threads -> Seq(Op)]
    /\ \A t \in Threads : WellFormed(prog[t])
    /\ \A t \in Threads : \A l \in Locks : owner[l] = t <=> Pending(prog[t], l)

-----------------------------------------------------------------------------
(* Lemmas about the remaining program when its first operation is done.    *)

(* Each step of a thread removes the first operation of its program and   *)
(* keeps what the rest of the program releases and takes.                   *)
LEMMA TailWellFormed ==
    ASSUME NEW s, WellFormed(s), s # <<>>
    PROVE  WellFormed(Tail(s))
<1> DEFINE r == Tail(s)
<1>1. /\ r \in Seq(Op) /\ Len(r) = Len(s) - 1
      /\ \A i \in 1..Len(r) : r[i] = s[i + 1]
    BY HeadTailProperties DEF WellFormed
<1>2. Ordered(r)
    <2> SUFFICES ASSUME NEW i \in 1..Len(r), NEW k \in 1..Len(r),
                        NEW m \in Locks, NEW l \in Locks,
                        i < k, r[i] = Acq(m), r[k] = Rel(l),
                        \A j \in i..k - 1 : r[j] # Acq(l)
                 PROVE  Rank(l) < Rank(m)
        BY Zenon DEF Ordered
    <2>1. \A j \in i + 1..k : s[j] # Acq(l)
        BY <1>1
    <2>2. s[i + 1] = Acq(m) /\ s[k + 1] = Rel(l)
        BY <1>1
    <2>3. i + 1 \in 1..Len(s) /\ k + 1 \in 1..Len(s) /\ i + 1 < k + 1
        BY <1>1
    <2> QED
        BY <2>1, <2>2, <2>3 DEF WellFormed, Ordered
<1>3. Closed(r)
    <2> SUFFICES ASSUME NEW i \in 1..Len(r), NEW m \in Locks, r[i] = Acq(m)
                 PROVE  \E k \in i + 1..Len(r) :
                            /\ r[k] = Rel(m)
                            /\ \A j \in i + 1..k - 1 : r[j] # Acq(m) /\ r[j] # Rel(m)
        BY Zenon DEF Closed
    <2>1. i + 1 \in 1..Len(s) /\ s[i + 1] = Acq(m)
        BY <1>1
    <2>2. PICK k \in i + 2..Len(s) :
              /\ s[k] = Rel(m)
              /\ \A j \in i + 2..k - 1 : s[j] # Acq(m) /\ s[j] # Rel(m)
        BY <2>1 DEF WellFormed, Closed
    <2>3. /\ k - 1 \in i + 1..Len(r) /\ r[k - 1] = Rel(m)
          /\ \A j \in i + 1..k - 2 : r[j] # Acq(m) /\ r[j] # Rel(m)
        BY <1>1, <2>2
    <2> QED
        BY <2>3
<1>4. SingleRelease(r)
    <2> SUFFICES ASSUME NEW i \in 1..Len(r), NEW k \in 1..Len(r), NEW m \in Locks,
                        i < k, r[i] = Rel(m), r[k] = Rel(m)
                 PROVE  \E j \in i + 1..k - 1 : r[j] = Acq(m)
        BY Zenon DEF SingleRelease
    <2>1. /\ i + 1 \in 1..Len(s) /\ k + 1 \in 1..Len(s) /\ i + 1 < k + 1
          /\ s[i + 1] = Rel(m) /\ s[k + 1] = Rel(m)
        BY <1>1
    <2>2. PICK j \in i + 2..k : s[j] = Acq(m)
        BY <2>1 DEF WellFormed, SingleRelease
    <2> QED
        BY <1>1, <2>2
<1> QED
    BY <1>1, <1>2, <1>3, <1>4 DEF WellFormed

(* An operation on another lock does not change whether l is held.        *)
LEMMA PendingTail ==
    ASSUME NEW s \in Seq(Op), s # <<>>, NEW l,
           s[1] # Acq(l), s[1] # Rel(l)
    PROVE  Pending(Tail(s), l) <=> Pending(s, l)
<1>1. /\ Len(Tail(s)) = Len(s) - 1
      /\ \A i \in 1..Len(Tail(s)) : Tail(s)[i] = s[i + 1]
    BY HeadTailProperties
<1>2. ASSUME Pending(Tail(s), l) PROVE Pending(s, l)
    <2>1. PICK k \in 1..Len(Tail(s)) :
              Tail(s)[k] = Rel(l) /\ \A j \in 1..k - 1 : Tail(s)[j] # Acq(l)
        BY <1>2 DEF Pending
    <2>2. \A j \in 2..k : s[j] = Tail(s)[j - 1]
        BY <1>1
    <2>3. \A j \in 2..k : s[j] # Acq(l)
        <3> SUFFICES ASSUME NEW j \in 2..k PROVE s[j] # Acq(l)
            OBVIOUS
        <3>1. j - 1 \in 1..k - 1 /\ s[j] = Tail(s)[j - 1]
            BY <2>2
        <3> QED
            BY <2>1, <3>1
    <2>4. /\ k + 1 \in 1..Len(s) /\ s[k + 1] = Rel(l)
          /\ \A j \in 1..k : s[j] # Acq(l)
        BY <1>1, <2>1, <2>3
    <2> QED
        BY <2>4 DEF Pending
<1>3. ASSUME Pending(s, l) PROVE Pending(Tail(s), l)
    <2>1. PICK k \in 1..Len(s) :
              s[k] = Rel(l) /\ \A j \in 1..k - 1 : s[j] # Acq(l)
        BY <1>3 DEF Pending
    <2>2. /\ k - 1 \in 1..Len(Tail(s)) /\ Tail(s)[k - 1] = Rel(l)
          /\ \A j \in 1..k - 2 : Tail(s)[j] # Acq(l)
        BY <1>1, <2>1
    <2> QED
        BY <2>2 DEF Pending
<1> QED
    BY <1>2, <1>3

(* After `with lock:` is entered for m, the thread holds m: the program   *)
(* releases it before taking it again.  It did not hold m before.          *)
LEMMA PendingAcquire ==
    ASSUME NEW s, WellFormed(s), s # <<>>, NEW m \in Locks, s[1] = Acq(m)
    PROVE  Pending(Tail(s), m) /\ ~Pending(s, m)
<1>1. /\ s \in Seq(Op)
      /\ Len(Tail(s)) = Len(s) - 1
      /\ \A i \in 1..Len(Tail(s)) : Tail(s)[i] = s[i + 1]
    BY HeadTailProperties DEF WellFormed
<1>2. PICK k \in 2..Len(s) :
          s[k] = Rel(m) /\ \A j \in 2..k - 1 : s[j] # Acq(m) /\ s[j] # Rel(m)
    BY <1>1 DEF WellFormed, Closed
<1>3. Pending(Tail(s), m)
    <2>1. k - 1 \in 1..Len(Tail(s)) /\ Tail(s)[k - 1] = Rel(m)
        BY <1>1, <1>2
    <2>2. \A j \in 1..(k - 1) - 1 : Tail(s)[j] # Acq(m)
        <3> SUFFICES ASSUME NEW j \in 1..(k - 1) - 1 PROVE Tail(s)[j] # Acq(m)
            OBVIOUS
        <3>1. j + 1 \in 2..k - 1 /\ Tail(s)[j] = s[j + 1]
            BY <1>1
        <3> QED
            BY <1>2, <3>1
    <2> QED
        BY <2>1, <2>2, Zenon DEF Pending
<1>4. ~Pending(s, m)
    BY DEF Pending, Acq, Rel
<1> QED
    BY <1>3, <1>4

(* After `with lock:` is left for m, the thread no longer holds m.  It    *)
(* held m before.                                                          *)
LEMMA PendingRelease ==
    ASSUME NEW s, WellFormed(s), s # <<>>, NEW m \in Locks, s[1] = Rel(m)
    PROVE  ~Pending(Tail(s), m) /\ Pending(s, m)
<1>1. /\ s \in Seq(Op)
      /\ Len(Tail(s)) = Len(s) - 1
      /\ \A i \in 1..Len(Tail(s)) : Tail(s)[i] = s[i + 1]
    BY HeadTailProperties DEF WellFormed
<1>2. ~Pending(Tail(s), m)
    <2> SUFFICES ASSUME NEW k \in 1..Len(Tail(s)), Tail(s)[k] = Rel(m),
                        \A j \in 1..k - 1 : Tail(s)[j] # Acq(m)
                 PROVE  FALSE
        BY DEF Pending
    <2>1. k + 1 \in 1..Len(s) /\ s[k + 1] = Rel(m) /\ 1 < k + 1
        BY <1>1
    <2>2. PICK j \in 2..k : s[j] = Acq(m)
        BY <2>1 DEF WellFormed, SingleRelease
    <2> QED
        BY <1>1, <2>2
<1>3. Pending(s, m)
    BY <1>1 DEF Pending
<1> QED
    BY <1>2, <1>3

(* A thread about to take m holds only locks of smaller rank.              *)
LEMMA HeldBelow ==
    ASSUME NEW s, WellFormed(s), s # <<>>, NEW m \in Locks, s[1] = Acq(m),
           NEW l \in Locks, Pending(s, l)
    PROVE  Rank(l) < Rank(m)
<1>1. PICK k \in 1..Len(s) : s[k] = Rel(l) /\ \A j \in 1..k - 1 : s[j] # Acq(l)
    BY DEF Pending
<1>2. 1 < k /\ 1 \in 1..Len(s)
    BY <1>1 DEF WellFormed, Acq, Rel
<1> QED
    BY <1>1, <1>2 DEF WellFormed, Ordered

-----------------------------------------------------------------------------
(* The operations of the breaker and of the registry are well formed.     *)

LEMMA LockFacts ==
    /\ Locks = {StateLock, MetricsLock, RegistryLock}
    /\ Rank(RegistryLock) = 1 /\ Rank(StateLock) = 2 /\ Rank(MetricsLock) = 3
    /\ \A l, m \in Locks : Acq(l) # Rel(m)
    /\ \A l, m \in Locks : Acq(l) = Acq(m) => l = m
    /\ \A l, m \in Locks : Rel(l) = Rel(m) => l = m
BY DEF Locks, Rank, StateLock, MetricsLock, RegistryLock, Acq, Rel

(* A concatenation of programs is the program that runs one, then the     *)
(* other.                                                                   *)
LEMMA ConcatIs ==
    ASSUME NEW s \in Seq(Op), NEW u \in Seq(Op), NEW t \in Seq(Op),
           Len(t) = Len(s) + Len(u),
           \A i \in 1..Len(t) : t[i] = IF i <= Len(s) THEN s[i] ELSE u[i - Len(s)]
    PROVE  s \o u = t
BY ConcatProperties, SeqEqual

(* A program that holds nothing when it starts.                            *)
Fresh(s) == \A l \in Locks : ~Pending(s, l)

Good(s) == WellFormed(s) /\ Fresh(s)

(* The call of a rejected call(): the state read, then record_rejection:  *)
(* well formed, and holding nothing when it starts.                       *)
LEMMA RejectedCall == Good(StateRead \o RecordRejection)
<1> DEFINE S == StateLock  M == MetricsLock  R == RegistryLock
<1> DEFINE t == <<Acq(S), Rel(S), Acq(M), Rel(M)>>
<1>1. /\ Acq(S) \in Op /\ Acq(M) \in Op /\ Acq(R) \in Op
      /\ Rel(S) \in Op /\ Rel(M) \in Op /\ Rel(R) \in Op
    BY DEF Op, Locks
<1> DEFINE u2 == <<Acq(S), Rel(S), Acq(M), Rel(M)>>
<1>2. /\ StateRead \in Seq(Op) /\ RecordRejection \in Seq(Op) /\ u2 \in Seq(Op)
      /\ Len(u2) = Len(StateRead) + Len(RecordRejection)
      /\ \A i \in 1..Len(u2) :
            u2[i] = IF i <= Len(StateRead) THEN StateRead[i] ELSE RecordRejection[i - Len(StateRead)]
    BY <1>1 DEF RecordRejection, StateRead
<1>3. StateRead \o RecordRejection = u2
    BY <1>2, ConcatIs
<1>4. StateRead \o RecordRejection = t
    BY <1>3
<1>5. t \in Seq(Op) /\ Ordered(t) /\ Closed(t) /\ SingleRelease(t)
    BY <1>1, LockFacts DEF Ordered, Closed, SingleRelease
<1>6. Fresh(t)
    BY LockFacts DEF Fresh, Pending
<1> QED
    BY <1>4, <1>5, <1>6 DEF Good, WellFormed

(* A call() whose operation returns: the state read, then _on_success:    *)
(* well formed, and holding nothing when it starts.                       *)
LEMMA SuccessfulCall == Good(StateRead \o OnSuccess)
<1> DEFINE S == StateLock  M == MetricsLock  R == RegistryLock
<1> DEFINE t == <<Acq(S), Rel(S), Acq(S), Acq(M), Rel(M), Rel(S)>>
<1>1. /\ Acq(S) \in Op /\ Acq(M) \in Op /\ Acq(R) \in Op
      /\ Rel(S) \in Op /\ Rel(M) \in Op /\ Rel(R) \in Op
    BY DEF Op, Locks
<1> DEFINE u2 == <<Acq(S), Rel(S), Acq(S), Acq(M), Rel(M), Rel(S)>>
<1>2. /\ StateRead \in Seq(Op) /\ OnSuccess \in Seq(Op) /\ u2 \in Seq(Op)
      /\ Len(u2) = Len(StateRead) + Len(OnSuccess)
      /\ \A i \in 1..Len(u2) :
            u2[i] = IF i <= Len(StateRead) THEN StateRead[i] ELSE OnSuccess[i - Len(StateRead)]
    BY <1>1 DEF OnSuccess, StateRead
<1>3. StateRead \o OnSuccess = u2
    BY <1>2, ConcatIs
<1>4. StateRead \o OnSuccess = t
    BY <1>3
<1>5. t \in Seq(Op) /\ Ordered(t) /\ Closed(t) /\ SingleRelease(t)
    BY <1>1, LockFacts DEF Ordered, Closed, SingleRelease
<1>6. Fresh(t)
    BY LockFacts DEF Fresh, Pending
<1> QED
    BY <1>4, <1>5, <1>6 DEF Good, WellFormed

(* A call() that fails in CLOSED: the state read, _on_failure with the    *)
(* rate read, the second state read: well formed, and holding nothing     *)
(* when it starts.                                                        *)
LEMMA FailedCallClosed == Good(StateRead \o OnFailureClosed \o StateRead)
<1> DEFINE S == StateLock  M == MetricsLock  R == RegistryLock
<1> DEFINE t == <<Acq(S), Rel(S), Acq(S), Acq(M), Rel(M), Acq(M), Rel(M),
                  Rel(S), Acq(S), Rel(S)>>
<1>1. /\ Acq(S) \in Op /\ Acq(M) \in Op /\ Acq(R) \in Op
      /\ Rel(S) \in Op /\ Rel(M) \in Op /\ Rel(R) \in Op
    BY DEF Op, Locks
<1> DEFINE u2 == <<Acq(S), Rel(S), Acq(S), Acq(M), Rel(M), Acq(M), Rel(M),
                   Rel(S)>>
<1>2. /\ StateRead \in Seq(Op) /\ OnFailureClosed \in Seq(Op) /\ u2 \in Seq(Op)
      /\ Len(u2) = Len(StateRead) + Len(OnFailureClosed)
      /\ \A i \in 1..Len(u2) :
            u2[i] = IF i <= Len(StateRead) THEN StateRead[i] ELSE OnFailureClosed[i - Len(StateRead)]
    BY <1>1 DEF OnFailureClosed, StateRead
<1>3. StateRead \o OnFailureClosed = u2
    BY <1>2, ConcatIs
<1> DEFINE u4 == <<Acq(S), Rel(S), Acq(S), Acq(M), Rel(M), Acq(M), Rel(M),
                   Rel(S), Acq(S), Rel(S)>>
<1>4. /\ u2 \in Seq(Op) /\ StateRead \in Seq(Op) /\ u4 \in Seq(Op)
      /\ Len(u4) = Len(u2) + Len(StateRead)
      /\ \A i \in 1..Len(u4) :
            u4[i] = IF i <= Len(u2) THEN u2[i] ELSE StateRead[i - Len(u2)]
    BY <1>1 DEF OnFailureClosed, StateRead
<1>5. u2 \o StateRead = u4
    BY <1>4, ConcatIs
<1>6. StateRead \o OnFailureClosed \o StateRead = t
    BY <1>3, <1>5
<1>7. t \in Seq(Op) /\ Ordered(t) /\ Closed(t) /\ SingleRelease(t)
    BY <1>1, LockFacts DEF Ordered, Closed, SingleRelease
<1>8. Fresh(t)
    BY LockFacts DEF Fresh, Pending
<1> QED
    BY <1>6, <1>7, <1>8 DEF Good, WellFormed

(* A call() that fails in HALF_OPEN or OPEN: well formed, and holding     *)
(* nothing when it starts.                                                *)
LEMMA FailedCallOther == Good(StateRead \o OnFailureOther \o StateRead)
<1> DEFINE S == StateLock  M == MetricsLock  R == RegistryLock
<1> DEFINE t == <<Acq(S), Rel(S), Acq(S), Acq(M), Rel(M), Rel(S), Acq(S),
                  Rel(S)>>
<1>1. /\ Acq(S) \in Op /\ Acq(M) \in Op /\ Acq(R) \in Op
      /\ Rel(S) \in Op /\ Rel(M) \in Op /\ Rel(R) \in Op
    BY DEF Op, Locks
<1> DEFINE u2 == <<Acq(S), Rel(S), Acq(S), Acq(M), Rel(M), Rel(S)>>
<1>2. /\ StateRead \in Seq(Op) /\ OnFailureOther \in Seq(Op) /\ u2 \in Seq(Op)
      /\ Len(u2) = Len(StateRead) + Len(OnFailureOther)
      /\ \A i \in 1..Len(u2) :
            u2[i] = IF i <= Len(StateRead) THEN StateRead[i] ELSE OnFailureOther[i - Len(StateRead)]
    BY <1>1 DEF OnFailureOther, StateRead
<1>3. StateRead \o OnFailureOther = u2
    BY <1>2, ConcatIs
<1> DEFINE u4 == <<Acq(S), Rel(S), Acq(S), Acq(M), Rel(M), Rel(S), Acq(S),
                   Rel(S)>>
<1>4. /\ u2 \in Seq(Op) /\ StateRead \in Seq(Op) /\ u4 \in Seq(Op)
      /\ Len(u4) = Len(u2) + Len(StateRead)
      /\ \A i \in 1..Len(u4) :
            u4[i] = IF i <= Len(u2) THEN u2[i] ELSE StateRead[i - Len(u2)]
    BY <1>1 DEF OnFailureOther, StateRead
<1>5. u2 \o StateRead = u4
    BY <1>4, ConcatIs
<1>6. StateRead \o OnFailureOther \o StateRead = t
    BY <1>3, <1>5
<1>7. t \in Seq(Op) /\ Ordered(t) /\ Closed(t) /\ SingleRelease(t)
    BY <1>1, LockFacts DEF Ordered, Closed, SingleRelease
<1>8. Fresh(t)
    BY LockFacts DEF Fresh, Pending
<1> QED
    BY <1>6, <1>7, <1>8 DEF Good, WellFormed

(* reset(): well formed, and holding nothing when it starts.              *)
LEMMA ResetGood == Good(ResetProg)
<1> DEFINE S == StateLock  M == MetricsLock  R == RegistryLock
<1> DEFINE t == <<Acq(S), Rel(S)>>
<1>1. /\ Acq(S) \in Op /\ Acq(M) \in Op /\ Acq(R) \in Op
      /\ Rel(S) \in Op /\ Rel(M) \in Op /\ Rel(R) \in Op
    BY DEF Op, Locks
<1>2. ResetProg = t
    BY DEF ResetProg
<1>3. t \in Seq(Op) /\ Ordered(t) /\ Closed(t) /\ SingleRelease(t)
    BY <1>1, LockFacts DEF Ordered, Closed, SingleRelease
<1>4. Fresh(t)
    BY LockFacts DEF Fresh, Pending
<1> QED
    BY <1>2, <1>3, <1>4 DEF Good, WellFormed

(* CircuitBreakerRegistry.register: well formed, and holding nothing     *)
(* when it starts.                                                         *)
LEMMA RegisterGood == Good(Register)
<1> DEFINE S == StateLock  M == MetricsLock  R == RegistryLock
<1> DEFINE t == <<Acq(R), Rel(R)>>
<1>1. /\ Acq(S) \in Op /\ Acq(M) \in Op /\ Acq(R) \in Op
      /\ Rel(S) \in Op /\ Rel(M) \in Op /\ Rel(R) \in Op
    BY DEF Op, Locks
<1>2. Register = t
    BY DEF Register
<1>3. t \in Seq(Op) /\ Ordered(t) /\ Closed(t) /\ SingleRelease(t)
    BY <1>1, LockFacts DEF Ordered, Closed, SingleRelease
<1>4. Fresh(t)
    BY LockFacts DEF Fresh, Pending
<1> QED
    BY <1>2, <1>3, <1>4 DEF Good, WellFormed

(* CircuitBreakerRegistry.reset_all, reset() inside the registry lock:   *)
(* well formed, and holding nothing when it starts.                       *)
LEMMA ResetAllGood == Good(ResetAll)
<1> DEFINE S == StateLock  M == MetricsLock  R == RegistryLock
<1> DEFINE t == <<Acq(R), Acq(S), Rel(S), Rel(R)>>
<1>1. /\ Acq(S) \in Op /\ Acq(M) \in Op /\ Acq(R) \in Op
      /\ Rel(S) \in Op /\ Rel(M) \in Op /\ Rel(R) \in Op
    BY DEF Op, Locks
<1> DEFINE u2 == <<Acq(R), Acq(S), Rel(S)>>
<1>2. /\ <<Acq(R)>> \in Seq(Op) /\ ResetProg \in Seq(Op) /\ u2 \in Seq(Op)
      /\ Len(u2) = Len(<<Acq(R)>>) + Len(ResetProg)
      /\ \A i \in 1..Len(u2) :
            u2[i] = IF i <= Len(<<Acq(R)>>) THEN <<Acq(R)>>[i] ELSE ResetProg[i - Len(<<Acq(R)>>)]
    BY <1>1 DEF ResetProg
<1>3. <<Acq(R)>> \o ResetProg = u2
    BY <1>2, ConcatIs
<1> DEFINE u4 == <<Acq(R), Acq(S), Rel(S), Rel(R)>>
<1>4. /\ u2 \in Seq(Op) /\ <<Rel(R)>> \in Seq(Op) /\ u4 \in Seq(Op)
      /\ Len(u4) = Len(u2) + Len(<<Rel(R)>>)
      /\ \A i \in 1..Len(u4) :
            u4[i] = IF i <= Len(u2) THEN u2[i] ELSE <<Rel(R)>>[i - Len(u2)]
    BY <1>1 DEF ResetProg
<1>5. u2 \o <<Rel(R)>> = u4
    BY <1>4, ConcatIs
<1>6. ResetAll = t
    BY <1>3, <1>5 DEF ResetAll
<1>7. t \in Seq(Op) /\ Ordered(t) /\ Closed(t) /\ SingleRelease(t)
    BY <1>1, LockFacts DEF Ordered, Closed, SingleRelease
<1>8. Fresh(t)
    BY LockFacts DEF Fresh, Pending
<1> QED
    BY <1>6, <1>7, <1>8 DEF Good, WellFormed


(* Without get_stats, every call a thread can start is well formed and     *)
(* holds nothing when it starts.                                            *)
LEMMA ProgramsGood ==
    ASSUME ~StatsReaders
    PROVE  \A p \in Programs : Good(p)
BY RejectedCall, SuccessfulCall, FailedCallClosed, FailedCallOther,
   ResetGood, RegisterGood, ResetAllGood DEF Programs, CallPaths

(* The next lock operation of a thread names one of the three locks.      *)
LEMMA FirstOp ==
    ASSUME NEW s \in Seq(Op), s # <<>>
    PROVE  /\ Head(s)[2] \in Locks
           /\ Head(s)[1] = "acq" => s[1] = Acq(Head(s)[2])
           /\ Head(s)[1] = "rel" => s[1] = Rel(Head(s)[2])
<1>1. Head(s) = s[1] /\ s[1] \in Op
    BY EmptySeq, ElementOfSeq
<1>2. PICK l \in Locks : s[1] = Acq(l) \/ s[1] = Rel(l)
    BY <1>1 DEF Op
<1> QED
    BY <1>1, <1>2 DEF Acq, Rel

-----------------------------------------------------------------------------
(* The inductive invariant holds initially and is kept by every step.     *)

(* No thread holds a lock or runs a call when the process starts.         *)
LEMMA InitIInv ==
    ASSUME NoOwner \notin Threads
    PROVE  Init => IInv
<1> SUFFICES ASSUME Init PROVE IInv
    OBVIOUS
<1>1. <<>> \in Seq(Op) /\ Len(<<>>) = 0
    BY EmptySeq
<1>2. WellFormed(<<>>)
    BY <1>1 DEF WellFormed, Ordered, Closed, SingleRelease
<1>3. \A l \in Locks : ~Pending(<<>>, l)
    BY <1>1 DEF Pending
<1> QED
    BY <1>1, <1>2, <1>3 DEF Init, IInv

(* Whatever the threads interleave (a thread starts a call, enters or    *)
(* leaves a `with lock:` block), the invariant is kept.                    *)
LEMMA NextIInv ==
    ASSUME NoOwner \notin Threads, ~StatsReaders
    PROVE  IInv /\ [Next]_vars => IInv'
<1> SUFFICES ASSUME IInv, [Next]_vars PROVE IInv'
    OBVIOUS
<1> USE DEF IInv
<1>1. CASE UNCHANGED vars
    BY <1>1 DEF vars
<1>2. ASSUME NEW t \in Threads, Begin(t) PROVE IInv'
    <2>1. PICK p \in Programs : prog' = [prog EXCEPT ![t] = p]
        BY <1>2 DEF Begin
    <2>2. Good(p)
        BY ProgramsGood
    <2>3. prog' \in [Threads -> Seq(Op)] /\ \A u \in Threads : WellFormed(prog'[u])
        BY <2>1, <2>2 DEF Good, WellFormed
    <2>4. ASSUME NEW u \in Threads, NEW l \in Locks
          PROVE  owner'[l] = u <=> Pending(prog'[u], l)
        <3>1. CASE u = t
            <4>1. ~Pending(prog[t], l)
                BY <1>2, EmptySeq DEF Begin, Pending
            <4> QED
                BY <1>2, <2>1, <2>2, <3>1, <4>1 DEF Begin, Good, Fresh
        <3>2. CASE u # t
            BY <1>2, <2>1, <3>2 DEF Begin
        <3> QED
            BY <3>1, <3>2
    <2> QED
        BY <1>2, <2>3, <2>4 DEF Begin
<1>3. ASSUME NEW t \in Threads, Acquire(t) PROVE IInv'
    <2> DEFINE s == prog[t]  m == Head(s)[2]
    <2>1. s \in Seq(Op) /\ s # <<>> /\ WellFormed(s)
        BY <1>3 DEF Acquire
    <2>2. m \in Locks /\ s[1] = Acq(m)
        BY <1>3, <2>1, FirstOp DEF Acquire
    <2>3. /\ owner' = [owner EXCEPT ![m] = t]
          /\ prog' = [prog EXCEPT ![t] = Tail(s)]
          /\ owner[m] = NoOwner
        BY <1>3 DEF Acquire
    <2>4. WellFormed(Tail(s)) /\ Tail(s) \in Seq(Op)
        BY <2>1, TailWellFormed DEF WellFormed
    <2>5. ASSUME NEW u \in Threads, NEW l \in Locks
          PROVE  owner'[l] = u <=> Pending(prog'[u], l)
        <3>1. CASE u = t /\ l = m
            BY <2>1, <2>2, <2>3, <3>1, PendingAcquire
        <3>2. CASE u = t /\ l # m
            <4>1. s[1] # Acq(l) /\ s[1] # Rel(l)
                BY <2>2, <3>2, LockFacts
            <4>2. Pending(Tail(s), l) <=> Pending(s, l)
                BY <2>1, <4>1, PendingTail
            <4> QED
                BY <2>3, <3>2, <4>2
        <3>3. CASE u # t /\ l = m
            <4>1. ~Pending(prog[u], m)
                BY <2>2, <2>3
            <4> QED
                BY <2>3, <3>3, <4>1
        <3>4. CASE u # t /\ l # m
            BY <2>3, <3>4
        <3> QED
            BY <3>1, <3>2, <3>3, <3>4
    <2> QED
        BY <2>2, <2>3, <2>4, <2>5
<1>4. ASSUME NEW t \in Threads, Release(t) PROVE IInv'
    <2> DEFINE s == prog[t]  m == Head(s)[2]
    <2>1. s \in Seq(Op) /\ s # <<>> /\ WellFormed(s)
        BY <1>4 DEF Release
    <2>2. m \in Locks /\ s[1] = Rel(m)
        BY <1>4, <2>1, FirstOp DEF Release
    <2>3. /\ owner' = [owner EXCEPT ![m] = NoOwner]
          /\ prog' = [prog EXCEPT ![t] = Tail(s)]
        BY <1>4 DEF Release
    <2>4. WellFormed(Tail(s)) /\ Tail(s) \in Seq(Op)
        BY <2>1, TailWellFormed DEF WellFormed
    <2>5. ~Pending(Tail(s), m) /\ Pending(s, m)
        BY <2>1, <2>2, PendingRelease
    <2>6. ASSUME NEW u \in Threads, NEW l \in Locks
          PROVE  owner'[l] = u <=> Pending(prog'[u], l)
        <3>1. CASE u = t /\ l = m
            BY <2>2, <2>3, <2>5, <3>1
        <3>2. CASE u = t /\ l # m
            <4>1. s[1] # Acq(l) /\ s[1] # Rel(l)
                BY <2>2, <3>2, LockFacts
            <4>2. Pending(Tail(s), l) <=> Pending(s, l)
                BY <2>1, <4>1, PendingTail
            <4> QED
                BY <2>3, <3>2, <4>2
        <3>3. CASE u # t /\ l = m
            <4>1. owner[m] = t
                BY <2>2, <2>5
            <4>2. ~Pending(prog[u], m)
                BY <2>2, <3>3, <4>1
            <4> QED
                BY <2>3, <3>3, <4>2
        <3>4. CASE u # t /\ l # m
            BY <2>3, <3>4
        <3> QED
            BY <3>1, <3>2, <3>3, <3>4
    <2> QED
        BY <2>2, <2>3, <2>4, <2>6
<1> QED
    BY <1>1, <1>2, <1>3, <1>4 DEF Next

(* The invariant gives the lock order: a thread whose next operation      *)
(* takes a lock holds only locks of smaller rank.                          *)
LEMMA IInvLockOrder ==
    IInv => LockOrder
<1> SUFFICES ASSUME IInv, NEW t \in Threads, prog[t] # <<>>,
                    Head(prog[t])[1] = "acq", NEW l \in Locks, owner[l] = t
             PROVE  Rank(l) < Rank(Head(prog[t])[2])
    BY DEF LockOrder
<1>1. prog[t] \in Seq(Op) /\ WellFormed(prog[t]) /\ Pending(prog[t], l)
    BY DEF IInv
<1>2. Head(prog[t])[2] \in Locks /\ prog[t][1] = Acq(Head(prog[t])[2])
    BY <1>1, FirstOp
<1> QED
    BY <1>1, <1>2, HeldBelow

(* Lock order of circuit_breaker.py: in every run of any number of        *)
(* threads calling call(), reset(), register() and reset_all() (the        *)
(* registry lock, then a breaker's state lock, then its metrics lock), a    *)
(* thread about to enter a `with lock:` block holds only locks of smaller  *)
(* rank, so these operations can never wait on each other in a cycle.      *)
(* It needs no thread calling get_stats: CircuitBreakerMetrics.get_stats   *)
(* takes its non-reentrant lock again while holding it, which breaks the   *)
(* order and blocks that thread forever (run breaker_stats_deadlock).      *)
THEOREM LockOrderHolds ==
    ASSUME NoOwner \notin Threads, ~StatsReaders
    PROVE  FairSpec => []LockOrder
<1>1. Init => IInv
    BY InitIInv
<1>2. IInv /\ [Next]_vars => IInv'
    BY NextIInv
<1>3. IInv => LockOrder
    BY IInvLockOrder
<1> QED
    BY <1>1, <1>2, <1>3, PTL DEF FairSpec
=============================================================================
