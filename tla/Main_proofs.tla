------------------------------ MODULE Main_proofs ------------------------------
(***************************************************************************)
(* Proofs about the commands of main.py that Main composes.  A process     *)
(* runs one command, so what it does to the variables of a command is a    *)
(* behaviour of that command alone; each theorem is proved about the       *)
(* command and carried over to the process.                                *)
(*                                                                         *)
(* First the rate limiter in front of the server's endpoints, for any      *)
(* number of threads, any limit and window and any length of time; then    *)
(* the first paper order; then the backtest.                               *)
(***************************************************************************)
EXTENDS Main, SimulatedBroker_proofs, FiniteSetTheorems, TLAPS

\* What the process does in front of its endpoints is what the limiter does.
LEMMA ServesLimiter == MainSpec => LimiterSpec
<1>1. MainInit => LimiterInit
  BY DEF MainInit
<1>2. [MainNext]_mainVars => [LimiterNext]_limiterVars
  BY DEF MainNext, mainVars
<1> QED
  BY <1>1, <1>2, PTL DEF MainSpec, LimiterSpec

-----------------------------------------------------------------------------
(***************************************************************************)
(* How long the deque of an address can grow.  A thread that has passed    *)
(* the count has a place in the deque that it has not taken yet; with      *)
(* those places added the bound is inductive.                              *)
(***************************************************************************)
Admitted == {w \in Threads : thread[w].step = "admitted"}

DequeInv ==
  /\ LimiterTypeOK
  /\ Len(requests) + Cardinality(Admitted) <= Limit + Cardinality(Threads) - 1

LEMMA ThreadsCounted ==
  /\ IsFiniteSet(Threads) /\ Cardinality(Threads) \in Nat /\ Cardinality(Threads) >= 1
  /\ \A S : S \subseteq Threads =>
       /\ IsFiniteSet(S) /\ Cardinality(S) \in Nat
       /\ Cardinality(S) <= Cardinality(Threads)
<1>1. IsFiniteSet(Threads) /\ Threads # {}
  BY ThreadsAssumption
<1>2. Cardinality(Threads) \in Nat /\ Cardinality(Threads) # 0
  BY <1>1, FS_CardinalityType, FS_EmptySet
<1>3. ASSUME NEW S, S \subseteq Threads
      PROVE  IsFiniteSet(S) /\ Cardinality(S) \in Nat /\ Cardinality(S) <= Cardinality(Threads)
  BY <1>1, <1>3, FS_Subset, FS_CardinalityType
<1> QED
  BY <1>1, <1>2, <1>3

-----------------------------------------------------------------------------
(* Types. *)

LEMMA LimiterTypeInit == LimiterInit => LimiterTypeOK
<1>1. 0 \in 0..MaxTime /\ 0 \in 0..MaxArrivals
  BY LimiterAssumption
<1>2. [step |-> "free", now |-> 0, answer |-> 0] \in Thread
  BY <1>1 DEF Thread, Steps, Answers
<1>3. << >> \in Seq(0..MaxTime)
  OBVIOUS
<1> QED
  BY <1>1, <1>2, <1>3 DEF LimiterInit, LimiterTypeOK

LEMMA LimiterTypeStep ==
  ASSUME LimiterTypeOK, [LimiterNext]_limiterVars
  PROVE  LimiterTypeOK'
<1>1. CASE UNCHANGED limiterVars
  BY <1>1 DEF limiterVars, LimiterTypeOK
<1>2. ASSUME NEW w \in Threads, NEW step \in Steps, Advance(w, step)
      PROVE  thread' \in [Threads -> Thread]
  BY <1>2 DEF Advance, LimiterTypeOK, Thread
<1>3. ASSUME NEW w \in Threads, NEW answer \in Answers, AnswerWith(w, answer)
      PROVE  thread' \in [Threads -> Thread]
  BY <1>3 DEF AnswerWith, LimiterTypeOK, Thread, Steps
<1>4. ASSUME NEW w \in Threads, Arrive(w) PROVE LimiterTypeOK'
  BY <1>4, LimiterAssumption DEF Arrive, LimiterTypeOK, Thread, Steps, Answers
<1>5. ASSUME NEW w \in Threads, TestHead(w) PROVE LimiterTypeOK'
  BY <1>2, <1>5 DEF TestHead, LimiterTypeOK, Steps
<1>6. ASSUME NEW w \in Threads, PopLeft(w) PROVE LimiterTypeOK'
  <2>1. CASE requests = <<>>
    BY <1>3, <1>6, <2>1 DEF PopLeft, LimiterTypeOK, Answers
  <2>2. CASE requests # <<>>
    <3>1. Advance(w, "testing") /\ requests' = Tail(requests)
      BY <1>6, <2>2 DEF PopLeft
    <3>2. Tail(requests) \in Seq(0..MaxTime)
      BY <2>2 DEF LimiterTypeOK
    <3>3. thread' \in [Threads -> Thread]
      BY <1>2, <3>1 DEF Steps
    <3> QED
      BY <1>6, <3>1, <3>2, <3>3 DEF PopLeft, LimiterTypeOK
  <2> QED
    BY <2>1, <2>2
<1>7. ASSUME NEW w \in Threads, Count(w) PROVE LimiterTypeOK'
  BY <1>2, <1>3, <1>7 DEF Count, LimiterTypeOK, Steps, Answers
<1>8. ASSUME NEW w \in Threads, AppendNow(w) PROVE LimiterTypeOK'
  <2>1. thread[w].now \in 0..MaxTime
    BY DEF LimiterTypeOK, Thread
  <2> QED
    BY <1>2, <1>8, <2>1 DEF AppendNow, LimiterTypeOK, Steps
<1>9. ASSUME NEW w \in Threads, Authenticate(w) PROVE LimiterTypeOK'
  BY <1>3, <1>9 DEF Authenticate, LimiterTypeOK, Answers
<1>10. CASE Tick
  BY <1>10, LimiterAssumption DEF Tick, LimiterTypeOK
<1> QED
  BY <1>1, <1>4, <1>5, <1>6, <1>7, <1>8, <1>9, <1>10 DEF LimiterNext

-----------------------------------------------------------------------------
(* The bound. *)

\* A thread that does not become admitted adds no place.
LEMMA NoPlaceAdded ==
  ASSUME DequeInv, Admitted' \subseteq Admitted, Len(requests') <= Len(requests),
         requests' \in Seq(0..MaxTime)
  PROVE  Len(requests') + Cardinality(Admitted') <= Limit + Cardinality(Threads) - 1
<1>1. IsFiniteSet(Admitted) /\ Cardinality(Admitted) \in Nat
  BY ThreadsCounted DEF Admitted
<1>2. Cardinality(Admitted') \in Nat /\ Cardinality(Admitted') <= Cardinality(Admitted)
  BY <1>1, FS_Subset, FS_CardinalityType
<1>3. Len(requests) \in Nat /\ Len(requests') \in Nat
  BY DEF DequeInv, LimiterTypeOK
<1> QED
  BY <1>1, <1>2, <1>3, ThreadsCounted, LimiterAssumption DEF DequeInv

\* Only a thread whose step becomes admitted joins the admitted ones.
LEMMA NotAdmitted ==
  ASSUME thread \in [Threads -> Thread], NEW w \in Threads,
         \/ \E step \in Steps \ {"admitted"} : Advance(w, step)
         \/ \E answer \in Answers : AnswerWith(w, answer)
  PROVE  Admitted' \subseteq Admitted
<1>1. \A v \in Threads \ {w} : thread'[v] = thread[v]
  BY DEF Advance, AnswerWith
<1>2. thread'[w].step # "admitted"
  <2>1. ASSUME NEW step \in Steps \ {"admitted"}, Advance(w, step)
        PROVE  thread'[w].step # "admitted"
    BY <2>1 DEF Advance, Thread
  <2>2. ASSUME NEW answer \in Answers, AnswerWith(w, answer)
        PROVE  thread'[w].step # "admitted"
    BY <2>2 DEF AnswerWith, Thread
  <2> QED
    BY <2>1, <2>2
<1> QED
  BY <1>1, <1>2 DEF Admitted

LEMMA DequeStep ==
  ASSUME DequeInv, [LimiterNext]_limiterVars
  PROVE  DequeInv'
<1>1. LimiterTypeOK /\ LimiterTypeOK'
  BY LimiterTypeStep DEF DequeInv
<1>2. requests \in Seq(0..MaxTime) /\ requests' \in Seq(0..MaxTime) /\ thread \in [Threads -> Thread]
  BY <1>1 DEF LimiterTypeOK
<1>3. SUFFICES Len(requests') + Cardinality(Admitted') <= Limit + Cardinality(Threads) - 1
  BY <1>1 DEF DequeInv
<1>4. CASE UNCHANGED limiterVars \/ Tick
  <2>1. Admitted' = Admitted /\ requests' = requests
    BY <1>4 DEF limiterVars, Tick, Admitted
  <2> QED
    BY <1>2, <2>1, NoPlaceAdded
<1>5. ASSUME NEW w \in Threads, Arrive(w) \/ TestHead(w) \/ Authenticate(w)
      PROVE  Admitted' \subseteq Admitted /\ requests' = requests
  <2>1. CASE Arrive(w)
    <3>1. /\ thread'[w].step = "testing"
          /\ \A v \in Threads \ {w} : thread'[v] = thread[v]
      BY <1>2, <2>1 DEF Arrive
    <3> QED
      BY <2>1, <3>1 DEF Arrive, Admitted
  <2>2. CASE TestHead(w)
    BY <1>2, <2>2, NotAdmitted DEF TestHead, Steps
  <2>3. CASE Authenticate(w)
    BY <1>2, <2>3, NotAdmitted DEF Authenticate, Answers
  <2> QED
    BY <1>5, <2>1, <2>2, <2>3
<1>6. ASSUME NEW w \in Threads, PopLeft(w)
      PROVE  Admitted' \subseteq Admitted /\ Len(requests') <= Len(requests)
  <2>1. Admitted' \subseteq Admitted
    BY <1>2, <1>6, NotAdmitted DEF PopLeft, Steps, Answers
  <2>2. Len(requests') <= Len(requests)
    BY <1>2, <1>6 DEF PopLeft
  <2> QED
    BY <2>1, <2>2
<1>7. ASSUME NEW w \in Threads, Count(w)
      PROVE  Len(requests') + Cardinality(Admitted') <= Limit + Cardinality(Threads) - 1
  <2>1. CASE Len(requests) >= Limit
    <3>1. Admitted' \subseteq Admitted /\ requests' = requests
      BY <1>2, <1>7, <2>1, NotAdmitted DEF Count, Answers
    <3> QED
      BY <1>2, <3>1, NoPlaceAdded
  <2>2. CASE ~(Len(requests) >= Limit)
    <3>1. requests' = requests /\ Admitted' \subseteq Threads
      BY <1>7 DEF Count, Admitted
    <3> QED
      BY <1>2, <2>2, <3>1, ThreadsCounted, LimiterAssumption
  <2> QED
    BY <2>1, <2>2
<1>8. ASSUME NEW w \in Threads, AppendNow(w)
      PROVE  Len(requests') + Cardinality(Admitted') <= Limit + Cardinality(Threads) - 1
  <2>1. w \in Admitted /\ Admitted' = Admitted \ {w} /\ Len(requests') = Len(requests) + 1
    BY <1>2, <1>8 DEF AppendNow, Advance, Admitted
  <2>2. IsFiniteSet(Admitted) /\ Cardinality(Admitted) \in Nat
    BY ThreadsCounted DEF Admitted
  <2>3. Cardinality(Admitted') = Cardinality(Admitted) - 1
    BY <2>1, <2>2, FS_RemoveElement
  <2> QED
    BY <1>2, <2>1, <2>2, <2>3, ThreadsCounted, LimiterAssumption DEF DequeInv
<1> QED
  BY <1>2, <1>4, <1>5, <1>6, <1>7, <1>8, NoPlaceAdded DEF LimiterNext

\* However many threads race, the deque of an address outgrows the limit by fewer
\* places than there are threads (RateLimiter.check, app.py 38-42).
THEOREM DequeInvariant == MainSpec => []DequeBounded
<1>1. LimiterInit => DequeInv
  <2>1. LimiterInit => Admitted = {} /\ requests = <<>>
    BY DEF LimiterInit, Admitted
  <2>2. Cardinality({}) = 0
    BY FS_EmptySet
  <2> QED
    BY <2>1, <2>2, LimiterTypeInit, ThreadsCounted, LimiterAssumption DEF DequeInv
<1>2. DequeInv /\ [LimiterNext]_limiterVars => DequeInv'
  BY DequeStep
<1>3. DequeInv => DequeBounded
  <2>1. Cardinality(Admitted) \in Nat
    BY ThreadsCounted DEF Admitted
  <2> QED
    BY <2>1, ThreadsCounted, LimiterAssumption DEF DequeInv, DequeBounded, LimiterTypeOK
<1> QED
  BY <1>1, <1>2, <1>3, ServesLimiter, PTL DEF LimiterSpec

LEMMA LimiterTypeInvariant == LimiterSpec => []LimiterTypeOK
  BY LimiterTypeInit, LimiterTypeStep, PTL DEF LimiterSpec

-----------------------------------------------------------------------------
(***************************************************************************)
(* The limiter of requests that are checked one after the other.  While    *)
(* none has overlapped another, the deque is what remains of the history   *)
(* of requests let in once the oldest are dropped; those dropped are out   *)
(* of the window for good; and of Limit + 1 requests in a row the first is *)
(* a window older than the last.  From the last fact alone follows that no *)
(* window holds more than Limit of them.                                   *)
(***************************************************************************)
Dropped == Len(let_in) - Len(requests)

OneChecked == \A v, w \in Threads : InCheck(v) /\ InCheck(w) => v = w

DequeIsSuffix ==
  /\ Dropped >= 0
  /\ \A i \in 1..Len(requests) : requests[i] = let_in[Dropped + i]

\* No time is ahead of the clock, and none let in ahead of a request in its check.
TimesInOrder ==
  /\ \A i, j \in DOMAIN let_in : i <= j => let_in[i] <= let_in[j]
  /\ \A i \in DOMAIN let_in : let_in[i] <= clock
  /\ \A w \in Threads : thread[w].now <= clock
  /\ \A w \in Threads : InCheck(w) =>
       \A i \in DOMAIN let_in : let_in[i] <= thread[w].now

DroppedIsExpired ==
  /\ \A i \in 1..Dropped : let_in[i] <= clock - Window
  /\ \A w \in Threads : InCheck(w) =>
       \A i \in 1..Dropped : let_in[i] <= thread[w].now - Window

Spaced == \A i \in DOMAIN let_in : i > Limit => let_in[i - Limit] <= let_in[i] - Window

\* Limit requests in a row were let in in the window that ends at this time.
FullAt(time) ==
  \E n \in Nat :
    /\ n + Limit <= Len(let_in)
    /\ \A i \in (n + 1)..(n + Limit) : time - Window < let_in[i] /\ let_in[i] <= time

\* What a thread has found is still so: nobody else touches the deque meanwhile.
FindingsHold ==
  \A w \in Threads :
    /\ thread[w].step = "expired" => Expired(thread[w].now)
    /\ thread[w].step = "counting" => ~Expired(thread[w].now)
    /\ thread[w].step = "admitted" => Len(requests) < Limit

AnswersFit ==
  \A w \in Threads :
    /\ thread[w].answer = 429 => FullAt(thread[w].now)
    /\ thread[w].answer # 500

AloneInv ==
  ~overlapped =>
    /\ OneChecked
    /\ DequeIsSuffix
    /\ TimesInOrder
    /\ DroppedIsExpired
    /\ Spaced
    /\ FindingsHold
    /\ AnswersFit

\* From Spaced: a window holds no two requests that are Limit places apart.
LEMMA WindowNotOverfull ==
  ASSUME LimiterTypeOK, TimesInOrder, Spaced, NEW time \in Int
  PROVE  LetIn(time) \in Nat /\ LetIn(time) <= Limit
<1> DEFINE S == {i \in DOMAIN let_in : time - Window < let_in[i] /\ let_in[i] <= time}
           less == {ss \in Nat \X Nat : ss[1] < ss[2]}
<1>1. /\ let_in \in Seq(0..MaxTime) /\ DOMAIN let_in = 1..Len(let_in) /\ Len(let_in) \in Nat
      /\ Limit \in Nat \ {0} /\ Window \in Nat \ {0}
      /\ \A i \in DOMAIN let_in : let_in[i] \in Int
  BY LimiterAssumption DEF LimiterTypeOK
<1>2. CASE S = {}
  <2>1. LetIn(time) = 0
    BY <1>2, FS_EmptySet DEF LetIn
  <2> QED
    BY <1>1, <2>1
<1>3. CASE S # {}
  <2>1. PICK m \in S : \A i \in S : ~ (<<i, m>> \in less)
    <3>1. S \subseteq Nat
      BY <1>1
    <3> HIDE DEF S, less
    <3>2. IsWellFoundedOn(less, Nat)
      BY NatLessThanWellFounded DEF less, OpToRel
    <3> QED
      BY <1>3, <3>1, <3>2, WFMin
  <2>2. ASSUME NEW i \in S
        PROVE  i \in m..(m + Limit - 1)
    <3>1. i \in Nat /\ m \in Nat
      BY <1>1
    <3>2. i >= m
      <4>1. i < m => <<i, m>> \in less
        BY <3>1
      <4>2. ~(i < m)
        BY <2>1, <4>1, Zenon
      <4> QED
        BY <3>1, <4>2
    <3>3. CASE i >= m + Limit
      <4>1. i - Limit \in DOMAIN let_in /\ m <= i - Limit /\ i > Limit
        BY <1>1, <3>1, <3>3
      <4>2. let_in[m] <= let_in[i - Limit]
        BY <4>1 DEF TimesInOrder
      <4>3. let_in[i - Limit] <= let_in[i] - Window
        BY <4>1 DEF Spaced
      <4>4. let_in[i] <= time /\ time - Window < let_in[m]
        OBVIOUS
      <4> QED
        BY <1>1, <4>1, <4>2, <4>3, <4>4
    <3> QED
      BY <1>1, <3>1, <3>2, <3>3
  <2>3. m \in Nat /\ m \in Int /\ m + Limit - 1 \in Int /\ m <= m + Limit - 1
    BY <1>1
  <2>4. IsFiniteSet(m..(m + Limit - 1)) /\ Cardinality(m..(m + Limit - 1)) = Limit
    <3>1. PICK last \in Int : last = m + Limit - 1
      BY <2>3
    <3>2. IsFiniteSet(m..last) /\ Cardinality(m..last) = last - m + 1
      BY <2>3, <3>1, FS_Interval
    <3> QED
      BY <1>1, <2>3, <3>1, <3>2
  <2>5. S \subseteq m..(m + Limit - 1)
    BY <2>2
  <2> HIDE DEF S
  <2>6. Cardinality(S) \in Nat /\ Cardinality(S) <= Limit
    <3>1. PICK window : window = m..(m + Limit - 1)
      OBVIOUS
    <3>2. IsFiniteSet(window) /\ Cardinality(window) = Limit /\ S \subseteq window
      BY <2>4, <2>5, <3>1
    <3>3. IsFiniteSet(S) /\ Cardinality(S) <= Limit
      BY <3>2, FS_Subset
    <3> QED
      BY <3>3, FS_CardinalityType
  <2> QED
    BY <2>6 DEF LetIn, S
<1> QED
  BY <1>2, <1>3

LEMMA FullWindowCounted ==
  ASSUME LimiterTypeOK, NEW time \in Int, FullAt(time), LetIn(time) \in Nat
  PROVE  LetIn(time) >= Limit
<1> DEFINE S == {i \in DOMAIN let_in : time - Window < let_in[i] /\ let_in[i] <= time}
<1>1. /\ DOMAIN let_in = 1..Len(let_in) /\ Len(let_in) \in Nat
      /\ Limit \in Nat \ {0}
  BY LimiterAssumption DEF LimiterTypeOK
<1>2. PICK n \in Nat :
        /\ n + Limit <= Len(let_in)
        /\ \A i \in (n + 1)..(n + Limit) : time - Window < let_in[i] /\ let_in[i] <= time
  BY DEF FullAt
<1>3. (n + 1)..(n + Limit) \subseteq S
  BY <1>1, <1>2
<1>4. Cardinality((n + 1)..(n + Limit)) = Limit
  BY <1>1, FS_Interval
<1>5. IsFiniteSet(S)
  <2>1. IsFiniteSet(1..Len(let_in)) /\ S \subseteq 1..Len(let_in)
    BY <1>1, FS_Interval
  <2> HIDE DEF S
  <2> QED
    BY <2>1, FS_Subset
<1> HIDE DEF S
<1>6. Cardinality((n + 1)..(n + Limit)) <= Cardinality(S)
  BY <1>3, <1>5, FS_Subset
<1> QED
  BY <1>4, <1>6 DEF LetIn, S

LEMMA AloneImplies == LimiterTypeOK /\ AloneInv => ExactWhenAlone
<1> SUFFICES ASSUME LimiterTypeOK, AloneInv, ~overlapped
             PROVE  /\ \A time \in 0..clock : LetIn(time) <= Limit
                    /\ \A w \in Threads :
                         /\ thread[w].answer = 429 => LetIn(thread[w].now) = Limit
                         /\ thread[w].answer # 500
  BY DEF ExactWhenAlone
<1>1. TimesInOrder /\ Spaced /\ AnswersFit
  BY DEF AloneInv
<1>2. \A time \in Int : LetIn(time) \in Nat /\ LetIn(time) <= Limit
  BY <1>1, WindowNotOverfull
<1>3. ASSUME NEW w \in Threads, thread[w].answer = 429
      PROVE  LetIn(thread[w].now) = Limit
  <2>1. PICK time \in Int : time = thread[w].now
    BY DEF LimiterTypeOK, Thread
  <2>2. LetIn(time) >= Limit
    BY <1>1, <1>2, <1>3, <2>1, FullWindowCounted DEF AnswersFit
  <2> QED
    BY <1>2, <2>1, <2>2, LimiterAssumption
<1>4. 0..clock \subseteq Int
  OBVIOUS
<1> QED
  BY <1>1, <1>2, <1>3, <1>4 DEF AnswersFit

\* The types that the steps below rest on.
LEMMA LimiterFacts ==
  ASSUME LimiterTypeOK
  PROVE  /\ requests \in Seq(Int) /\ let_in \in Seq(Int)
         /\ DOMAIN let_in = 1..Len(let_in) /\ Len(let_in) \in Nat
         /\ DOMAIN requests = 1..Len(requests) /\ Len(requests) \in Nat
         /\ \A i \in DOMAIN let_in : let_in[i] \in Int
         /\ \A i \in DOMAIN requests : requests[i] \in Int
         /\ clock \in Int
         /\ thread \in [Threads -> Thread]
         /\ \A w \in Threads : thread[w].now \in Int
         /\ Limit \in Nat \ {0} /\ Window \in Nat \ {0}
  BY LimiterAssumption DEF LimiterTypeOK, Thread

\* A thread that takes a step, keeps its time, and does not enter the check.
Moves(w, step, answer) ==
  /\ thread'[w].step = step /\ thread'[w].answer = answer /\ thread'[w].now = thread[w].now
  /\ \A v \in Threads \ {w} : thread'[v] = thread[v]

LEMMA AdvanceMoves ==
  ASSUME LimiterTypeOK, NEW w \in Threads, NEW step, Advance(w, step)
  PROVE  Moves(w, step, thread[w].answer)
  BY DEF Advance, Moves, LimiterTypeOK, Thread

LEMMA AnswerMoves ==
  ASSUME LimiterTypeOK, NEW w \in Threads, NEW answer, AnswerWith(w, answer)
  PROVE  Moves(w, "free", answer)
  BY DEF AnswerWith, Moves, LimiterTypeOK, Thread

\* Such a step of a thread that was in its check leaves the logs' relations alone.
LEMMA MoveKeepsLogs ==
  ASSUME OneChecked, DequeIsSuffix, TimesInOrder, DroppedIsExpired, Spaced,
         NEW w \in Threads, NEW step, NEW answer, Moves(w, step, answer),
         InCheck(w)' => InCheck(w),
         clock' = clock, requests' = requests, let_in' = let_in
  PROVE  /\ OneChecked' /\ DequeIsSuffix' /\ TimesInOrder' /\ DroppedIsExpired' /\ Spaced'
<1>1. \A v \in Threads : thread'[v].now = thread[v].now /\ (InCheck(v)' => InCheck(v))
  BY DEF Moves, InCheck
<1>2. OneChecked'
  BY <1>1 DEF OneChecked
<1>3. DequeIsSuffix' /\ Spaced'
  BY DEF DequeIsSuffix, Spaced, Dropped
<1>4. TimesInOrder'
  BY <1>1 DEF TimesInOrder
<1>5. DroppedIsExpired'
  BY <1>1 DEF DroppedIsExpired, Dropped
<1> QED
  BY <1>2, <1>3, <1>4, <1>5

\* A window that was full is full whatever else is let in later.
LEMMA FullStays ==
  ASSUME LimiterTypeOK, NEW time, FullAt(time),
         let_in' = let_in \/ \E t \in Int : let_in' = Append(let_in, t)
  PROVE  FullAt(time)'
<1>1. PICK n \in Nat :
        /\ n + Limit <= Len(let_in)
        /\ \A i \in (n + 1)..(n + Limit) : time - Window < let_in[i] /\ let_in[i] <= time
  BY DEF FullAt
<1>2. let_in \in Seq(Int)
  BY LimiterFacts
<1>3. /\ Len(let_in') \in Nat /\ Len(let_in') >= Len(let_in) /\ Len(let_in) \in Nat
      /\ \A i \in 1..Len(let_in) : let_in'[i] = let_in[i]
  BY <1>2
<1>4. (n + 1)..(n + Limit) \subseteq 1..Len(let_in)
  BY <1>1, LimiterFacts
<1>5. n + Limit <= Len(let_in')
  BY <1>1, <1>3, LimiterFacts
<1>6. \A i \in (n + 1)..(n + Limit) : time - Window < let_in'[i] /\ let_in'[i] <= time
  BY <1>1, <1>3, <1>4
<1> QED
  BY <1>5, <1>6 DEF FullAt

LEMMA AnswersKept ==
  ASSUME LimiterTypeOK, AnswersFit, NEW w \in Threads, NEW step, NEW answer,
         Moves(w, step, answer),
         let_in' = let_in \/ \E t \in Int : let_in' = Append(let_in, t),
         answer # 500,
         NEW time, time = thread[w].now,
         answer = 429 => thread[w].answer = 429 \/ FullAt(time)
  PROVE  AnswersFit'
<1>1. ASSUME NEW v \in Threads, thread'[v].answer = 429
      PROVE  FullAt(thread[v].now)'
  <2>1. PICK t : t = thread[v].now
    OBVIOUS
  <2>2. t = thread'[v].now
    BY <2>1 DEF Moves
  <2>3. FullAt(t)
    BY <1>1, <2>1 DEF Moves, AnswersFit
  <2>4. FullAt(t)'
    BY <2>3, FullStays
  <2> QED
    BY <2>2, <2>4 DEF FullAt
<1>2. \A v \in Threads : thread'[v].answer # 500
  BY DEF Moves, AnswersFit
<1> QED
  BY <1>1, <1>2 DEF AnswersFit

\* The parts of AloneInv, for a step before and after which no check has overlapped.
Alone ==
  /\ OneChecked
  /\ DequeIsSuffix
  /\ TimesInOrder
  /\ DroppedIsExpired
  /\ Spaced
  /\ FindingsHold
  /\ AnswersFit

LEMMA ArriveAlone ==
  ASSUME LimiterTypeOK, Alone, NEW w \in Threads, Arrive(w), ~overlapped'
  PROVE  Alone'
<1> USE DEF Alone
<1>1. /\ thread'[w] = [step |-> "testing", now |-> clock, answer |-> 0]
      /\ \A v \in Threads \ {w} : thread'[v] = thread[v]
      /\ clock' = clock /\ requests' = requests /\ let_in' = let_in
  BY LimiterFacts DEF Arrive
<1>2. \A v \in Threads : ~InCheck(v)
  BY DEF Arrive
<1>3. /\ thread'[w].step = "testing" /\ thread'[w].now = clock /\ thread'[w].answer = 0
      /\ \A v \in Threads \ {w} : ~InCheck(v)'
  BY <1>1, <1>2 DEF InCheck
<1>4. OneChecked'
  BY <1>3 DEF OneChecked
<1>5. DequeIsSuffix' /\ Spaced'
  BY <1>1 DEF DequeIsSuffix, Spaced, Dropped
<1>6. TimesInOrder'
  <2>1. \A v \in Threads : thread'[v].now <= clock
    BY <1>1, <1>3, LimiterFacts DEF TimesInOrder
  <2>2. \A v \in Threads : InCheck(v)' => v = w
    BY <1>3
  <2> QED
    BY <1>1, <1>3, <2>1, <2>2 DEF TimesInOrder
<1>7. DroppedIsExpired'
  BY <1>1, <1>3 DEF DroppedIsExpired, Dropped
<1>8. FindingsHold'
  BY <1>1, <1>2, <1>3 DEF FindingsHold, InCheck
<1>9. AnswersFit'
  BY <1>1, <1>3 DEF AnswersFit, FullAt
<1> QED
  BY <1>4, <1>5, <1>6, <1>7, <1>8, <1>9

\* A step within the check, or out of it, that leaves the logs as they are.
LEMMA MoveAlone ==
  ASSUME LimiterTypeOK, Alone, NEW w \in Threads, NEW step, NEW answer,
         Moves(w, step, answer), InCheck(w)' => InCheck(w),
         UNCHANGED <<clock, requests, let_in>>,
         NEW time, time = thread[w].now,
         step = "expired" => Expired(time),
         step = "counting" => ~Expired(time),
         step = "admitted" => Len(requests) < Limit,
         answer # 500,
         answer = 429 => thread[w].answer = 429 \/ FullAt(time)
  PROVE  Alone'
<1>1. OneChecked' /\ DequeIsSuffix' /\ TimesInOrder' /\ DroppedIsExpired' /\ Spaced'
  BY MoveKeepsLogs DEF Alone
<1>2. FindingsHold'
  BY DEF Alone, FindingsHold, Moves, Expired
<1>3. AnswersFit'
  BY AnswersKept DEF Alone
<1> QED
  BY <1>1, <1>2, <1>3 DEF Alone

LEMMA TestAlone ==
  ASSUME LimiterTypeOK, Alone, NEW w \in Threads, TestHead(w)
  PROVE  Alone'
<1>1. PICK time : time = thread[w].now
  OBVIOUS
<1>2. PICK step : step = IF Expired(time) THEN "expired" ELSE "counting"
  OBVIOUS
<1>3. PICK answer : answer = thread[w].answer
  OBVIOUS
<1>4. Moves(w, step, answer)
  BY <1>1, <1>2, <1>3, AdvanceMoves DEF TestHead
<1>5. InCheck(w) /\ UNCHANGED <<clock, requests, let_in>>
  BY DEF TestHead, InCheck
<1>6. answer # 500
  BY <1>3 DEF Alone, AnswersFit
<1> QED
  BY <1>1, <1>2, <1>3, <1>4, <1>5, <1>6, MoveAlone

LEMMA CountAlone ==
  ASSUME LimiterTypeOK, Alone, NEW w \in Threads, Count(w)
  PROVE  Alone'
<1>1. PICK time : time = thread[w].now
  OBVIOUS
<1>2. InCheck(w) /\ UNCHANGED <<clock, requests, let_in>> /\ ~Expired(time)
  BY <1>1 DEF Count, InCheck, Alone, FindingsHold
<1>3. CASE Len(requests) >= Limit
  <2>1. Moves(w, "free", 429)
    BY <1>3, AnswerMoves DEF Count
  <2>2. FullAt(time)
    <3> DEFINE n == Len(let_in) - Limit
    <3>1. Dropped \in Nat /\ n \in Nat /\ Dropped <= n /\ n + Limit = Len(let_in)
      BY <1>3, LimiterFacts DEF Alone, DequeIsSuffix, Dropped
    <3>2. Head(requests) > time - Window
      <4>1. requests # <<>> /\ time \in Int /\ Head(requests) \in Int
        BY <1>1, <1>3, LimiterFacts
      <4> QED
        BY <1>2, <4>1, LimiterFacts DEF Expired
    <3>3. Head(requests) = let_in[Dropped + 1]
      BY <1>3, LimiterFacts DEF Alone, DequeIsSuffix
    <3>4. ASSUME NEW i \in (n + 1)..(n + Limit)
          PROVE  time - Window < let_in[i] /\ let_in[i] <= time
      <4>1. i \in DOMAIN let_in /\ Dropped + 1 \in DOMAIN let_in /\ Dropped + 1 <= i
        BY SMTT(30), <3>1, LimiterFacts
      <4>2. let_in[Dropped + 1] <= let_in[i]
        BY <4>1 DEF Alone, TimesInOrder
      <4>3. let_in[i] <= time
        BY <1>1, <1>2, <4>1 DEF Alone, TimesInOrder
      <4>4. let_in[i] \in Int /\ let_in[Dropped + 1] \in Int /\ time - Window \in Int
        BY <1>1, <4>1, LimiterFacts
      <4> QED
        BY <3>2, <3>3, <4>2, <4>3, <4>4
    <3>5. n + Limit <= Len(let_in)
      BY <3>1, LimiterFacts
    <3> HIDE DEF n
    <3> QED
      BY <3>1, <3>4, <3>5 DEF FullAt
  <2> QED
    BY <1>1, <1>2, <2>1, <2>2, MoveAlone
<1>4. CASE ~(Len(requests) >= Limit)
  <2>1. PICK answer : answer = thread[w].answer
    OBVIOUS
  <2>2. Moves(w, "admitted", answer)
    BY <1>4, <2>1, AdvanceMoves DEF Count
  <2>3. answer # 500 /\ Len(requests) < Limit
    BY <1>4, <2>1, LimiterFacts DEF Alone, AnswersFit
  <2> QED
    BY <1>1, <1>2, <2>1, <2>2, <2>3, MoveAlone
<1> QED
  BY <1>3, <1>4

LEMMA AuthenticateAlone ==
  ASSUME LimiterTypeOK, Alone, NEW w \in Threads, Authenticate(w)
  PROVE  Alone'
<1>1. PICK time : time = thread[w].now
  OBVIOUS
<1>2. PICK answer \in {200, 401} : AnswerWith(w, answer)
  BY DEF Authenticate
<1>3. Moves(w, "free", answer) /\ UNCHANGED <<clock, requests, let_in>>
  BY <1>2, AnswerMoves DEF Authenticate
<1>4. ~InCheck(w)'
  BY <1>3 DEF Moves, InCheck
<1> QED
  BY <1>1, <1>2, <1>3, <1>4, MoveAlone

\* Only the thread that found the head expired takes it, and it is gone for good.
LEMMA PopAlone ==
  ASSUME LimiterTypeOK, Alone, NEW w \in Threads, PopLeft(w)
  PROVE  Alone'
<1> USE DEF Alone
<1>1. PICK answer : answer = thread[w].answer
  OBVIOUS
<1>2. /\ requests # <<>> /\ Head(requests) <= thread[w].now - Window /\ InCheck(w)
  BY DEF PopLeft, FindingsHold, Expired, InCheck
<1>3. /\ requests' = Tail(requests) /\ clock' = clock /\ let_in' = let_in
      /\ Moves(w, "testing", answer)
  BY <1>1, <1>2, AdvanceMoves DEF PopLeft
<1>4. /\ Len(requests') = Len(requests) - 1 /\ Len(requests) >= 1
      /\ Head(requests) = requests[1]
      /\ \A i \in 1..Len(requests') : requests'[i] = requests[i + 1]
  <2>1. requests \in Seq(Int)
    BY LimiterFacts
  <2> QED
    BY <1>2, <1>3, <2>1
<1>5. Dropped \in Nat /\ Dropped' = Dropped + 1 /\ Dropped + 1 \in DOMAIN let_in
      /\ let_in[Dropped + 1] = Head(requests)
  <2>1. Dropped \in Nat /\ Dropped' = Dropped + 1 /\ Dropped + 1 \in DOMAIN let_in
    <3>1. Len(let_in) \in Nat /\ Len(requests) \in Nat /\ DOMAIN let_in = 1..Len(let_in)
      BY LimiterFacts
    <3>2. Dropped' = Len(let_in) - (Len(requests) - 1)
      BY <1>3, <1>4 DEF Dropped
    <3>3. Dropped = Len(let_in) - Len(requests) /\ Dropped >= 0
      BY DEF Dropped, DequeIsSuffix
    <3> QED
      BY <1>4, <3>1, <3>2, <3>3
  <2>2. requests[1] = let_in[Dropped + 1]
    BY <1>4, LimiterFacts DEF DequeIsSuffix
  <2> QED
    BY <1>4, <2>1, <2>2
<1>6. \A v \in Threads : /\ thread'[v].now = thread[v].now
                         /\ InCheck(v)' => v = w
  <2>1. \A v \in Threads : InCheck(v) => v = w
    BY <1>2 DEF OneChecked
  <2> QED
    BY <1>3, <2>1 DEF Moves, InCheck
<1>7. OneChecked' /\ TimesInOrder' /\ Spaced'
  <2>1. OneChecked'
    BY <1>6 DEF OneChecked
  <2>2. TimesInOrder'
    BY <1>2, <1>3, <1>6 DEF TimesInOrder
  <2>3. Spaced'
    BY <1>3 DEF Spaced
  <2> QED
    BY <2>1, <2>2, <2>3
<1>8. DequeIsSuffix'
  <2>1. Dropped' >= 0
    BY <1>5
  <2>2. ASSUME NEW i \in 1..Len(requests')
        PROVE  requests'[i] = let_in'[Dropped' + i]
    <3>1. i + 1 \in 1..Len(requests) /\ requests'[i] = requests[i + 1]
      BY <1>4, LimiterFacts
    <3>2. requests[i + 1] = let_in[Dropped + (i + 1)]
      BY <3>1 DEF DequeIsSuffix
    <3>3. Dropped + (i + 1) = Dropped' + i
      BY <1>5
    <3> QED
      BY <1>3, <3>1, <3>2, <3>3
  <2> QED
    BY <2>1, <2>2 DEF DequeIsSuffix
<1>9. DroppedIsExpired'
  <2>1. \A i \in 1..Dropped' : i \in 1..Dropped \/ i = Dropped + 1
    BY <1>5
  <2>2. \A i \in 1..Dropped' : let_in[i] <= thread[w].now - Window
    BY <1>2, <1>5, <2>1 DEF DroppedIsExpired
  <2>3. \A i \in 1..Dropped' : let_in[i] <= clock - Window
    <3>1. thread[w].now <= clock
      BY DEF TimesInOrder
    <3>2. let_in[Dropped + 1] <= clock - Window
      BY <1>2, <1>5, <3>1, LimiterFacts
    <3> QED
      BY <2>1, <3>2 DEF DroppedIsExpired
  <2> QED
    BY <1>3, <1>6, <2>2, <2>3 DEF DroppedIsExpired
<1>10. FindingsHold'
  <2>1. thread'[w].step = "testing"
    BY <1>3 DEF Moves
  <2> QED
    BY <1>6, <2>1 DEF FindingsHold, InCheck
<1>11. AnswersFit'
  <2>1. PICK time : time = thread[w].now
    OBVIOUS
  <2>2. answer # 500
    BY <1>1 DEF AnswersFit
  <2> QED
    BY <1>1, <1>3, <2>1, <2>2, AnswersKept
<1> QED
  BY <1>7, <1>8, <1>9, <1>10, <1>11

\* The request let in comes last, and Limit places before it is a dropped one.
LEMMA AppendAlone ==
  ASSUME LimiterTypeOK, Alone, NEW w \in Threads, AppendNow(w)
  PROVE  Alone'
<1> USE DEF Alone
<1>1. PICK answer : answer = thread[w].answer
  OBVIOUS
<1>2. PICK now \in Int : now = thread[w].now
  BY LimiterFacts
<1>3. InCheck(w) /\ Len(requests) < Limit
  BY DEF AppendNow, FindingsHold, InCheck
<1>4. /\ requests' = Append(requests, now) /\ let_in' = Append(let_in, now)
      /\ clock' = clock /\ Moves(w, "authenticating", answer)
  BY <1>1, <1>2, AdvanceMoves DEF AppendNow
<1> DEFINE last == Len(let_in) + 1
<1>5. /\ Len(requests') = Len(requests) + 1
      /\ requests'[Len(requests) + 1] = now
      /\ \A i \in 1..Len(requests) : requests'[i] = requests[i]
  <2>1. requests \in Seq(Int)
    BY LimiterFacts
  <2> QED
    BY <1>4, <2>1
<1>6. /\ Len(let_in') = last /\ DOMAIN let_in' = 1..last
      /\ let_in'[last] = now
      /\ \A i \in 1..Len(let_in) : let_in'[i] = let_in[i]
  <2>1. let_in \in Seq(Int)
    BY LimiterFacts
  <2> QED
    BY <1>4, <2>1
<1>7. last \in Nat /\ \A i \in 1..last : i \in 1..Len(let_in) \/ i = last
  BY LimiterFacts
<1>8. Dropped' = Dropped /\ Dropped \in Nat
  BY <1>5, <1>6, LimiterFacts DEF Dropped, DequeIsSuffix
<1>9. \A v \in Threads : ~InCheck(v)' /\ thread'[v].now = thread[v].now
  <2>1. \A v \in Threads : InCheck(v) => v = w
    BY <1>3 DEF OneChecked
  <2> QED
    BY <1>4, <2>1 DEF Moves, InCheck
<1>10. \A i \in 1..Len(let_in) : let_in[i] <= now
  BY <1>2, <1>3, LimiterFacts DEF TimesInOrder
<1>11. OneChecked'
  BY <1>9 DEF OneChecked
<1>12. DequeIsSuffix'
  <2>1. ASSUME NEW i \in 1..Len(requests')
        PROVE  requests'[i] = let_in'[Dropped' + i]
    <3>1. CASE i = Len(requests) + 1
      <4>1. Dropped' + i = last
        <5>1. Len(let_in) \in Nat /\ Len(requests) \in Nat
          BY LimiterFacts
        <5>2. Dropped = Len(let_in) - Len(requests)
          BY DEF Dropped
        <5> QED
          BY <1>8, <3>1, <5>1, <5>2
      <4> QED
        BY <1>5, <1>6, <3>1, <4>1
    <3>2. CASE i \in 1..Len(requests)
      <4>1. Dropped + i \in 1..Len(let_in)
        BY <1>8, <3>2, LimiterFacts DEF Dropped
      <4>2. requests[i] = let_in[Dropped + i]
        BY <3>2 DEF DequeIsSuffix
      <4> QED
        BY <1>5, <1>6, <1>8, <3>2, <4>1, <4>2
    <3> QED
      BY <1>5, <3>1, <3>2, LimiterFacts
  <2> QED
    BY <1>8, <2>1 DEF DequeIsSuffix
<1>13. TimesInOrder'
  <2>1. ASSUME NEW i \in 1..last, NEW j \in 1..last, i <= j
        PROVE  let_in'[i] <= let_in'[j]
    <3>1. CASE j = last
      BY <1>2, <1>6, <1>7, <1>10, <3>1
    <3>2. CASE j \in 1..Len(let_in)
      <4>1. i \in 1..Len(let_in)
        BY <2>1, <3>2, LimiterFacts
      <4>2. let_in[i] <= let_in[j]
        BY <2>1, <3>2, <4>1, LimiterFacts DEF TimesInOrder
      <4> QED
        BY <1>6, <3>2, <4>1, <4>2
    <3> QED
      BY <1>7, <3>1, <3>2
  <2>2. now <= clock
    BY <1>2 DEF TimesInOrder
  <2>3. \A i \in 1..last : let_in'[i] <= clock
    BY <1>6, <1>7, <2>2, LimiterFacts DEF TimesInOrder
  <2>4. \A v \in Threads : thread'[v].now <= clock'
    BY <1>4, <1>9 DEF TimesInOrder
  <2> HIDE DEF last
  <2> QED
    BY <1>4, <1>6, <1>9, <2>1, <2>3, <2>4 DEF TimesInOrder
<1>14. DroppedIsExpired'
  <2>1. 1..Dropped \subseteq 1..Len(let_in)
    BY <1>8, LimiterFacts DEF Dropped
  <2>2. \A i \in 1..Dropped : let_in'[i] <= clock' - Window
    BY <1>4, <1>6, <2>1 DEF DroppedIsExpired
  <2> QED
    BY <1>8, <1>9, <2>2 DEF DroppedIsExpired
<1>15. Spaced'
  <2>1. ASSUME NEW i \in 1..last, i > Limit
        PROVE  let_in'[i - Limit] <= let_in'[i] - Window
    <3>1. i - Limit \in 1..Len(let_in)
      BY <1>7, <2>1, LimiterFacts
    <3>2. CASE i = last
      <4>1. i - Limit \in 1..Dropped
        BY <1>3, <1>8, <2>1, <3>2, LimiterFacts DEF Dropped
      <4>2. let_in[i - Limit] <= now - Window
        BY <1>2, <1>3, <4>1 DEF DroppedIsExpired
      <4> QED
        BY <1>6, <3>1, <3>2, <4>2
    <3>3. CASE i \in 1..Len(let_in)
      BY <1>6, <2>1, <3>1, <3>3, LimiterFacts DEF Spaced
    <3> QED
      BY <1>7, <3>2, <3>3
  <2> HIDE DEF last
  <2> QED
    BY <1>6, <2>1 DEF Spaced
<1>16. FindingsHold'
  BY <1>9 DEF FindingsHold, InCheck
<1>17. AnswersFit'
  <2>1. answer # 500
    BY <1>1 DEF AnswersFit
  <2> QED
    BY <1>1, <1>2, <1>4, <2>1, AnswersKept
<1> QED
  BY <1>11, <1>12, <1>13, <1>14, <1>15, <1>16, <1>17

LEMMA TickAlone ==
  ASSUME LimiterTypeOK, Alone, Tick
  PROVE  Alone'
<1> USE DEF Alone
<1>1. clock' = clock + 1 /\ UNCHANGED <<requests, thread, let_in>>
  BY DEF Tick
<1>2. TimesInOrder'
  <2>1. \A i \in DOMAIN let_in : let_in[i] <= clock'
    BY <1>1, LimiterFacts DEF TimesInOrder
  <2>2. \A w \in Threads : thread[w].now <= clock'
    BY <1>1, LimiterFacts DEF TimesInOrder
  <2> QED
    BY <1>1, <2>1, <2>2 DEF TimesInOrder, InCheck
<1>3. DroppedIsExpired'
  <2>1. 1..Dropped \subseteq DOMAIN let_in
    BY LimiterFacts DEF Dropped, DequeIsSuffix
  <2>2. \A i \in 1..Dropped : let_in[i] <= clock' - Window
    BY SMTT(30), <1>1, <2>1, LimiterFacts DEF DroppedIsExpired
  <2> QED
    BY <1>1, <2>2 DEF DroppedIsExpired, Dropped, InCheck
<1>4. OneChecked' /\ DequeIsSuffix' /\ Spaced'
  BY <1>1 DEF OneChecked, DequeIsSuffix, Spaced, Dropped, InCheck
<1>5. FindingsHold' /\ AnswersFit'
  BY <1>1 DEF FindingsHold, AnswersFit, Expired, FullAt
<1> QED
  BY <1>2, <1>3, <1>4, <1>5

LEMMA AloneStep ==
  ASSUME LimiterTypeOK, AloneInv, [LimiterNext]_limiterVars
  PROVE  AloneInv'
<1> SUFFICES ASSUME ~overlapped'
             PROVE  Alone'
  BY DEF AloneInv, Alone
<1>1. CASE UNCHANGED limiterVars
  BY <1>1
  DEF limiterVars, AloneInv, Alone, OneChecked, DequeIsSuffix, TimesInOrder, DroppedIsExpired,
      Spaced, FindingsHold, AnswersFit, Dropped, InCheck, Expired, FullAt
<1>2. CASE LimiterNext
  <2>1. ~overlapped
    BY <1>2 DEF LimiterNext, Arrive, TestHead, PopLeft, Count, AppendNow, Authenticate, Tick
  <2>2. Alone
    BY <2>1 DEF AloneInv, Alone
  <2> QED
    BY <1>2, <2>2, ArriveAlone, TestAlone, PopAlone, CountAlone, AppendAlone, AuthenticateAlone,
       TickAlone
    DEF LimiterNext
<1> QED
  BY <1>1, <1>2

\* Requests that never overlap are limited exactly: no window holds more than Limit of
\* them, a refusal means a full window, and the deque never fails (app.py 35-42).
THEOREM ExactInvariant == MainSpec => []ExactWhenAlone
<1>1. LimiterInit => AloneInv
  <2> SUFFICES ASSUME LimiterInit
               PROVE  Alone
    BY DEF AloneInv, Alone
  <2>1. /\ requests = <<>> /\ let_in = <<>> /\ clock = 0
        /\ \A w \in Threads : /\ thread[w].step = "free" /\ thread[w].now = 0
                              /\ thread[w].answer = 0
    BY DEF LimiterInit
  <2>2. Len(requests) = 0 /\ Len(let_in) = 0 /\ DOMAIN let_in = {}
    BY <2>1
  <2>3. Dropped = 0
    BY <2>2 DEF Dropped
  <2>4. \A w \in Threads : ~InCheck(w)
    BY <2>1 DEF InCheck
  <2>5. OneChecked /\ TimesInOrder /\ Spaced
    BY <2>1, <2>2, <2>4 DEF OneChecked, TimesInOrder, Spaced
  <2>6. DequeIsSuffix /\ DroppedIsExpired
    BY <2>2, <2>3, <2>4 DEF DequeIsSuffix, DroppedIsExpired
  <2>7. FindingsHold /\ AnswersFit
    BY <2>1 DEF FindingsHold, AnswersFit
  <2> QED
    BY <2>5, <2>6, <2>7 DEF Alone
<1>2. LimiterTypeOK /\ AloneInv /\ [LimiterNext]_limiterVars => AloneInv'
  BY AloneStep
<1> QED
  BY <1>1, <1>2, AloneImplies, LimiterTypeInvariant, ServesLimiter, PTL DEF LimiterSpec

-----------------------------------------------------------------------------
(***************************************************************************)
(* The first paper order, for any number of consoles, any quotes and any   *)
(* balance.                                                                *)
(***************************************************************************)
FirstOrderSpec == FirstOrderInit /\ [][FirstOrderNext]_firstOrderVars

\* What the process does to the account of a first order is what its command does.
LEMMA RunsFirstOrder == MainSpec => FirstOrderSpec
<1>1. MainInit => FirstOrderInit
  BY DEF MainInit
<1>2. [MainNext]_mainVars => [FirstOrderNext]_firstOrderVars
  BY DEF MainNext, mainVars
<1> QED
  BY <1>1, <1>2, PTL DEF MainSpec, FirstOrderSpec

\* The equity of an account without positions is its cash.
LEMMA EmptyEquity ==
  ASSUME NEW cash \in Int, NEW prices
  PROVE  Gate!Equity(EmptyPortfolio(cash), prices) = cash
<1> DEFINE portfolio0 == EmptyPortfolio(cash)
           value(s) == Gate!QuantityOf(portfolio0, s) * prices[s]
<1>1. Gate!HeldSymbols(portfolio0) = {}
  BY DEF Gate!HeldSymbols, Gate!Held, EmptyPortfolio
<1> DEFINE total == Gate!MapThenSumSet(value, Gate!HeldSymbols(portfolio0))
<1>2. total = 0
  BY <1>1 DEF Gate!MapThenSumSet, Gate!MapThenFoldSet
<1>3. Gate!Equity(portfolio0, prices) = portfolio0.cash_balance + total
  BY DEF Gate!Equity
<1>4. portfolio0.cash_balance = cash
  BY DEF EmptyPortfolio
<1> HIDE DEF total
<1> QED
  BY <1>2, <1>3, <1>4

\* The policy of the command allows one share of at most 500, worth at most a
\* hundredth of the cash that was read.
LEMMA ApprovedIsSmall ==
  ASSUME NEW c \in Consoles, NEW cash \in Int, NEW quote \in Nat \ {0}, Approves(c, cash, quote)
  PROVE  quote <= 500 /\ quote * 100 <= cash
<1> DEFINE portfolio0 == EmptyPortfolio(cash)
           context == Gate!ContextFor(portfolio0, cash, [s \in {"AAPL"} |-> quote], 0)
           share == OneShare(c, quote)
<1>1. Gate!MaxOrderValueRule(share) /\ Gate!MaxConcentrationRule(share, context, portfolio0)
  BY DEF Approves, Gate!Approved
<1>2. share.side = "buy" /\ Gate!total_value(share) = quote
  BY DEF OneShare, Gate!total_value
<1>3. quote <= 500
  BY <1>1, <1>2 DEF Gate!MaxOrderValueRule
<1>4. context.current_equity = cash
  BY EmptyEquity DEF Gate!ContextFor
<1>5. Gate!ProjectedPosition(share, context, portfolio0) = quote
  <2>1. Gate!QuantityOf(portfolio0, "AAPL") = 0
    BY DEF Gate!QuantityOf, Gate!Held, EmptyPortfolio
  <2>2. share.instrument.symbol = "AAPL" /\ context.market_prices["AAPL"] = quote
    BY DEF OneShare, AAPL, Gate!ContextFor
  <2>3. Gate!price_for(share, context) = quote
    BY <2>2 DEF Gate!price_for
  <2> QED
    BY <1>2, <2>1, <2>2, <2>3 DEF Gate!ProjectedPosition
<1>6. quote * 100 <= 1 * cash
  BY <1>1, <1>2, <1>4, <1>5 DEF Gate!MaxConcentrationRule
<1> QED
  BY <1>3, <1>6

\* An order exists only of a run that went as far as to send it, and what the console
\* has printed is true.
OrderExplained(c) ==
  /\ order[c].status # "none" => console[c].phase \in {"sending", "sent", "raised"}
  /\ console[c].phase = "sending" => order[c].status # "none"
  /\ console[c].phase = "sent" => order[c].status \in {"open", "filled", "ended"}

\* What a run has read, and what it has sent, is wrong by no more than the cash that
\* went out since.
WithinBalance(c) ==
  /\ console[c].phase \in {"read_positions", "read_quote", "asking"} =>
       console[c].cash <= account.cash + taken[c]
  /\ console[c].phase = "asking" => console[c].quote # 0
  /\ Outstanding(c) =>
       /\ order[c].limit * 100 <= account.cash + taken[c]
       /\ order[c].limit <= 500

\* The runs that have not ended, and those that may still bring a share: they await
\* it, or have found the account empty.
Busy(c) == Running(c) \/ Outstanding(c)
Claims(c) == Outstanding(c) \/ console[c].phase \in {"read_quote", "asking"}
BusyRuns == {c \in Consoles : Busy(c)}
ClaimingRuns == {c \in Consoles : Claims(c)}

RunsCounted ==
  /\ IsFiniteSet(BusyRuns)
  /\ Cardinality(BusyRuns) <= 1 + crowded
  /\ account.shares + Cardinality(ClaimingRuns) <= 1 + crowded + by_hand

FirstOrderInv ==
  /\ FirstOrderTypeOK
  /\ \A c \in Consoles : OrderExplained(c) /\ WithinBalance(c)
  /\ RunsCounted

LEMMA FirstOrderFacts ==
  ASSUME FirstOrderTypeOK
  PROVE  /\ account.cash \in Int /\ account.shares \in Nat
         /\ \A c \in Consoles : taken[c] \in Nat
         /\ DOMAIN console = Consoles /\ DOMAIN order = Consoles
         /\ \A c \in Consoles : console[c] \in Console /\ order[c] \in OrderOfRun
         /\ \A q \in Quotes : q \in Nat /\ q > 0
BY QuotesAssumption DEF FirstOrderTypeOK

\* What a step of one console leaves of the consoles.
ConsoleMoves(c, phase, cash, quote) ==
  /\ console'[c].phase = phase /\ console'[c].cash = cash /\ console'[c].quote = quote
  /\ \A d \in Consoles : d # c => console'[d] = console[d]

Phases == {"new", "asking", "sending"} \cup Reading \cup Reported

LEMMA ConsoleKept ==
  ASSUME FirstOrderTypeOK, NEW c \in Consoles, NEW phase \in Phases, NEW cash \in Int,
         NEW quote \in Quotes \cup {0},
         console' = [console EXCEPT ![c] =
                       [console[c] EXCEPT !.phase = phase, !.cash = cash, !.quote = quote]]
  PROVE  console' \in [Consoles -> Console] /\ ConsoleMoves(c, phase, cash, quote)
<1>1. console \in [Consoles -> Console] /\ console[c] \in Console
  BY DEF FirstOrderTypeOK
<1> DEFINE entry == [console[c] EXCEPT !.phase = phase, !.cash = cash, !.quote = quote]
<1>2. /\ entry.phase = phase /\ entry.cash = cash /\ entry.quote = quote
      /\ entry \in Console
  BY <1>1 DEF Console, Phases
<1> HIDE DEF entry
<1>3. console' = [console EXCEPT ![c] = entry]
  BY DEF entry
<1> QED
  BY <1>1, <1>2, <1>3 DEF ConsoleMoves

LEMMA EnterMoves ==
  ASSUME FirstOrderTypeOK, NEW c \in Consoles, NEW phase \in Phases, Enter(c, phase)
  PROVE  /\ console' \in [Consoles -> Console]
         /\ ConsoleMoves(c, phase, console[c].cash, console[c].quote)
<1>1. console[c] \in Console
  BY DEF FirstOrderTypeOK
<1>2. console' = [console EXCEPT ![c] = [console[c] EXCEPT
                   !.phase = phase, !.cash = console[c].cash, !.quote = console[c].quote]]
  <2>1. [console[c] EXCEPT !.phase = phase, !.cash = console[c].cash, !.quote = console[c].quote]
          = [console[c] EXCEPT !.phase = phase]
    BY <1>1 DEF Console
  <2> QED
    BY <2>1 DEF Enter
<1>3. console[c].cash \in Int /\ console[c].quote \in Quotes \cup {0}
  BY <1>1 DEF Console
<1> QED
  BY <1>2, <1>3, ConsoleKept

\* The seven steps of a console, each by where the console stands afterwards.
Goes(c, phase) ==
  /\ console' \in [Consoles -> Console]
  /\ ConsoleMoves(c, phase, console[c].cash, console[c].quote)

LEMMA ConsoleSteps ==
  ASSUME FirstOrderTypeOK, NEW c \in Consoles
  PROVE  /\ Launch(c) => Goes(c, "read_cash")
         /\ ReadCash(c) => /\ console' \in [Consoles -> Console]
                           /\ ConsoleMoves(c, "read_positions", account.cash, console[c].quote)
         /\ ReadPositions(c) =>
              Goes(c, IF account.shares = 0 THEN "read_quote" ELSE "raised")
         /\ ReadQuote(c) =>
              /\ console' \in [Consoles -> Console]
              /\ \E quote \in Quotes, phase \in {"raised", "asking", "blocked"} :
                   /\ ConsoleMoves(c, phase, console[c].cash, quote)
                   /\ phase = "asking" => Approves(c, console[c].cash, quote)
         /\ Confirm(c) =>
              \/ (Goes(c, "cancelled") \/ Goes(c, "raised")) /\ UNCHANGED order
              \/ /\ Approves(c, console[c].cash, console[c].quote)
                 /\ Goes(c, "sending")
                 /\ order' = [order EXCEPT ![c] = [status |-> "on_its_way",
                                                   limit |-> console[c].quote]]
         /\ Report(c) =>
              Goes(c, IF order[c].status = "refused" THEN "raised" ELSE "sent")
         /\ Interrupted(c) => Goes(c, "raised")
<1>1. ASSUME NEW phase \in Phases, Enter(c, phase)
      PROVE  Goes(c, phase)
  BY <1>1, EnterMoves DEF Goes
<1>2. {"read_cash", "read_quote", "raised", "cancelled", "sending", "sent"} \subseteq Phases
  BY DEF Phases, Reading, Reported
<1>3. Launch(c) => Goes(c, "read_cash")
  BY <1>1, <1>2 DEF Launch
<1>4. ASSUME ReadCash(c)
      PROVE  /\ console' \in [Consoles -> Console]
             /\ ConsoleMoves(c, "read_positions", account.cash, console[c].quote)
  <2>1. account.cash \in Int /\ console[c] \in Console /\ "read_positions" \in Phases
    BY FirstOrderFacts DEF Phases, Reading
  <2>2. [console[c] EXCEPT !.phase = "read_positions", !.cash = account.cash,
                           !.quote = console[c].quote]
          = [console[c] EXCEPT !.phase = "read_positions", !.cash = account.cash]
    BY <2>1 DEF Console
  <2>3. console[c].quote \in Quotes \cup {0}
    BY <2>1 DEF Console
  <2>4. console' = [console EXCEPT ![c] =
          [console[c] EXCEPT !.phase = "read_positions", !.cash = account.cash]]
    BY <1>4, FirstOrderFacts DEF ReadCash
  <2> QED
    BY <2>1, <2>2, <2>3, <2>4, ConsoleKept
<1>5. ReadPositions(c) => Goes(c, IF account.shares = 0 THEN "read_quote" ELSE "raised")
  BY <1>1, <1>2 DEF ReadPositions
<1>6. ASSUME ReadQuote(c)
      PROVE  /\ console' \in [Consoles -> Console]
             /\ \E quote \in Quotes, phase \in {"raised", "asking", "blocked"} :
                  /\ ConsoleMoves(c, phase, console[c].cash, quote)
                  /\ phase = "asking" => Approves(c, console[c].cash, quote)
  <2> DEFINE next(quote) == IF console[c].cash <= 0 THEN "raised"
                            ELSE IF Approves(c, console[c].cash, quote) THEN "asking" ELSE "blocked"
  <2>1. PICK quote \in Quotes :
          console' = [console EXCEPT ![c].quote = quote, ![c].phase = next(quote)]
    BY <1>6 DEF ReadQuote
  <2>2. /\ next(quote) \in {"raised", "asking", "blocked"}
        /\ next(quote) = "asking" => Approves(c, console[c].cash, quote)
    OBVIOUS
  <2>3. PICK phase : phase = next(quote)
    OBVIOUS
  <2> HIDE DEF next
  <2>4. console[c] \in Console /\ console[c].cash \in Int /\ phase \in Phases
    BY <2>2, <2>3, FirstOrderFacts DEF Console, Phases, Reading, Reported
  <2>5. [console[c] EXCEPT !.phase = phase, !.cash = console[c].cash, !.quote = quote]
          = [console[c] EXCEPT !.quote = quote, !.phase = phase]
    BY <2>4 DEF Console
  <2>6. console' = [console EXCEPT ![c] = [console[c] EXCEPT !.quote = quote, !.phase = phase]]
    BY <2>1, <2>3, FirstOrderFacts
  <2>7. console' \in [Consoles -> Console] /\ ConsoleMoves(c, phase, console[c].cash, quote)
    BY <2>4, <2>5, <2>6, ConsoleKept
  <2> QED
    BY <2>2, <2>3, <2>7
<1>7. ASSUME Confirm(c)
      PROVE  \/ (Goes(c, "cancelled") \/ Goes(c, "raised")) /\ UNCHANGED order
             \/ /\ Approves(c, console[c].cash, console[c].quote)
                /\ Goes(c, "sending")
                /\ order' = [order EXCEPT ![c] = [status |-> "on_its_way",
                                                  limit |-> console[c].quote]]
  BY <1>1, <1>2, <1>7 DEF Confirm
<1>8. Report(c) => Goes(c, IF order[c].status = "refused" THEN "raised" ELSE "sent")
  BY <1>1, <1>2 DEF Report
<1>9. Interrupted(c) => Goes(c, "raised")
  BY <1>1, <1>2 DEF Interrupted
<1> QED
  BY <1>3, <1>4, <1>5, <1>6, <1>7, <1>8, <1>9

LEMMA FirstOrderTypeStep ==
  FirstOrderTypeOK /\ [FirstOrderNext]_firstOrderVars => FirstOrderTypeOK'
<1> SUFFICES ASSUME FirstOrderTypeOK, [FirstOrderNext]_firstOrderVars
             PROVE  FirstOrderTypeOK'
  OBVIOUS
<1> USE QuotesAssumption DEF FirstOrderTypeOK
<1>1. ASSUME NEW c \in Consoles,
             \/ Launch(c) \/ ReadPositions(c) \/ Report(c) \/ Interrupted(c)
      PROVE  FirstOrderTypeOK'
  BY <1>1, ConsoleSteps DEF Launch, ReadPositions, Report, Interrupted, Goes
<1>2. ASSUME NEW c \in Consoles, ReadCash(c) \/ ReadQuote(c)
      PROVE  FirstOrderTypeOK'
  <2>1. taken' \in [Consoles -> Nat]
    BY <1>2 DEF ReadCash, ReadQuote
  <2> QED
    BY <1>2, <2>1, ConsoleSteps DEF ReadCash, ReadQuote
<1>3. ASSUME NEW c \in Consoles, Confirm(c)
      PROVE  FirstOrderTypeOK'
  <2>1. console' \in [Consoles -> Console]
    BY <1>3, ConsoleSteps DEF Goes
  <2>2. order' \in [Consoles -> OrderOfRun]
    BY <1>3 DEF Confirm, Console, OrderOfRun
  <2> QED
    BY <1>3, <2>1, <2>2 DEF Confirm
<1>4. ASSUME NEW c \in Consoles, HandlePost(c) \/ OrderEnds(c)
      PROVE  FirstOrderTypeOK'
  BY <1>4 DEF HandlePost, OrderEnds, SetStatus, OrderOfRun
<1>5. ASSUME NEW c \in Consoles, FillOrder(c)
      PROVE  FirstOrderTypeOK'
  BY <1>5 DEF FillOrder, Buy, SetStatus, OrderOfRun
<1>6. CASE OwnerTrades
  BY <1>6 DEF OwnerTrades, Buy
<1>7. CASE UNCHANGED firstOrderVars
  BY <1>7 DEF firstOrderVars
<1> QED
  BY <1>1, <1>2, <1>3, <1>4, <1>5, <1>6, <1>7 DEF FirstOrderNext

LEMMA OrderExplainedStep ==
  ASSUME FirstOrderTypeOK, \A c \in Consoles : OrderExplained(c), [FirstOrderNext]_firstOrderVars,
         NEW e \in Consoles
  PROVE  OrderExplained(e)'
<1> USE FirstOrderFacts DEF OrderExplained
<1>1. ASSUME NEW c \in Consoles,
             \/ Launch(c) \/ ReadPositions(c) \/ Report(c) \/ Interrupted(c)
      PROVE  OrderExplained(e)'
  BY <1>1, ConsoleSteps DEF Launch, ReadPositions, Report, Interrupted, Goes, ConsoleMoves,
       Running, Reading, OrderOfRun
<1>2. ASSUME NEW c \in Consoles, ReadCash(c) \/ ReadQuote(c)
      PROVE  OrderExplained(e)'
  <2>1. order' = order /\ console[c].phase \in {"read_cash", "read_quote"}
    BY <1>2 DEF ReadCash, ReadQuote
  <2>2. order[c].status = "none"
    BY <2>1
  <2>3. PICK phase \in {"read_positions", "raised", "asking", "blocked"} :
          console'[c].phase = phase /\ \A d \in Consoles : d # c => console'[d] = console[d]
    <3>1. CASE ReadCash(c)
      BY <3>1, ConsoleSteps DEF ConsoleMoves
    <3>2. CASE ReadQuote(c)
      BY <3>2, ConsoleSteps DEF ConsoleMoves
    <3> QED
      BY <1>2, <3>1, <3>2
  <2> QED
    BY <2>1, <2>2, <2>3
<1>3. ASSUME NEW c \in Consoles, Confirm(c)
      PROVE  OrderExplained(e)'
  BY <1>3, ConsoleSteps DEF Confirm, Goes, ConsoleMoves, OrderOfRun
<1>4. ASSUME NEW c \in Consoles, HandlePost(c) \/ OrderEnds(c) \/ FillOrder(c)
      PROVE  OrderExplained(e)'
  BY <1>4 DEF HandlePost, OrderEnds, FillOrder, SetStatus, OrderOfRun
<1>5. CASE OwnerTrades \/ UNCHANGED firstOrderVars
  BY <1>5 DEF OwnerTrades, firstOrderVars
<1> QED
  BY <1>1, <1>2, <1>3, <1>4, <1>5 DEF FirstOrderNext

LEMMA ApprovedOrderIsSmall ==
  ASSUME FirstOrderTypeOK, NEW c \in Consoles, WithinBalance(c),
         console[c].phase \in {"read_quote", "asking"}, NEW quote \in Quotes,
         Approves(c, console[c].cash, quote)
  PROVE  quote <= 500 /\ quote * 100 <= account.cash + taken[c]
<1>1. /\ console[c].cash \in Int /\ quote \in Nat \ {0}
      /\ account.cash \in Int /\ taken[c] \in Nat
  BY FirstOrderFacts DEF Console
<1>2. quote <= 500 /\ quote * 100 <= console[c].cash
  BY <1>1, ApprovedIsSmall
<1> QED
  BY <1>1, <1>2 DEF WithinBalance

\* The cash of the account and what went out since the balance was read, together,
\* are what was read and what came in since.
LEMMA CashAccounted ==
  ASSUME FirstOrderTypeOK, [FirstOrderNext]_firstOrderVars, NEW c \in Consoles
  PROVE  ReadCash(c) \/ account.cash + taken[c] <= account'.cash + taken'[c]
<1>1. /\ taken \in [Consoles -> Nat] /\ account.cash \in Int /\ account.shares \in Nat
      /\ \A q \in Quotes : q \in Nat
  BY FirstOrderFacts DEF FirstOrderTypeOK
<1>2. ASSUME NEW price \in Quotes, Buy(price)
      PROVE  account.cash + taken[c] <= account'.cash + taken'[c]
  BY <1>1, <1>2 DEF Buy
<1>3. CASE OwnerTrades
  BY <1>1, <1>2, <1>3 DEF OwnerTrades
<1>4. CASE \E d \in Consoles : FillOrder(d)
  BY <1>2, <1>4 DEF FillOrder
<1>5. CASE \E d \in Consoles : ReadCash(d)
  <2>1. PICK d \in Consoles : ReadCash(d)
    BY <1>5
  <2>2. CASE d = c
    BY <2>1, <2>2
  <2>3. CASE d # c
    <3>1. taken'[c] = taken[c] /\ account' = account /\ taken[c] \in Nat
      BY <1>1, <2>1, <2>3 DEF ReadCash
    <3> QED
      BY <1>1, <3>1
  <2> QED
    BY <2>2, <2>3
<1>6. CASE UNCHANGED <<account, taken>>
  BY <1>1, <1>6
<1> QED
  BY <1>3, <1>4, <1>5, <1>6 DEF FirstOrderNext, Launch, ReadPositions, ReadQuote, Confirm, Report,
     Interrupted, HandlePost, OrderEnds, firstOrderVars

LEMMA AmountsOfRun ==
  ASSUME FirstOrderTypeOK, [FirstOrderNext]_firstOrderVars, NEW c \in Consoles
  PROVE  /\ account.cash + taken[c] \in Int /\ account'.cash + taken'[c] \in Int
         /\ console[c].cash \in Int /\ order[c].limit * 100 \in Int
<1>1. FirstOrderTypeOK'
  BY FirstOrderTypeStep
<1>2. account.cash \in Int /\ account'.cash \in Int /\ taken[c] \in Nat /\ taken'[c] \in Nat
  BY <1>1 DEF FirstOrderTypeOK
<1>3. console[c].cash \in Int /\ order[c].limit \in Quotes \cup {0}
  BY FirstOrderFacts DEF Console, OrderOfRun
<1>4. \A q \in Quotes \cup {0} : q * 100 \in Int
  <2>1. \A q \in Quotes : q \in Nat
    BY FirstOrderFacts
  <2> QED
    BY <2>1
<1>5. order[c].limit * 100 \in Int
  BY <1>3, <1>4
<1> QED
  BY <1>2, <1>3, <1>5

\* A run that has no part in a step keeps what it has read and sent.
LEMMA BystanderWithinBalance ==
  ASSUME FirstOrderTypeOK, [FirstOrderNext]_firstOrderVars, NEW c \in Consoles,
         WithinBalance(c), UNCHANGED <<console[c], order[c]>>
  PROVE  WithinBalance(c)'
<1>1. /\ account.cash + taken[c] \in Int /\ account'.cash + taken'[c] \in Int
      /\ console[c].cash \in Int /\ order[c].limit * 100 \in Int
  BY AmountsOfRun
<1>2. CASE ReadCash(c)
  <2>1. console'[c].phase = "read_positions" /\ console[c].phase = "read_cash"
    BY <1>2, ConsoleSteps DEF ConsoleMoves, ReadCash
  <2> QED
    BY <2>1
<1>3. CASE account.cash + taken[c] <= account'.cash + taken'[c]
  BY <1>1, <1>3 DEF WithinBalance, Outstanding
<1> QED
  BY <1>2, <1>3, CashAccounted

LEMMA WithinBalanceStep ==
  ASSUME FirstOrderTypeOK, [FirstOrderNext]_firstOrderVars, NEW e \in Consoles,
         OrderExplained(e), WithinBalance(e)
  PROVE  WithinBalance(e)'
<1>1. /\ account.cash \in Int /\ taken[e] \in Nat /\ DOMAIN taken = Consoles
      /\ account.cash + taken[e] \in Int /\ account'.cash + taken'[e] \in Int
      /\ console[e].cash \in Int /\ order[e].limit * 100 \in Int
      /\ \A q \in Quotes : q # 0
  BY AmountsOfRun, QuotesAssumption DEF FirstOrderTypeOK
<1>2. ASSUME NEW c \in Consoles, c # e,
             \/ Launch(c) \/ ReadCash(c) \/ ReadPositions(c) \/ ReadQuote(c) \/ Report(c)
             \/ Interrupted(c) \/ Confirm(c) \/ HandlePost(c) \/ FillOrder(c) \/ OrderEnds(c)
      PROVE  WithinBalance(e)'
  <2>1. console'[e] = console[e]
    BY <1>2, ConsoleSteps DEF Goes, ConsoleMoves, HandlePost, FillOrder, OrderEnds
  <2>2. order'[e] = order[e]
    BY <1>2, FirstOrderFacts DEF Launch, ReadCash, ReadPositions, ReadQuote, Report, Interrupted,
       Confirm, HandlePost, FillOrder, OrderEnds, SetStatus
  <2> QED
    BY <2>1, <2>2, BystanderWithinBalance
<1>3. CASE Launch(e) \/ ReadPositions(e) \/ Report(e) \/ Interrupted(e)
  <2>1. UNCHANGED <<order, account, taken>>
    BY <1>3 DEF Launch, ReadPositions, Report, Interrupted
  <2> QED
    BY <1>1, <1>3, <2>1, ConsoleSteps
       DEF Launch, ReadPositions, Report, Interrupted, Goes, ConsoleMoves, WithinBalance, Outstanding
<1>4. CASE ReadCash(e)
  <2>1. /\ console'[e].cash = account.cash /\ console'[e].phase = "read_positions"
        /\ console[e].phase = "read_cash" /\ taken'[e] = 0 /\ UNCHANGED <<order, account>>
    BY <1>1, <1>4, ConsoleSteps DEF ConsoleMoves, ReadCash
  <2>2. ~Outstanding(e)
    BY <2>1 DEF OrderExplained, Outstanding
  <2> QED
    BY <1>1, <2>1, <2>2 DEF WithinBalance, Outstanding
<1>5. CASE ReadQuote(e)
  <2>1. PICK quote \in Quotes, phase \in {"raised", "asking", "blocked"} :
          ConsoleMoves(e, phase, console[e].cash, quote)
    BY <1>5, ConsoleSteps
  <2>2. console[e].phase = "read_quote" /\ UNCHANGED <<order, account, taken>>
    BY <1>5 DEF ReadQuote
  <2> QED
    BY <1>1, <2>1, <2>2 DEF ConsoleMoves, WithinBalance, Outstanding
<1>6. CASE Confirm(e)
  <2>1. UNCHANGED <<account, taken>> /\ console[e].phase = "asking"
    BY <1>6 DEF Confirm
  <2>2. CASE (Goes(e, "cancelled") \/ Goes(e, "raised")) /\ UNCHANGED order
    BY <1>1, <2>1, <2>2 DEF Goes, ConsoleMoves, WithinBalance, Outstanding
  <2>3. CASE /\ Approves(e, console[e].cash, console[e].quote)
             /\ Goes(e, "sending")
             /\ order' = [order EXCEPT ![e] = [status |-> "on_its_way",
                                               limit |-> console[e].quote]]
    <3>1. console[e].quote \in Quotes
      BY <2>1, FirstOrderFacts DEF Console, WithinBalance
    <3>2. console[e].quote <= 500 /\ console[e].quote * 100 <= account.cash + taken[e]
      BY <2>1, <2>3, <3>1, ApprovedOrderIsSmall
    <3>3. order'[e].limit = console[e].quote /\ console'[e].phase = "sending"
      BY <2>3, FirstOrderFacts DEF Goes, ConsoleMoves
    <3> QED
      BY <2>1, <3>2, <3>3 DEF WithinBalance
  <2> QED
    BY <1>6, <2>2, <2>3, ConsoleSteps
<1>7. CASE HandlePost(e) \/ FillOrder(e) \/ OrderEnds(e)
  <2>1. UNCHANGED console /\ Outstanding(e)
    BY <1>7 DEF HandlePost, FillOrder, OrderEnds, Outstanding
  <2>2. order'[e].limit = order[e].limit
    BY <1>7, FirstOrderFacts DEF HandlePost, FillOrder, OrderEnds, SetStatus, OrderOfRun
  <2>3. console[e].phase \in {"sending", "sent", "raised"}
    BY <2>1 DEF OrderExplained, Outstanding
  <2>4. account.cash + taken[e] <= account'.cash + taken'[e]
    BY <2>3, CashAccounted DEF ReadCash
  <2> QED
    BY <1>1, <2>1, <2>2, <2>3, <2>4 DEF WithinBalance
<1>8. CASE OwnerTrades \/ UNCHANGED firstOrderVars
  <2>1. UNCHANGED <<console[e], order[e]>>
    BY <1>8 DEF OwnerTrades, firstOrderVars
  <2> QED
    BY <2>1, BystanderWithinBalance
<1> QED
  BY <1>2, <1>3, <1>4, <1>5, <1>6, <1>7, <1>8 DEF FirstOrderNext

\* The numbers of a state in which the busy runs are finitely many.
LEMMA RunsFinite ==
  ASSUME RunsCounted
  PROVE  /\ ClaimingRuns \subseteq BusyRuns
         /\ IsFiniteSet(ClaimingRuns)
         /\ Cardinality(BusyRuns) \in Nat /\ Cardinality(ClaimingRuns) \in Nat
         /\ Cardinality(ClaimingRuns) <= Cardinality(BusyRuns)
<1>1. ClaimingRuns \subseteq BusyRuns
  BY DEF ClaimingRuns, BusyRuns, Claims, Busy, Running, Reading
<1> QED
  BY <1>1, FS_Subset, FS_CardinalityType DEF RunsCounted

\* A step after which no run is busy or claims a share that did not before.
LEMMA NothingAdded ==
  ASSUME FirstOrderTypeOK, FirstOrderTypeOK', RunsCounted,
         BusyRuns' \subseteq BusyRuns, ClaimingRuns' \subseteq ClaimingRuns,
         crowded' = crowded, account'.shares - by_hand' <= account.shares - by_hand
  PROVE  RunsCounted'
<1>1. /\ IsFiniteSet(BusyRuns') /\ Cardinality(BusyRuns') <= Cardinality(BusyRuns)
      /\ Cardinality(BusyRuns') \in Nat /\ Cardinality(BusyRuns) \in Nat
  BY FS_Subset, FS_CardinalityType DEF RunsCounted
<1>2. /\ Cardinality(ClaimingRuns') <= Cardinality(ClaimingRuns)
      /\ Cardinality(ClaimingRuns') \in Nat /\ Cardinality(ClaimingRuns) \in Nat
  BY RunsFinite, FS_Subset, FS_CardinalityType
<1>3. /\ account.shares \in Nat /\ account'.shares \in Nat /\ by_hand \in Nat /\ by_hand' \in Nat
      /\ crowded \in Nat
  BY DEF FirstOrderTypeOK
<1> QED
  BY <1>1, <1>2, <1>3 DEF RunsCounted

LEMMA LaunchCounted ==
  ASSUME FirstOrderInv, NEW c \in Consoles, Launch(c)
  PROVE  RunsCounted'
<1>1. FirstOrderTypeOK /\ OrderExplained(c) /\ RunsCounted
  BY DEF FirstOrderInv
<1>2. /\ ConsoleMoves(c, "read_cash", console[c].cash, console[c].quote)
      /\ UNCHANGED <<order, account, by_hand>> /\ console[c].phase = "new"
  BY <1>1, ConsoleSteps DEF Goes, Launch
<1>3. /\ BusyRuns' = BusyRuns \cup {c}
      /\ ClaimingRuns' = ClaimingRuns
  <2>1. ~Outstanding(c) /\ ~Outstanding(c)'
    BY <1>1, <1>2 DEF OrderExplained, Outstanding
  <2>2. Busy(c)' /\ ~Claims(c) /\ ~Claims(c)'
    BY <1>2, <2>1 DEF ConsoleMoves, Busy, Claims, Running, Reading
  <2>3. \A d \in Consoles : d # c => Busy(d)' = Busy(d) /\ Claims(d)' = Claims(d)
    BY <1>2 DEF ConsoleMoves, Busy, Claims, Running, Outstanding
  <2> QED
    BY <2>2, <2>3 DEF BusyRuns, ClaimingRuns
<1>4. c \notin BusyRuns
  BY <1>1, <1>2 DEF OrderExplained, BusyRuns, Busy, Running, Outstanding, Reading
<1>5. /\ IsFiniteSet(BusyRuns) /\ Cardinality(BusyRuns) <= 1 + crowded
      /\ account.shares + Cardinality(ClaimingRuns) <= 1 + crowded + by_hand
      /\ Cardinality(BusyRuns) \in Nat /\ Cardinality(ClaimingRuns) \in Nat
      /\ crowded \in Nat /\ by_hand \in Nat /\ account.shares \in Nat
  BY <1>1, RunsFinite DEF RunsCounted, FirstOrderTypeOK
<1>6. IsFiniteSet(BusyRuns') /\ Cardinality(BusyRuns') = Cardinality(BusyRuns) + 1
  BY <1>3, <1>4, <1>5, FS_AddElement
<1>7. IF BusyRuns = {} THEN crowded' = crowded ELSE crowded' = crowded + 1
  BY DEF Launch, BusyRuns, Busy
<1>8. BusyRuns = {} => Cardinality(BusyRuns) = 0
  BY FS_EmptySet
<1> QED
  BY <1>2, <1>3, <1>5, <1>6, <1>7, <1>8 DEF RunsCounted

\* A run that finds the account empty claims a share; as many claim one as are busy,
\* at most, and nothing is held.
LEMMA ReadPositionsCounted ==
  ASSUME FirstOrderInv, FirstOrderTypeOK', NEW c \in Consoles, ReadPositions(c)
  PROVE  RunsCounted'
<1>1. FirstOrderTypeOK /\ RunsCounted
  BY DEF FirstOrderInv
<1>2. UNCHANGED <<order, account, by_hand, crowded>> /\ console[c].phase = "read_positions"
  BY DEF ReadPositions
<1>3. /\ console'[c].phase = IF account.shares = 0 THEN "read_quote" ELSE "raised"
      /\ \A d \in Consoles : d # c => console'[d] = console[d]
  BY <1>1, ConsoleSteps DEF Goes, ConsoleMoves
<1>4. BusyRuns' \subseteq BusyRuns
  BY <1>2, <1>3 DEF BusyRuns, Busy, Running, Outstanding, Reading
<1>5. CASE account.shares # 0
  <2>1. ClaimingRuns' \subseteq ClaimingRuns
    BY <1>2, <1>3, <1>5 DEF ClaimingRuns, Claims, Outstanding
  <2>2. account'.shares - by_hand' <= account.shares - by_hand
    BY <1>1, <1>2 DEF FirstOrderTypeOK
  <2> QED
    BY <1>1, <1>2, <1>4, <2>1, <2>2, NothingAdded
<1>6. CASE account.shares = 0
  <2>1. /\ IsFiniteSet(BusyRuns') /\ Cardinality(BusyRuns') <= Cardinality(BusyRuns)
        /\ Cardinality(BusyRuns) \in Nat /\ Cardinality(BusyRuns') \in Nat
        /\ Cardinality(BusyRuns) <= 1 + crowded /\ crowded \in Nat /\ by_hand \in Nat
    BY <1>1, <1>4, FS_Subset, FS_CardinalityType DEF RunsCounted, FirstOrderTypeOK
  <2>2. ClaimingRuns' \subseteq BusyRuns'
    BY DEF ClaimingRuns, BusyRuns, Claims, Busy, Running, Reading
  <2>3. Cardinality(ClaimingRuns') <= Cardinality(BusyRuns') /\ Cardinality(ClaimingRuns') \in Nat
    BY <2>1, <2>2, FS_Subset, FS_CardinalityType
  <2>4. account'.shares = 0 /\ crowded' = crowded /\ by_hand' = by_hand
    BY <1>2, <1>6
  <2> QED
    BY <2>1, <2>3, <2>4 DEF RunsCounted
<1> QED
  BY <1>5, <1>6

\* A share that arrives was claimed by the run whose order it was.
LEMMA FillCounted ==
  ASSUME FirstOrderInv, NEW c \in Consoles, FillOrder(c)
  PROVE  RunsCounted'
<1>1. FirstOrderTypeOK /\ OrderExplained(c) /\ RunsCounted
  BY DEF FirstOrderInv
<1>2. /\ UNCHANGED <<console, by_hand, crowded>> /\ order[c].status = "open"
      /\ account'.shares = account.shares + 1
  BY DEF FillOrder, Buy
<1>3. order'[c].status = "filled" /\ \A d \in Consoles : d # c => order'[d] = order[d]
  BY <1>1, FirstOrderFacts DEF FillOrder, SetStatus, OrderOfRun
<1>4. c \in ClaimingRuns /\ ClaimingRuns' = ClaimingRuns \ {c} /\ BusyRuns' \subseteq BusyRuns
  <2>1. Claims(c) /\ ~Claims(c)'
    BY <1>1, <1>2, <1>3 DEF OrderExplained, Claims, Outstanding
  <2>2. \A d \in Consoles : d # c => Claims(d)' = Claims(d) /\ (Busy(d)' => Busy(d))
    BY <1>2, <1>3 DEF Claims, Busy, Running, Outstanding
  <2>3. Busy(c)
    BY <1>2 DEF Busy, Outstanding
  <2> QED
    BY <2>1, <2>2, <2>3 DEF ClaimingRuns, BusyRuns
<1>5. /\ Cardinality(ClaimingRuns') = Cardinality(ClaimingRuns) - 1
      /\ Cardinality(ClaimingRuns) \in Nat
  BY <1>1, <1>4, RunsFinite, FS_RemoveElement
<1>6. /\ IsFiniteSet(BusyRuns') /\ Cardinality(BusyRuns') <= Cardinality(BusyRuns)
      /\ Cardinality(BusyRuns) \in Nat /\ Cardinality(BusyRuns') \in Nat
  BY <1>1, <1>4, FS_Subset, FS_CardinalityType DEF RunsCounted
<1>7. account.shares \in Nat /\ crowded \in Nat /\ by_hand \in Nat
  BY <1>1 DEF FirstOrderTypeOK
<1> QED
  BY <1>1, <1>2, <1>5, <1>6, <1>7 DEF RunsCounted

\* The other steps end something, or trade for the owner.
LEMMA OthersCounted ==
  ASSUME FirstOrderInv, FirstOrderTypeOK',
         \/ \E c \in Consoles : \/ ReadCash(c) \/ ReadQuote(c) \/ Confirm(c) \/ Report(c)
                                \/ Interrupted(c) \/ HandlePost(c) \/ OrderEnds(c)
         \/ OwnerTrades
         \/ UNCHANGED firstOrderVars
  PROVE  RunsCounted'
<1>1. FirstOrderTypeOK /\ RunsCounted
  BY DEF FirstOrderInv
<1>2. ASSUME NEW c \in Consoles, UNCHANGED <<account, by_hand, crowded>>,
             \A d \in Consoles : d # c => UNCHANGED <<console[d], order[d]>>,
             Busy(c)' => Busy(c), Claims(c)' => Claims(c)
      PROVE  RunsCounted'
  <2>1. \A d \in Consoles : (Busy(d)' => Busy(d)) /\ (Claims(d)' => Claims(d))
    BY <1>2 DEF Busy, Claims, Running, Outstanding
  <2>2. BusyRuns' \subseteq BusyRuns /\ ClaimingRuns' \subseteq ClaimingRuns
    BY <2>1 DEF BusyRuns, ClaimingRuns
  <2>3. account'.shares - by_hand' <= account.shares - by_hand
    BY <1>1, <1>2 DEF FirstOrderTypeOK
  <2> QED
    BY <1>1, <1>2, <2>2, <2>3, NothingAdded
<1>3. ASSUME NEW c \in Consoles, ReadCash(c) \/ Report(c) \/ Interrupted(c)
      PROVE  RunsCounted'
  <2>1. UNCHANGED <<order, account, by_hand, crowded>> /\ Running(c)
    BY <1>3 DEF ReadCash, Report, Interrupted, Running, Reading
  <2>2. /\ console'[c].phase \in {"read_positions", "raised", "sent"}
        /\ \A d \in Consoles : d # c => console'[d] = console[d]
    BY <1>1, <1>3, ConsoleSteps DEF Goes, ConsoleMoves
  <2> QED
    BY <1>2, <2>1, <2>2 DEF Busy, Claims, Outstanding
<1>4. ASSUME NEW c \in Consoles, ReadQuote(c)
      PROVE  RunsCounted'
  <2>1. UNCHANGED <<order, account, by_hand, crowded>> /\ Running(c) /\ Claims(c)
    BY <1>4 DEF ReadQuote, Running, Reading, Claims
  <2>2. \A d \in Consoles : d # c => console'[d] = console[d]
    BY <1>1, <1>4, ConsoleSteps DEF ConsoleMoves
  <2> QED
    BY <1>2, <2>1, <2>2 DEF Busy
<1>5. ASSUME NEW c \in Consoles, Confirm(c)
      PROVE  RunsCounted'
  <2>1. UNCHANGED <<account, by_hand, crowded>> /\ Running(c) /\ Claims(c)
    BY <1>5 DEF Confirm, Running, Claims
  <2>2. \A d \in Consoles : d # c => console'[d] = console[d] /\ order'[d] = order[d]
    BY <1>1, <1>5, FirstOrderFacts, ConsoleSteps DEF Goes, ConsoleMoves
  <2> QED
    BY <1>2, <2>1, <2>2 DEF Busy
<1>6. ASSUME NEW c \in Consoles, HandlePost(c) \/ OrderEnds(c)
      PROVE  RunsCounted'
  <2>1. UNCHANGED <<console, account, by_hand, crowded>> /\ Busy(c) /\ Claims(c)
    BY <1>6 DEF HandlePost, OrderEnds, Busy, Claims, Outstanding
  <2>2. \A d \in Consoles : d # c => order'[d] = order[d]
    BY <1>1, <1>6, FirstOrderFacts DEF HandlePost, OrderEnds, SetStatus
  <2> QED
    BY <1>2, <2>1, <2>2
<1>7. CASE OwnerTrades \/ UNCHANGED firstOrderVars
  <2>1. UNCHANGED <<console, order, crowded>>
    BY <1>7 DEF OwnerTrades, firstOrderVars
  <2>2. BusyRuns' = BusyRuns /\ ClaimingRuns' = ClaimingRuns
    BY <2>1 DEF BusyRuns, ClaimingRuns, Busy, Claims, Running, Outstanding
  <2>3. account.shares \in Nat /\ by_hand \in Nat
    BY <1>1 DEF FirstOrderTypeOK
  <2>4. account'.shares - by_hand' <= account.shares - by_hand
    BY <1>7, <2>3 DEF OwnerTrades, Buy, firstOrderVars
  <2> QED
    BY <1>1, <2>1, <2>2, <2>4, NothingAdded
<1> QED
  BY <1>3, <1>4, <1>5, <1>6, <1>7

LEMMA FirstOrderStep == FirstOrderInv /\ [FirstOrderNext]_firstOrderVars => FirstOrderInv'
<1> SUFFICES ASSUME FirstOrderInv, [FirstOrderNext]_firstOrderVars
             PROVE  FirstOrderInv'
  OBVIOUS
<1>1. FirstOrderTypeOK'
  BY FirstOrderTypeStep DEF FirstOrderInv
<1>2. \A c \in Consoles : OrderExplained(c)' /\ WithinBalance(c)'
  BY OrderExplainedStep, WithinBalanceStep DEF FirstOrderInv
<1>3. RunsCounted'
  BY <1>1, LaunchCounted, ReadPositionsCounted, FillCounted, OthersCounted DEF FirstOrderNext
<1> QED
  BY <1>1, <1>2, <1>3 DEF FirstOrderInv

LEMMA FirstOrderInvariantHolds == FirstOrderSpec => []FirstOrderInv
<1>1. FirstOrderInit => FirstOrderInv
  <2> SUFFICES ASSUME FirstOrderInit
               PROVE  FirstOrderInv
    OBVIOUS
  <2>1. FirstOrderTypeOK
    <3>1. [phase |-> "new", cash |-> 0, quote |-> 0] \in Console
      BY DEF Console
    <3>2. [status |-> "none", limit |-> 0] \in OrderOfRun
      BY DEF OrderOfRun
    <3>3. account \in [cash : Int, shares : Nat]
      <4>1. PICK cash \in Balances, shares \in 0..1 : account = [cash |-> cash, shares |-> shares]
        BY DEF FirstOrderInit
      <4> QED
        BY <4>1, QuotesAssumption
    <3>4. trades = 0 /\ crowded = 0 /\ by_hand = 0 /\ 0 \in 0..MaxTrades
      BY QuotesAssumption DEF FirstOrderInit
    <3>5. /\ console \in [Consoles -> Console]
          /\ order \in [Consoles -> OrderOfRun]
          /\ taken \in [Consoles -> Nat]
      BY <3>1, <3>2 DEF FirstOrderInit
    <3> QED
      BY <3>3, <3>4, <3>5 DEF FirstOrderTypeOK
  <2>2. \A c \in Consoles : console[c].phase = "new" /\ order[c].status = "none"
    BY DEF FirstOrderInit
  <2>3. BusyRuns = {} /\ ClaimingRuns = {}
    BY <2>2 DEF BusyRuns, ClaimingRuns, Busy, Claims, Running, Outstanding, Reading
  <2>4. account.shares \in 0..1 /\ crowded = 0 /\ by_hand = 0
    BY DEF FirstOrderInit
  <2>5. RunsCounted
    BY <2>3, <2>4, FS_EmptySet DEF RunsCounted
  <2> QED
    BY <2>1, <2>2, <2>5 DEF FirstOrderInv, OrderExplained, WithinBalance, Outstanding
<1> QED
  BY <1>1, FirstOrderStep, PTL DEF FirstOrderSpec

\* However many consoles run the command, and whatever the owner does meanwhile: the
\* account holds and awaits one share, one more for each that the owner bought and for
\* each run that began before another and its order had ended; and an order that is out
\* goes beyond the policy by no more than the cash that went out since its run read the
\* balance (run_first_paper_order, alpaca_onboarding.py 21-85).
THEOREM FirstOrderInvariant == MainSpec => []FirstOrderStaysSmall
<1>1. FirstOrderInv => FirstOrderStaysSmall
  <2> SUFFICES ASSUME FirstOrderInv
               PROVE  FirstOrderStaysSmall
    OBVIOUS
  <2>1. FirstOrderTypeOK /\ RunsCounted /\ \A c \in Consoles : WithinBalance(c)
    BY DEF FirstOrderInv
  <2>2. OutstandingOrders \subseteq ClaimingRuns
    BY DEF OutstandingOrders, ClaimingRuns, Claims
  <2>3. /\ Cardinality(OutstandingOrders) <= Cardinality(ClaimingRuns)
        /\ Cardinality(OutstandingOrders) \in Nat /\ Cardinality(ClaimingRuns) \in Nat
    BY <2>1, <2>2, RunsFinite, FS_Subset, FS_CardinalityType
  <2>4. account.shares \in Nat /\ crowded \in Nat /\ by_hand \in Nat
    BY <2>1 DEF FirstOrderTypeOK
  <2> QED
    BY <2>1, <2>3, <2>4 DEF FirstOrderStaysSmall, RunsCounted, OutstandingOrders, WithinBalance
<1> QED
  BY <1>1, FirstOrderInvariantHolds, RunsFirstOrder, PTL

\* What the console has printed is true at Alpaca, in overlapping runs too:
\* nothing was sent after "blocked" and "cancelled", and the order is there after
\* its status was printed.
THEOREM ReportInvariant == MainSpec => []ReportTrue
<1>1. FirstOrderInv => ReportTrue
  BY DEF FirstOrderInv, OrderExplained, ReportTrue
<1> QED
  BY <1>1, FirstOrderInvariantHolds, RunsFirstOrder, PTL

-----------------------------------------------------------------------------
(***************************************************************************)
(* The backtest, for any strategy, any prices, any policy and any number   *)
(* of bars.  First the one position of the account.                        *)
(***************************************************************************)
LEMMA RunsBacktest == MainSpec => Spec
<1>1. MainInit => Init
  BY DEF MainInit
<1>2. [MainNext]_mainVars => [Next]_vars
  BY DEF MainNext, mainVars
<1> QED
  BY <1>1, <1>2, PTL DEF MainSpec, Spec

Symbol == TheInstrument.symbol

LEMMA TheOneInstrument ==
  /\ TheInstrument \in Instruments /\ Instruments = {TheInstrument}
  /\ Symbols = {Symbol} /\ TheInstrument.currency = AccountCurrency
<1>1. PICK i \in Instruments : Instruments = {i} /\ Symbols = {i.symbol} /\ i.currency = AccountCurrency
  BY OneInstrument
<1>2. TheInstrument = i
  BY <1>1 DEF TheInstrument
<1> QED
  BY <1>1, <1>2 DEF Symbol

LEMMA QuantityType ==
  ASSUME NEW book \in PortfolioType
  PROVE  /\ QuantityOf(book, Symbol) \in Nat
         /\ QuantityOf(book, Symbol) > 0 <=> Held(book, Symbol)
         /\ ~HeldByAnother(book, TheInstrument)
<1>1. Symbol \in Symbols
  BY TheOneInstrument
<1>2. CASE Held(book, Symbol)
  <2>1. book.positions[Symbol] \in Position
    BY <1>1, <1>2, HeldPosition
  <2> QED
    BY <1>2, <2>1, TheOneInstrument DEF QuantityOf, Position, HeldByAnother, Symbol
<1>3. CASE ~Held(book, Symbol)
  BY <1>3 DEF QuantityOf, HeldByAnother, Symbol
<1> QED
  BY <1>2, <1>3

\* The equity of the account is its cash and the value of its one position: a sum
\* over one symbol, or over none.
LEMMA EquityOfOne ==
  ASSUME NEW book \in PortfolioType, NEW price \in Nat
  PROVE  Equity(book, QuoteAt(price))
           = book.cash_balance + QuantityOf(book, Symbol) * price
<1> DEFINE value(s) == QuantityOf(book, s) * QuoteAt(price)[s]
           total == MapThenSumSet(value, HeldSymbols(book))
<1>1. book.cash_balance \in Nat /\ QuantityOf(book, Symbol) \in Nat
  BY QuantityType DEF PortfolioType
<1>2. value(Symbol) = QuantityOf(book, Symbol) * price /\ value(Symbol) \in Int
  BY <1>1, TheOneInstrument DEF QuoteAt
<1>3. Equity(book, QuoteAt(price)) = book.cash_balance + total
  BY DEF Equity
<1>4. total = value(Symbol)
  <2>1. CASE Held(book, Symbol)
    <3> DEFINE body(h) == [s \in SUBSET {Symbol} |->
                             IF s = {} THEN 0
                             ELSE LET x == CHOOSE x \in s : TRUE IN value(x) + h[s \ {x}]]
               iter == CHOOSE h : h = body(h)
    <3>1. HeldSymbols(book) = {Symbol}
      BY <2>1, TheOneInstrument DEF HeldSymbols
    <3>2. SUBSET {Symbol} = {{}, {Symbol}} /\ {Symbol} # {} /\ {Symbol} \ {Symbol} = {}
      OBVIOUS
    <3>3. (CHOOSE x \in {Symbol} : TRUE) = Symbol
      OBVIOUS
    <3>4. total = iter[{Symbol}]
      BY <3>1 DEF MapThenSumSet, MapThenFoldSet
    <3> HIDE DEF value, total
    <3>5. iter = body(iter)
      <4> DEFINE h == [s \in {{}, {Symbol}} |-> IF s = {} THEN 0 ELSE value(Symbol)]
      <4>1. h[{}] = 0 /\ h[{Symbol}] = value(Symbol)
        BY <3>2
      <4>2. h = [s \in SUBSET {Symbol} |-> h[s]]
        BY <3>2
      <4>3. h[{}] = body(h)[{}]
        BY <4>1
      <4>4. body(h)[{Symbol}] = value(Symbol) + h[{}]
        BY <3>2, <3>3
      <4>5. value(Symbol) + h[{}] = value(Symbol)
        BY <1>2, <4>1
      <4>6. \A s \in SUBSET {Symbol} : h[s] = body(h)[s]
        BY <3>2, <4>1, <4>3, <4>4, <4>5
      <4>7. h = body(h)
        BY <3>2, <4>2, <4>6
      <4> HIDE DEF h
      <4> QED
        BY <4>7
    <3>6. iter[{}] = 0
      BY <3>5
    <3>7. iter[{Symbol}] = value(Symbol) + iter[{}]
      BY <3>2, <3>3, <3>5
    <3> QED
      BY <1>2, <3>4, <3>6, <3>7
  <2>2. CASE ~Held(book, Symbol)
    <3>1. HeldSymbols(book) = {}
      BY <2>2, TheOneInstrument DEF HeldSymbols
    <3>2. total = 0
      BY <3>1 DEF MapThenSumSet, MapThenFoldSet
    <3>3. QuantityOf(book, Symbol) = 0 /\ 0 * price = 0
      BY <2>2 DEF QuantityOf
    <3> HIDE DEF value, total
    <3> QED
      BY <1>2, <3>2, <3>3
  <2> QED
    BY <2>1, <2>2
<1> QED
  BY <1>2, <1>3, <1>4

LEMMA FillPriceType ==
  ASSUME NEW side, NEW open \in Amount
  PROVE  fill_price(side, open) \in Amount
<1> DEFINE rate == IF side = "buy" THEN 100 + SlippageRate ELSE 100 - SlippageRate
<1>1. rate \in Nat
  BY ConfigAssumption
<1> HIDE DEF rate
<1>2. open * rate \in Nat
  BY <1>1 DEF Amount
<1>3. Quotient(open * rate, 100) \in Amount
  BY <1>2, QuotientType
<1> QED
  BY <1>3 DEF fill_price, rate

LEMMA MinOfFour ==
  ASSUME NEW a \in Int, NEW b \in Int, NEW c \in Int, NEW d \in Int
  PROVE  /\ Min({a, b, c, d}) \in Int
         /\ \A v \in Int : v <= Min({a, b, c, d}) <=> v <= a /\ v <= b /\ v <= c /\ v <= d
<1> DEFINE S == {a, b, c, d}
<1>1. \E x \in S : \A y \in S : x <= y
  <2>1. CASE a <= b /\ a <= c /\ a <= d
    BY <2>1
  <2>2. CASE b <= a /\ b <= c /\ b <= d
    BY <2>2
  <2>3. CASE c <= a /\ c <= b /\ c <= d
    BY <2>3
  <2>4. CASE d <= a /\ d <= b /\ d <= c
    BY <2>4
  <2> QED
    BY <2>1, <2>2, <2>3, <2>4
<1>2. Min(S) \in S /\ \A y \in S : Min(S) <= y
  BY <1>1 DEF Min
<1> QED
  BY <1>2

-----------------------------------------------------------------------------
(***************************************************************************)
(* The sizing of purchases and the rules that judge them.                  *)
(***************************************************************************)
\* Something is always left: cash or a position.
Solvent(book) == book.cash_balance > 0 \/ Held(book, Symbol)

LEMMA SolventEquity ==
  ASSUME NEW book \in PortfolioType, Solvent(book), NEW price \in Amount
  PROVE  Equity(book, QuoteAt(price)) \in Nat \ {0}
<1> DEFINE q == QuantityOf(book, Symbol)
<1>1. book.cash_balance \in Nat /\ q \in Nat /\ price \in Nat /\ price > 0
  BY QuantityType DEF PortfolioType, Amount
<1>2. book.cash_balance > 0 \/ q > 0
  BY QuantityType DEF Solvent
<1>3. Equity(book, QuoteAt(price)) = book.cash_balance + q * price
  BY <1>1, EquityOfOne
<1> HIDE DEF q
<1>4. q * price \in Nat /\ (q > 0 => q * price > 0)
  <2>1. CASE q = 0
    BY <1>1, <2>1
  <2>2. CASE q # 0
    BY <1>1, <2>2, ProductPositive
  <2> QED
    BY <2>1, <2>2
<1> QED
  BY <1>1, <1>2, <1>3, <1>4

\* The rules approve a purchase exactly if it costs no more than the sizing allows.
LEMMA ApprovedIfAllowed ==
  ASSUME portfolio \in PortfolioType, Solvent(portfolio), NEW open \in Amount, NEW bar,
         NEW q \in Nat \ {0}
  PROVE  /\ allowed_value(open) \in Int
         /\ fill_price("buy", open) * q \in Nat \ {0}
         /\ Approved(OrderAt(bar, "buy", q, open), ContextAt(open), portfolio, FALSE, TRUE)
              <=> 100 * (fill_price("buy", open) * q) <= allowed_value(open)
<1> DEFINE order0 == OrderAt(bar, "buy", q, open)
           context == ContextAt(open)
           cash == portfolio.cash_balance
           held == Quantity * open
           equity == cash + held
           cost == fill_price("buy", open) * q
<1>1. cash \in Nat /\ Quantity \in Nat /\ open \in Nat /\ open > 0
  BY QuantityType DEF PortfolioType, Amount, Quantity, Symbol
<1>2. held \in Nat
  BY <1>1
<1>3. cost \in Nat \ {0}
  BY FillPriceType, ProductPositive DEF Amount
<1>4. Equity(portfolio, QuoteAt(open)) = equity /\ equity \in Nat \ {0}
  BY <1>1, EquityOfOne, SolventEquity DEF Quantity, Symbol
<1>5. /\ order0.side = "buy" /\ total_value(order0) = cost
      /\ order0.instrument.symbol = Symbol
  BY DEF OrderAt, total_value, Symbol
<1>6. /\ context.current_equity = equity /\ context.day_start_equity = equity
      /\ context.market_prices[Symbol] = open /\ context.fee = Fee
  BY <1>4, TheOneInstrument DEF ContextAt, ContextFor, QuoteAt
<1>7. ProjectedPosition(order0, context, portfolio) = held + cost
  BY <1>1, <1>5, <1>6 DEF ProjectedPosition, price_for, Quantity, Symbol
<1>8. /\ MaxOrderValue \in Nat /\ MaxPositionValue \in Nat /\ MaxConcentration \in Nat
      /\ MinCashReserve \in Nat /\ MaxDailyLoss \in Nat \ {0} /\ Fee \in Nat
  BY PolicyAssumption, FeeAssumption DEF Amount
<1> HIDE DEF order0, context, cost, held, equity
<1> DEFINE concentration == equity * MaxConcentration
           reserve == equity * MinCashReserve
<1>9. /\ concentration \in Int /\ concentration = MaxConcentration * equity
      /\ reserve \in Int /\ reserve = MinCashReserve * equity
      /\ MaxDailyLoss * equity \in Nat \ {0}
  BY <1>4, <1>8, ProductPositive
<1>10. DailyLossRule(order0, context)
  <2> DEFINE loss == MaxDailyLoss * equity
  <2>1. (equity - equity) * 100 > -loss
    <3>1. loss \in Nat \ {0}
      BY <1>9
    <3> HIDE DEF loss
    <3> QED
      BY <1>4, <3>1
  <2> QED
    BY <1>6, <2>1 DEF DailyLossRule
<1> DEFINE a == 100 * MaxOrderValue
           b == 100 * (MaxPositionValue - held)
           c == concentration - 100 * held
           d == 100 * (cash - Fee) - reserve
<1>11. allowed_value(open) = Min({a, b, c, d})
  BY DEF allowed_value, held, equity
<1>12. Approved(order0, context, portfolio, FALSE, TRUE) <=>
         /\ cost <= MaxOrderValue
         /\ held + cost <= MaxPositionValue
         /\ (held + cost) * 100 <= MaxConcentration * equity
         /\ (cash - cost - Fee) * 100 >= MinCashReserve * equity
  BY <1>5, <1>6, <1>7, <1>10
     DEF Approved, KillSwitchRule, MaxOrderValueRule, MaxPositionValueRule, MaxConcentrationRule,
         CashReserveRule
<1> HIDE DEF concentration, reserve
<1>13. a \in Int /\ b \in Int /\ c \in Int /\ d \in Int
  BY <1>1, <1>2, <1>8, <1>9
<1>14. 100 * cost <= a /\ 100 * cost <= b /\ 100 * cost <= c /\ 100 * cost <= d <=>
         /\ cost <= MaxOrderValue
         /\ held + cost <= MaxPositionValue
         /\ (held + cost) * 100 <= concentration
         /\ (cash - cost - Fee) * 100 >= reserve
  BY <1>1, <1>2, <1>3, <1>8, <1>9
<1> HIDE DEF a, b, c, d
<1>15. /\ Min({a, b, c, d}) \in Int
       /\ 100 * cost <= Min({a, b, c, d}) <=>
            100 * cost <= a /\ 100 * cost <= b /\ 100 * cost <= c /\ 100 * cost <= d
  <2>1. 100 * cost \in Int
    BY <1>3
  <2> QED
    BY <1>13, <2>1, MinOfFour
<1>16. Approved(order0, context, portfolio, FALSE, TRUE) <=> 100 * cost <= allowed_value(open)
  BY <1>9, <1>11, <1>12, <1>14, <1>15
<1> QED
  BY <1>3, <1>11, <1>15, <1>16 DEF order0, context, cost

\* The quantity is the largest that the sizing allows, and fewer than one are none.
LEMMA BuyQuantityIsLargest ==
  ASSUME portfolio \in PortfolioType, Solvent(portfolio), NEW open \in Amount
  PROVE  /\ buy_quantity(open) \in Nat
         /\ buy_quantity(open) > 0 =>
              100 * (fill_price("buy", open) * buy_quantity(open)) <= allowed_value(open)
         /\ ~(100 * (fill_price("buy", open) * (buy_quantity(open) + 1)) <= allowed_value(open))
<1> DEFINE unit == fill_price("buy", open)
           allowed == allowed_value(open)
           q == buy_quantity(open)
<1>1. unit \in Nat /\ unit > 0 /\ allowed \in Int
  <2>1. allowed_value(open) \in Int
    <3>1. 1 \in Nat \ {0}
      OBVIOUS
    <3> QED
      BY <3>1, ApprovedIfAllowed
  <2> QED
    BY <2>1, FillPriceType DEF Amount
<1>2. q = IF allowed <= 0 THEN 0 ELSE allowed \div (100 * unit)
  BY DEF buy_quantity
<1> HIDE DEF unit, allowed, q
<1>3. CASE allowed <= 0
  <2>1. q = 0 /\ unit * (0 + 1) = unit
    BY <1>1, <1>2, <1>3
  <2>2. ~(100 * (unit * (q + 1)) <= allowed)
    BY <1>1, <1>3, <2>1
  <2> QED
    BY <2>1, <2>2 DEF unit, allowed, q
<1>4. CASE allowed > 0
  <2> DEFINE whole == 100 * unit
  <2>1. whole \in Nat /\ whole > 0 /\ q = allowed \div whole
    BY <1>1, <1>2, <1>4
  <2> HIDE DEF whole
  <2>2. q \in Nat /\ whole * q <= allowed /\ allowed < whole * (q + 1)
    BY <1>1, <1>4, <2>1
  <2>3. 100 * (unit * q) = whole * q /\ 100 * (unit * (q + 1)) = whole * (q + 1)
    BY <1>1, <2>2 DEF whole
  <2>4. whole * (q + 1) \in Int
    BY <2>1, <2>2
  <2>5. 100 * (unit * q) <= allowed /\ ~(100 * (unit * (q + 1)) <= allowed)
    <3>1. ~(whole * (q + 1) <= allowed)
      BY <1>1, <2>2, <2>4
    <3> QED
      BY <2>2, <2>3, <3>1
  <2> QED
    BY <2>2, <2>5 DEF unit, allowed, q
<1> QED
  BY <1>1, <1>3, <1>4

\* An order of the run: it is a valid one, the risk engine approves it, and it fails
\* only as a sale that does not bring in the fee.
LEMMA OrderOutcome ==
  ASSUME portfolio \in PortfolioType, Solvent(portfolio), pending_signal \in Signals,
         NEW open \in Amount, SignalQuantity(open) > 0, NEW bar \in OrderIds
  PROVE  LET q       == SignalQuantity(open)
             order0  == OrderAt(bar, pending_signal, q, open)
             outcome == execute(order0, portfolio)
         IN  /\ q \in Nat \ {0} /\ pending_signal \in Sides
             /\ order0 \in Order
             /\ Approved(order0, ContextAt(open), portfolio, FALSE, TRUE)
             /\ outcome.portfolio \in PortfolioType
             /\ outcome.raised \in BOOLEAN
             /\ outcome.raised =>
                  /\ pending_signal = "sell" /\ Quantity > 0
                  /\ Quantity * fill_price("sell", open) <= Fee
                  /\ outcome.portfolio = portfolio
             /\ ~outcome.raised =>
                  /\ Solvent(outcome.portfolio)
                  /\ Held(outcome.portfolio, Symbol) <=> pending_signal = "buy"
<1> DEFINE q       == SignalQuantity(open)
           order0  == OrderAt(bar, pending_signal, q, open)
           outcome == execute(order0, portfolio)
<1>1. Quantity \in Nat /\ (Quantity > 0 <=> Held(portfolio, Symbol))
      /\ Quantity = QuantityOf(portfolio, Symbol) /\ ~HeldByAnother(portfolio, TheInstrument)
  BY QuantityType DEF Quantity, Symbol
<1>2. /\ pending_signal = "buy" => q = buy_quantity(open)
      /\ pending_signal = "sell" => q = Quantity
      /\ pending_signal = "hold" => q = 0
  BY DEF SignalQuantity, Signals
<1>3. q \in Nat \ {0} /\ pending_signal \in Sides
  BY <1>1, <1>2, BuyQuantityIsLargest DEF Signals, Sides
<1> HIDE DEF q
<1>4. order0 \in Order
  BY <1>3, TheOneInstrument, FillPriceType DEF OrderAt, Order
<1>5. /\ order0.instrument = TheInstrument /\ order0.side = pending_signal
      /\ order0.instrument.symbol = Symbol /\ order0.quantity = q
      /\ order0.price = fill_price(pending_signal, open)
      /\ order0.instrument.currency = AccountCurrency
      /\ ~HeldByAnother(portfolio, order0.instrument)
  BY <1>1, TheOneInstrument DEF OrderAt, Symbol
<1>6. outcome.portfolio \in PortfolioType /\ outcome.raised \in BOOLEAN
      /\ (outcome.raised => outcome.portfolio = portfolio)
  BY <1>4, ExecuteAtomic
<1>7. total_value(order0) = fill_price(pending_signal, open) * q /\ total_value(order0) \in Nat
  BY <1>4, <1>5, TotalValuePositive DEF total_value
<1>8. CASE pending_signal = "buy"
  <2>1. 100 * (fill_price("buy", open) * q) <= allowed_value(open)
    BY <1>2, <1>3, <1>8, BuyQuantityIsLargest
  <2>2. Approved(order0, ContextAt(open), portfolio, FALSE, TRUE)
    BY <1>3, <1>8, <2>1, ApprovedIfAllowed
  <2> DEFINE context == ContextAt(open)
             cash    == portfolio.cash_balance
  <2>3. context.fee = Fee /\ context.current_equity \in Nat
    BY SolventEquity DEF ContextAt, ContextFor
  <2>4. (cash - total_value(order0) - Fee) * 100 >= MinCashReserve * context.current_equity
    BY <1>5, <1>8, <2>2, <2>3 DEF Approved, CashReserveRule
  <2>5. MinCashReserve * context.current_equity \in Nat
    BY <2>3, PolicyAssumption
  <2>6. total_value(order0) + Fee <= cash
    <3>1. cash \in Nat /\ Fee \in Nat
      BY FeeAssumption DEF PortfolioType
    <3> DEFINE v == total_value(order0)
               reserve == MinCashReserve * context.current_equity
    <3>2. v \in Nat /\ reserve \in Nat /\ (cash - v - Fee) * 100 >= reserve
      BY <1>7, <2>4, <2>5
    <3> HIDE DEF v, reserve, cash
    <3>3. v + Fee <= cash
      BY <3>1, <3>2
    <3> QED
      BY <3>3 DEF v
  <2>7. outcome.raised = FALSE
    BY <1>4, <1>5, <1>8, <2>6, PurchaseSucceeds
  <2>8. QuantityOf(outcome.portfolio, Symbol) = Quantity + q
    BY <1>1, <1>4, <1>5, <1>8, <2>7, PurchaseEffect
  <2>9. Held(outcome.portfolio, Symbol)
    BY <1>1, <1>3, <2>8 DEF QuantityOf
  <2>10. Solvent(outcome.portfolio) /\ (Held(outcome.portfolio, Symbol) <=> pending_signal = "buy")
    BY <1>8, <2>9 DEF Solvent
  <2> HIDE DEF order0, outcome
  <2> QED
    BY <1>3, <1>4, <1>6, <2>2, <2>7, <2>10 DEF q, order0, outcome
<1>9. CASE pending_signal = "sell"
  <2>1. Approved(order0, ContextAt(open), portfolio, FALSE, TRUE)
    BY <1>5, <1>9 DEF Approved, KillSwitchRule, MaxOrderValueRule, MaxPositionValueRule,
       MaxConcentrationRule, CashReserveRule, DailyLossRule
  <2>2. q = Quantity /\ Quantity > 0 /\ Held(portfolio, Symbol)
    BY <1>1, <1>2, <1>3, <1>9
  <2>3. /\ total_value(order0) > Fee =>
             /\ outcome.raised = FALSE /\ outcome.portfolio.cash_balance > 0
             /\ ~Held(outcome.portfolio, Symbol)
        /\ total_value(order0) <= Fee => outcome.raised = TRUE
    <3>1. /\ order0.quantity <= QuantityOf(portfolio, order0.instrument.symbol)
          /\ order0.quantity = QuantityOf(portfolio, order0.instrument.symbol)
      BY <1>1, <1>5, <2>2
    <3>2. Held(portfolio, order0.instrument.symbol)
      BY <1>5, <2>2
    <3> HIDE DEF order0
    <3> QED
      BY <1>4, <1>5, <1>9, <3>1, <3>2, SaleOutcome
  <2>4. Quantity * fill_price("sell", open) = total_value(order0)
    <3>1. fill_price("sell", open) \in Nat
      BY FillPriceType DEF Amount
    <3> QED
      BY <1>1, <1>7, <1>9, <2>2, <3>1
  <2>5. total_value(order0) > Fee \/ total_value(order0) <= Fee
    BY <1>7, FeeAssumption
  <2>6. outcome.raised => Quantity * fill_price("sell", open) <= Fee
    BY <2>3, <2>4, <2>5
  <2>7. ~outcome.raised => Solvent(outcome.portfolio) /\ ~Held(outcome.portfolio, Symbol)
    BY <2>3, <2>5 DEF Solvent
  <2> QED
    BY <1>3, <1>4, <1>6, <1>9, <2>1, <2>2, <2>6, <2>7 DEF q
<1> QED
  BY <1>3, <1>8, <1>9 DEF Sides

-----------------------------------------------------------------------------
(***************************************************************************)
(* The run.  What is always left to the account makes its equity positive  *)
(* and the loss rule passable, and the sizing does the rest.               *)
(***************************************************************************)
Execution == [bar : Nat \ {0}, side : Sides, quantity : Nat \ {0}, price : Amount]

BacktestInv ==
  /\ TypeOK
  /\ executions \in Seq(Execution)
  /\ Len(bars) <= MaxBars
  /\ Solvent(portfolio)
  /\ EquityPositive
  /\ OnlyAWorthlessSaleEndsRun

LEMMA CloseStep ==
  ASSUME NEW book \in PortfolioType, Solvent(book), NEW open \in Prices, NEW close \in Prices,
         equity_curve \in Seq(Int), EquityPositive, Close(book, open, close)
  PROVE  /\ equity_curve' \in Seq(Int)
         /\ EquityPositive'
         /\ pending_signal' \in Signals
<1>1. close \in Amount
  BY DatasetAssumption
<1>2. EquityPoint(book, close) \in Nat \ {0}
  BY <1>1, SolventEquity DEF EquityPoint
<1>3. PICK point : point = EquityPoint(book, close)
  OBVIOUS
<1>4. equity_curve' = Append(equity_curve, point) /\ point \in Int /\ point > 0
  BY <1>2, <1>3 DEF Close
<1>5. equity_curve' \in Seq(Int) /\ EquityPositive'
  BY <1>4 DEF EquityPositive
<1>6. pending_signal' \in Signals
  <2>1. pending_signal' \in NextSignals(Append(bars, [open |-> open, close |-> close]), book)
    BY DEF Close
  <2>2. NextSignals(Append(bars, [open |-> open, close |-> close]), book) \subseteq Signals
    BY DEF NextSignals, decide, Signals
  <2> QED
    BY <2>1, <2>2
<1> QED
  BY <1>5, <1>6

LEMMA BarAppended ==
  ASSUME bars \in Seq(Bar), NEW open \in Prices, NEW close \in Prices, Len(bars) < MaxBars,
         bars' = Append(bars, [open |-> open, close |-> close])
  PROVE  /\ bars' \in Seq(Bar) /\ Len(bars') = Len(bars) + 1 /\ Len(bars') <= MaxBars
         /\ bars'[Len(bars')].open = open /\ bars'[Len(bars')].close = close
         /\ DOMAIN bars \subseteq DOMAIN bars'
         /\ \A i \in DOMAIN bars : bars'[i] = bars[i]
         /\ Len(bars) + 1 \in OrderIds
<1>1. PICK bar \in Bar : bar = [open |-> open, close |-> close]
  BY DEF Bar
<1>2. bars' = Append(bars, bar) /\ Len(bars) \in Nat /\ bar.open = open /\ bar.close = close
  BY <1>1
<1>3. /\ bars' \in Seq(Bar) /\ Len(bars') = Len(bars) + 1 /\ bars'[Len(bars')] = bar
      /\ DOMAIN bars \subseteq DOMAIN bars' /\ \A i \in DOMAIN bars : bars'[i] = bars[i]
  BY <1>2
<1>4. Len(bars) + 1 \in 1..MaxBars
  BY <1>2, DatasetAssumption
<1> QED
  BY <1>2, <1>3, <1>4, DatasetAssumption

LEMMA QuietBarStep ==
  ASSUME BacktestInv, raised = "none", Len(bars) < MaxBars, UNCHANGED strategy,
         NEW open \in Prices, NEW close \in Prices,
         bars' = Append(bars, [open |-> open, close |-> close]), QuietBar(open, close)
  PROVE  BacktestInv'
<1>1. UNCHANGED <<portfolio, executions, audit_log, raised>> /\ Close(portfolio, open, close)
  BY DEF QuietBar
<1>2. TypeOK /\ Solvent(portfolio) /\ EquityPositive /\ executions \in Seq(Execution)
  BY DEF BacktestInv
<1>3. equity_curve' \in Seq(Int) /\ EquityPositive' /\ pending_signal' \in Signals
  BY <1>1, <1>2, CloseStep DEF TypeOK
<1>4. bars' \in Seq(Bar) /\ Len(bars') <= MaxBars /\ DOMAIN bars \subseteq DOMAIN bars'
  BY <1>2, BarAppended DEF TypeOK
<1>5. \A i \in DOMAIN executions' :
        executions'[i].bar \in DOMAIN bars' /\ executions'[i].quantity > 0
  BY <1>1, <1>2, <1>4 DEF TypeOK
<1>6. TypeOK'
  BY <1>1, <1>2, <1>3, <1>4, <1>5 DEF TypeOK
<1>7. Solvent(portfolio)'
  BY <1>1, <1>2 DEF Solvent, Held, Symbol
<1>8. OnlyAWorthlessSaleEndsRun'
  BY <1>1 DEF OnlyAWorthlessSaleEndsRun
<1> QED
  BY <1>1, <1>2, <1>3, <1>4, <1>6, <1>7, <1>8 DEF BacktestInv

\* A bar with an order: the order fails and the run ends, or it is carried out.
LEMMA OrderBarEffect ==
  ASSUME BacktestInv, Len(bars) < MaxBars,
         NEW open \in Prices, NEW close \in Prices,
         bars' = Append(bars, [open |-> open, close |-> close]), OrderBar(open, close)
  PROVE  /\ pending_signal \in Sides
         /\ audit_log' \in Seq(RiskAssessment)
         /\ \/ /\ raised' = "order_error" /\ pending_signal = "sell"
               /\ Quantity > 0 /\ Quantity * fill_price("sell", open) <= Fee
               /\ UNCHANGED <<portfolio, executions, equity_curve, pending_signal>>
            \/ /\ UNCHANGED raised
               /\ \E record \in Execution :
                    /\ record.bar = Len(bars) + 1 /\ record.side = pending_signal
                    /\ executions' = Append(executions, record)
               /\ \E book \in PortfolioType :
                    /\ portfolio' = book /\ Solvent(book)
                    /\ Held(book, Symbol) <=> pending_signal = "buy"
                    /\ Close(book, open, close)
<1> DEFINE bar     == Len(bars) + 1
           q       == SignalQuantity(open)
           order0  == OrderAt(bar, pending_signal, q, open)
           outcome == execute(order0, portfolio)
           record  == [bar |-> order0.order_id, side |-> order0.side, quantity |-> q,
                       price |-> order0.price]
           entry   == [order_id |-> order0.order_id, approved |-> TRUE]
<1>1. TypeOK /\ Solvent(portfolio) /\ bar \in Nat \ {0}
  BY DEF BacktestInv, TypeOK
<1>2. bar \in OrderIds
  BY <1>1, BarAppended DEF TypeOK
<1>3. /\ q \in Nat \ {0} /\ pending_signal \in Sides /\ order0 \in Order
      /\ Approved(order0, ContextAt(open), portfolio, FALSE, TRUE)
      /\ outcome.portfolio \in PortfolioType /\ outcome.raised \in BOOLEAN
      /\ outcome.raised => /\ pending_signal = "sell" /\ Quantity > 0
                           /\ Quantity * fill_price("sell", open) <= Fee
                           /\ outcome.portfolio = portfolio
      /\ ~outcome.raised => /\ Solvent(outcome.portfolio)
                            /\ Held(outcome.portfolio, Symbol) <=> pending_signal = "buy"
  <2>1. open \in Amount
    BY DatasetAssumption
  <2>2. q > 0
    BY DEF OrderBar
  <2> QED
    BY <1>1, <1>2, <2>1, <2>2, OrderOutcome DEF TypeOK
<1>4. order0.order_id = bar /\ order0.side = pending_signal /\ order0.price \in Amount
  BY <1>3 DEF OrderAt, Order
<1>5. /\ audit_log' = Append(audit_log, entry)
      /\ outcome.raised =>
           raised' = "order_error" /\ portfolio' = outcome.portfolio
           /\ UNCHANGED <<executions, equity_curve, pending_signal>>
      /\ ~outcome.raised =>
           /\ portfolio' = outcome.portfolio
           /\ executions' = Append(executions, record)
           /\ Close(outcome.portfolio, open, close)
           /\ UNCHANGED raised
  <2>1. Log(audit_log, order0, Approved(order0, ContextAt(open), portfolio, FALSE, TRUE))
          = Append(audit_log, entry)
    <3>1. Approved(order0, ContextAt(open), portfolio, FALSE, TRUE) = TRUE
      BY <1>3 DEF Approved, KillSwitchRule
    <3> QED
      BY <3>1 DEF Log
  <2> QED
    BY <1>3, <2>1 DEF OrderBar
<1> HIDE DEF q, order0, outcome, record, entry
<1>6. audit_log' \in Seq(RiskAssessment)
  <2>1. entry \in RiskAssessment
    BY <1>2, <1>4 DEF entry, RiskAssessment
  <2> QED
    BY <1>1, <1>5, <2>1 DEF TypeOK
<1>7. record \in Execution /\ record.bar = bar /\ record.side = pending_signal
  BY <1>1, <1>3, <1>4 DEF record, Execution
<1>8. CASE outcome.raised
  BY <1>3, <1>5, <1>6, <1>8
<1>9. CASE ~outcome.raised
  BY <1>3, <1>5, <1>6, <1>7, <1>9
<1> QED
  BY <1>3, <1>8, <1>9

LEMMA OrderBarStep ==
  ASSUME BacktestInv, raised = "none", Len(bars) < MaxBars, UNCHANGED strategy,
         NEW open \in Prices, NEW close \in Prices,
         bars' = Append(bars, [open |-> open, close |-> close]), OrderBar(open, close)
  PROVE  BacktestInv'
<1>1. TypeOK /\ Solvent(portfolio) /\ EquityPositive /\ executions \in Seq(Execution)
  BY DEF BacktestInv
<1>2. /\ bars' \in Seq(Bar) /\ Len(bars') = Len(bars) + 1 /\ Len(bars') <= MaxBars
      /\ bars'[Len(bars')].open = open /\ DOMAIN bars \subseteq DOMAIN bars'
  BY <1>1, BarAppended DEF TypeOK
<1>3. audit_log' \in Seq(RiskAssessment)
  BY OrderBarEffect
<1>4. CASE /\ raised' = "order_error" /\ pending_signal = "sell"
           /\ Quantity > 0 /\ Quantity * fill_price("sell", open) <= Fee
           /\ UNCHANGED <<portfolio, executions, equity_curve, pending_signal>>
  <2>1. \A i \in DOMAIN executions' :
          executions'[i].bar \in DOMAIN bars' /\ executions'[i].quantity > 0
    BY <1>1, <1>2, <1>4 DEF TypeOK
  <2>2. TypeOK'
    BY <1>1, <1>2, <1>3, <1>4, <2>1 DEF TypeOK
  <2>3. Solvent(portfolio)' /\ EquityPositive'
    BY <1>1, <1>4 DEF Solvent, Held, Symbol, EquityPositive
  <2>4. Quantity' = Quantity
    BY <1>4 DEF Quantity, QuantityOf, Held
  <2>5. OnlyAWorthlessSaleEndsRun'
    BY <1>2, <1>4, <2>4 DEF OnlyAWorthlessSaleEndsRun, fill_price
  <2> QED
    BY <1>1, <1>2, <1>4, <2>2, <2>3, <2>5 DEF BacktestInv
<1>5. ASSUME UNCHANGED raised,
             NEW record \in Execution, record.bar = Len(bars) + 1,
             executions' = Append(executions, record),
             NEW book \in PortfolioType, portfolio' = book, Solvent(book),
             Close(book, open, close)
      PROVE  BacktestInv'
  <2>1. equity_curve' \in Seq(Int) /\ EquityPositive' /\ pending_signal' \in Signals
    BY <1>1, <1>5, CloseStep DEF TypeOK
  <2>2. executions' \in Seq(Execution)
    BY <1>1, <1>5
  <2>3. \A i \in DOMAIN executions' :
          executions'[i].bar \in DOMAIN bars' /\ executions'[i].quantity > 0
    <3> SUFFICES ASSUME NEW i \in DOMAIN executions'
                 PROVE  executions'[i].bar \in DOMAIN bars' /\ executions'[i].quantity > 0
      OBVIOUS
    <3>1. executions'[i].quantity > 0
      <4>1. executions'[i] \in Execution
        BY <2>2
      <4> QED
        BY <4>1 DEF Execution
    <3>2. CASE i \in DOMAIN executions
      BY <1>1, <1>2, <1>5, <3>1, <3>2 DEF TypeOK
    <3>3. CASE i \notin DOMAIN executions
      <4>1. executions'[i] = record
        BY <1>1, <1>5, <3>3
      <4>2. Len(bars) + 1 \in DOMAIN bars'
        BY <1>1, <1>2 DEF TypeOK
      <4> QED
        BY <1>5, <3>1, <4>1, <4>2
    <3> QED
      BY <3>2, <3>3
  <2>4. TypeOK'
    BY <1>1, <1>2, <1>3, <1>5, <2>1, <2>3 DEF TypeOK
  <2>5. Solvent(portfolio)'
    BY <1>5 DEF Solvent, Held, Symbol
  <2>6. OnlyAWorthlessSaleEndsRun'
    BY <1>5 DEF OnlyAWorthlessSaleEndsRun
  <2> QED
    BY <1>2, <2>1, <2>2, <2>4, <2>5, <2>6 DEF BacktestInv
<1> QED
  BY <1>4, <1>5, OrderBarEffect

LEMMA BacktestInvariant == Spec => []BacktestInv
<1>1. Init => BacktestInv
  <2> SUFFICES ASSUME Init
               PROVE  BacktestInv
    OBVIOUS
  <2>1. portfolio \in PortfolioType /\ portfolio.cash_balance > 0
    BY ConfigAssumption DEF Init, PortfolioType, Amount
  <2>2. TypeOK
    BY <2>1 DEF Init, TypeOK, Signals
  <2> QED
    BY <2>1, <2>2, DatasetAssumption
       DEF Init, BacktestInv, Solvent, EquityPositive, OnlyAWorthlessSaleEndsRun
<1>2. BacktestInv /\ [Next]_vars => BacktestInv'
  <2> SUFFICES ASSUME BacktestInv, [Next]_vars
               PROVE  BacktestInv'
    OBVIOUS
  <2>1. CASE Next
    BY <2>1, QuietBarStep, OrderBarStep DEF Next, NextBar
  <2>2. CASE UNCHANGED vars
    BY <2>2 DEF vars, BacktestInv, TypeOK, Solvent, Held, Symbol, EquityPositive,
       OnlyAWorthlessSaleEndsRun, Quantity, QuantityOf, fill_price
  <2> QED
    BY <2>1, <2>2
<1> QED
  BY <1>1, <1>2, PTL DEF Spec

\* Something is always left to the account, cash or a position, so that no point of
\* the curve is zero or less and the metrics can be divided by it (engine.py 234-246).
THEOREM EquityInvariant == MainSpec => []EquityPositive
  BY BacktestInvariant, RunsBacktest, PTL DEF BacktestInv

\* No run is ended by the risk engine, and by an order only if it is a sale that
\* does not bring in its fee: the sizing of the engine leaves nothing to refuse
\* (_execute_signal, engine.py 148-200).
THEOREM EndInvariant == MainSpec => []OnlyAWorthlessSaleEndsRun
  BY BacktestInvariant, RunsBacktest, PTL DEF BacktestInv

\* A bar of the run, whatever it opens with.
LEMMA BarOfRun ==
  ASSUME BacktestInv, [Next]_vars, bars' # bars
  PROVE  /\ bars' \in Seq(Bar) /\ Len(bars') = Len(bars) + 1
         /\ bars'[Len(bars')].open \in Amount
<1>1. PICK open \in Prices, close \in Prices :
        bars' = Append(bars, [open |-> open, close |-> close]) /\ Len(bars) < MaxBars
  BY DEF Next, NextBar, vars
<1> QED
  BY <1>1, BarAppended, DatasetAssumption DEF BacktestInv, TypeOK

\* The sizing and the rules agree, whatever the policy, the fee and the slippage:
\* a purchase is the largest that the risk engine approves, and none is made only
\* if one share would be refused (_execute_signal, engine.py 148-190).
THEOREM SizingInvariant == MainSpec => SizingMatchesRules
<1> DEFINE Sized == pending_signal = "buy" /\ bars' # bars =>
             LET open == bars'[Len(bars')].open
                 approved(q) == Approved(OrderAt(Len(bars'), "buy", q, open), ContextAt(open),
                                         portfolio, FALSE, TRUE)
                 bought == buy_quantity(open)
             IN  /\ bought > 0 => approved(bought)
                 /\ ~approved(bought + 1)
<1>1. BacktestInv /\ [Next]_vars => [Sized]_vars
  <2> SUFFICES ASSUME BacktestInv, [Next]_vars, bars' # bars
               PROVE  LET open == bars'[Len(bars')].open
                          approved(q) == Approved(OrderAt(Len(bars'), "buy", q, open),
                                                  ContextAt(open), portfolio, FALSE, TRUE)
                          bought == buy_quantity(open)
                      IN  /\ bought > 0 => approved(bought)
                          /\ ~approved(bought + 1)
    OBVIOUS
  <2>1. portfolio \in PortfolioType /\ Solvent(portfolio)
    BY DEF BacktestInv, TypeOK
  <2>2. PICK open \in Amount : open = bars'[Len(bars')].open
    BY BarOfRun
  <2>3. PICK bar : bar = Len(bars')
    OBVIOUS
  <2> DEFINE approved(q) == Approved(OrderAt(bar, "buy", q, open), ContextAt(open),
                                     portfolio, FALSE, TRUE)
             bought == buy_quantity(open)
  <2>4. /\ bought \in Nat
        /\ bought > 0 => 100 * (fill_price("buy", open) * bought) <= allowed_value(open)
        /\ ~(100 * (fill_price("buy", open) * (bought + 1)) <= allowed_value(open))
    BY <2>1, BuyQuantityIsLargest
  <2>5. \A q \in Nat \ {0} :
          approved(q) <=> 100 * (fill_price("buy", open) * q) <= allowed_value(open)
    BY <2>1, ApprovedIfAllowed
  <2> HIDE DEF approved, bought
  <2>6. bought + 1 \in Nat \ {0} /\ (bought > 0 => bought \in Nat \ {0})
    BY <2>4
  <2>7. (bought > 0 => approved(bought)) /\ ~approved(bought + 1)
    BY <2>4, <2>5, <2>6
  <2> QED
    BY <2>2, <2>3, <2>7 DEF approved, bought
<1> QED
  BY <1>1, BacktestInvariant, RunsBacktest, PTL DEF Spec, SizingMatchesRules

\* The buy-and-hold curve the run is compared with: as many shares as cash and fee
\* allow, for any fee and any prices.
LEMMA BenchmarkHolds == TypeOK => BenchmarkWithinMeans
<1> SUFFICES ASSUME TypeOK, bars # <<>>, NEW fee \in BenchmarkFees
             PROVE  LET quantity == benchmark_quantity(fee)
                        cost(shares) == shares * BenchmarkPrice + fee
                        curve == _build_benchmark_curve(fee)
                    IN  /\ fee <= InitialCash =>
                             /\ quantity >= 0 /\ benchmark_cash(fee) >= 0
                             /\ cost(quantity) <= InitialCash \/ quantity = 0
                             /\ cost(quantity + 1) > InitialCash
                             /\ \A i \in DOMAIN curve : curve[i] > 0
                        /\ quantity < 0 <=> fee >= InitialCash + BenchmarkPrice
  BY DEF BenchmarkWithinMeans
<1> DEFINE price    == BenchmarkPrice
           quantity == benchmark_quantity(fee)
           cash     == benchmark_cash(fee)
           cost(shares) == shares * BenchmarkPrice + fee
           curve    == _build_benchmark_curve(fee)
<1>1. price \in Nat /\ price > 0
  <2>1. bars[1] \in Bar
    BY DEF TypeOK
  <2>2. bars[1].open \in Amount
    BY <2>1, DatasetAssumption DEF Bar
  <2> QED
    BY <2>2, FillPriceType DEF BenchmarkPrice, Amount
<1>2. fee \in Nat /\ InitialCash \in Nat /\ InitialCash > 0
  BY BenchmarkAssumption, ConfigAssumption DEF Amount
<1>3. quantity = IF fee <= InitialCash THEN (InitialCash - fee) \div price
                 ELSE -((fee - InitialCash) \div price)
  BY DEF benchmark_quantity
<1>4. cash = InitialCash - price * quantity - (IF quantity > 0 THEN fee ELSE 0)
  BY DEF benchmark_cash
<1>5. /\ DOMAIN curve = DOMAIN bars
      /\ \A i \in DOMAIN curve : curve[i] = cash + bars[i].close * quantity
  BY DEF _build_benchmark_curve
<1>6. \A i \in DOMAIN bars : bars[i].close \in Nat /\ bars[i].close > 0
  <2> SUFFICES ASSUME NEW i \in DOMAIN bars
               PROVE  bars[i].close \in Nat /\ bars[i].close > 0
    OBVIOUS
  <2>1. bars[i] \in Bar
    BY DEF TypeOK
  <2>2. bars[i].close \in Amount
    BY <2>1, DatasetAssumption DEF Bar
  <2> QED
    BY <2>2 DEF Amount
<1>7. CASE fee <= InitialCash
  <2> DEFINE money == InitialCash - fee
             spent == price * quantity
  <2>1. money \in Nat /\ quantity = money \div price
    BY <1>2, <1>3, <1>7
  <2> HIDE DEF price, quantity, cash, curve, money
  <2>2. quantity \in Nat /\ spent <= money /\ money < price * (quantity + 1)
    BY <1>1, <2>1
  <2>3. spent \in Nat /\ price * (quantity + 1) \in Nat
    BY <1>1, <2>2
  <2>4. quantity * price = spent /\ (quantity + 1) * price = price * (quantity + 1)
    BY <1>1, <2>2
  <2>5. price * (quantity + 1) = spent + price /\ (quantity = 0 => spent = 0)
    BY <1>1, <2>2
  <2> HIDE DEF spent
  <2>6. money = InitialCash - fee /\ cash = InitialCash - spent - (IF quantity > 0 THEN fee ELSE 0)
    BY <1>4 DEF money, spent
  <2>7. cash >= 0 /\ (quantity = 0 => cash > 0) /\ cash \in Int
    BY <1>2, <2>2, <2>3, <2>5, <2>6
  <2>8. spent + fee <= InitialCash /\ price * (quantity + 1) + fee > InitialCash
    BY <1>2, <2>2, <2>3, <2>6
  <2>9. ASSUME NEW i \in DOMAIN curve
        PROVE  curve[i] > 0
    <3>1. curve[i] = cash + bars[i].close * quantity
      BY <1>5
    <3>2. PICK close \in Nat \ {0} : close = bars[i].close
      BY <1>5, <1>6
    <3>3. close * quantity \in Nat /\ (quantity > 0 => close * quantity > 0)
      <4>1. CASE quantity = 0
        BY <4>1
      <4>2. CASE quantity # 0
        BY <2>2, <4>2, ProductPositive
      <4> QED
        BY <4>1, <4>2
    <3> QED
      BY <2>2, <2>7, <3>1, <3>2, <3>3
  <2>10. ~(quantity < 0) /\ ~(fee >= InitialCash + price)
    BY <1>1, <1>2, <1>7, <2>2
  <2>11. cost(quantity) <= InitialCash /\ cost(quantity + 1) > InitialCash
    BY <2>4, <2>8 DEF price
  <2> QED
    BY <2>2, <2>7, <2>9, <2>10, <2>11 DEF price, quantity, cash, curve
<1>8. CASE ~(fee <= InitialCash)
  <2> DEFINE lack == fee - InitialCash
             whole == lack \div price
  <2>1. lack \in Nat /\ quantity = -whole
    BY <1>2, <1>3, <1>8
  <2> HIDE DEF price, quantity, lack
  <2>2. whole \in Nat /\ price * whole <= lack /\ lack < price * (whole + 1)
    BY <1>1, <2>1
  <2> HIDE DEF whole
  <2>3. whole > 0 <=> lack >= price
    <3>1. CASE whole = 0
      BY <1>1, <2>1, <2>2, <3>1
    <3>2. CASE whole > 0
      <4>1. price * whole \in Nat /\ price * whole >= price
        BY <1>1, <2>2, <3>2
      <4> QED
        BY <1>1, <2>1, <2>2, <3>2, <4>1
    <3> QED
      BY <2>2, <3>1, <3>2
  <2>4. lack >= price <=> fee >= InitialCash + price
    BY <1>1, <1>2 DEF lack
  <2>5. quantity < 0 <=> whole > 0
    BY <2>1, <2>2
  <2> QED
    BY <1>8, <2>3, <2>4, <2>5 DEF price, quantity
<1> QED
  BY <1>7, <1>8

\* The benchmark buys what cash and fee allow and is short exactly when the fee
\* exceeds the cash by the price of a share (_build_benchmark_curve, engine.py 266-288).
THEOREM BenchmarkInvariant == MainSpec => []BenchmarkWithinMeans
<1>1. BacktestInv => TypeOK
  BY DEF BacktestInv
<1> QED
  BY <1>1, BenchmarkHolds, BacktestInvariant, RunsBacktest, PTL

-----------------------------------------------------------------------------
(***************************************************************************)
(* The moving averages trade on the past.  What justifies a trade is a sum *)
(* over bars gone by, and bars once gone by never change.                  *)
(***************************************************************************)
\* The sum of the closes of some bars, and of the bars before a bar.
Closes(history, S) == MapThenSumSet(LAMBDA i : history[i].close, S)

ClosesBefore(history, bar, window) == Closes(history, (bar - window)..(bar - 1))

\* A sum depends on the values it adds up and on nothing else.
LEMMA SumsAgree ==
  ASSUME NEW f, NEW g, NEW S, \A i \in S : f[i].close = g[i].close
  PROVE  Closes(f, S) = Closes(g, S)
<1> DEFINE F(h) == [s \in SUBSET S |-> IF s = {} THEN 0
                      ELSE LET x == CHOOSE x \in s : TRUE IN f[x].close + h[s \ {x}]]
           G(h) == [s \in SUBSET S |-> IF s = {} THEN 0
                      ELSE LET x == CHOOSE x \in s : TRUE IN g[x].close + h[s \ {x}]]
           sumF == CHOOSE h : h = F(h)
           sumG == CHOOSE h : h = G(h)
<1>1. ASSUME NEW h
      PROVE  F(h) = G(h)
  <2>1. ASSUME NEW s \in SUBSET S, s # {}
        PROVE  f[CHOOSE x \in s : TRUE].close = g[CHOOSE x \in s : TRUE].close
    <3>1. (CHOOSE x \in s : TRUE) \in s
      BY <2>1
    <3> QED
      BY <2>1, <3>1
  <2>2. \A s \in SUBSET S : F(h)[s] = G(h)[s]
    BY <2>1
  <2> QED
    BY <2>2
<1>2. Closes(f, S) = sumF[S] /\ Closes(g, S) = sumG[S]
  BY DEF Closes, MapThenSumSet, MapThenFoldSet
<1>3. sumF = sumG
  <2> HIDE DEF F, G
  <2> QED
    BY <1>1
<1> QED
  BY <1>2, <1>3

LEMMA ClosesBeforeAgree ==
  ASSUME NEW history, NEW longer, NEW bar \in Nat, NEW window \in Nat, window < bar,
         NEW n \in Nat, bar <= n + 1, \A i \in 1..n : longer[i] = history[i]
  PROVE  ClosesBefore(longer, bar, window) = ClosesBefore(history, bar, window)
<1> DEFINE S == (bar - window)..(bar - 1)
<1>1. \A i \in S : i \in 1..n
  OBVIOUS
<1>2. \A i \in S : longer[i].close = history[i].close
  BY <1>1
<1> HIDE DEF S
<1>3. Closes(longer, S) = Closes(history, S)
  BY <1>2, SumsAgree
<1> QED
  BY <1>3 DEF ClosesBefore, S

\* An execution that the bars before its own justify; the first, third and so on
\* are purchases.
Justified(history, execution, k) ==
  LET difference == ClosesBefore(history, execution.bar, ShortWindow) * LongWindow
                      - ClosesBefore(history, execution.bar, LongWindow) * ShortWindow
  IN  /\ execution.bar > LongWindow
      /\ IF k % 2 = 1 THEN execution.side = "buy" /\ difference > 0
                      ELSE execution.side = "sell" /\ difference < 0

AverageInv ==
  strategy = "moving_average" =>
    /\ raised = "none" => pending_signal = decide(bars, Held(portfolio, Symbol))
    /\ Held(portfolio, Symbol) <=> Len(executions) % 2 = 1
    /\ \A k \in DOMAIN executions : Justified(bars, executions[k], k)

LEMMA StaysJustified ==
  ASSUME NEW history, NEW longer, NEW n \in Nat, \A i \in 1..n : longer[i] = history[i],
         NEW execution, execution.bar \in 1..n, NEW k, Justified(history, execution, k)
  PROVE  Justified(longer, execution, k)
<1>1. PICK bar \in 1..n : bar = execution.bar
  OBVIOUS
<1>2. /\ bar \in Nat /\ bar > LongWindow /\ bar > ShortWindow /\ bar <= n + 1
      /\ LongWindow \in Nat /\ ShortWindow \in Nat
  BY <1>1, WindowsAssumption DEF Justified
<1>3. ClosesBefore(longer, bar, ShortWindow) = ClosesBefore(history, bar, ShortWindow)
  BY <1>2, ClosesBeforeAgree
<1>4. ClosesBefore(longer, bar, LongWindow) = ClosesBefore(history, bar, LongWindow)
  BY <1>2, ClosesBeforeAgree
<1> QED
  BY <1>1, <1>3, <1>4 DEF Justified

\* What the strategy decides at a close justifies the order at the next opening.
LEMMA DecisionJustified ==
  ASSUME NEW history, NEW longer, NEW n \in Nat, n = Len(history),
         \A i \in 1..n : longer[i] = history[i],
         NEW held \in BOOLEAN, NEW execution, execution.bar = n + 1,
         execution.side = decide(history, held), execution.side \in Sides,
         NEW k \in Nat, held <=> k % 2 = 0
  PROVE  Justified(longer, execution, k)
<1>1. n >= LongWindow /\ LongWindow \in Nat /\ ShortWindow \in Nat /\ ShortWindow < LongWindow
  BY WindowsAssumption DEF decide, Sides
<1>2. /\ SumOfCloses(history, ShortWindow) = ClosesBefore(history, n + 1, ShortWindow)
      /\ SumOfCloses(history, LongWindow) = ClosesBefore(history, n + 1, LongWindow)
  <2>1. (n + 1) - 1 = n /\ (n + 1) - ShortWindow = n - ShortWindow + 1
        /\ (n + 1) - LongWindow = n - LongWindow + 1
    BY <1>1
  <2> QED
    BY <2>1 DEF SumOfCloses, ClosesBefore, Closes
<1>3. /\ ClosesBefore(longer, n + 1, ShortWindow) = ClosesBefore(history, n + 1, ShortWindow)
      /\ ClosesBefore(longer, n + 1, LongWindow) = ClosesBefore(history, n + 1, LongWindow)
  <2>1. /\ n + 1 \in Nat /\ n + 1 <= n + 1
        /\ LongWindow < n + 1 /\ ShortWindow < n + 1
    BY <1>1
  <2>2. ClosesBefore(longer, n + 1, ShortWindow) = ClosesBefore(history, n + 1, ShortWindow)
    BY <1>1, <2>1, ClosesBeforeAgree
  <2>3. ClosesBefore(longer, n + 1, LongWindow) = ClosesBefore(history, n + 1, LongWindow)
    BY <1>1, <2>1, ClosesBeforeAgree
  <2> QED
    BY <2>2, <2>3
<1> DEFINE difference == ClosesBefore(longer, n + 1, ShortWindow) * LongWindow
                           - ClosesBefore(longer, n + 1, LongWindow) * ShortWindow
<1>4. ShortOverLong(history) = difference
  BY <1>2, <1>3 DEF ShortOverLong
<1>5. /\ execution.side = "buy" => difference > 0 /\ ~held
      /\ execution.side = "sell" => difference < 0 /\ held
  BY <1>1, <1>4 DEF decide
<1>6. execution.bar > LongWindow
  BY <1>1
<1>7. k % 2 = 1 <=> ~held
  OBVIOUS
<1> HIDE DEF difference
<1>8. IF k % 2 = 1 THEN execution.side = "buy" /\ difference > 0
                   ELSE execution.side = "sell" /\ difference < 0
  BY <1>5, <1>7 DEF Sides
<1> QED
  BY <1>6, <1>8 DEF Justified, difference

LEMMA CloseDecides ==
  ASSUME strategy = "moving_average", NEW book, NEW open, NEW close,
         bars' = Append(bars, [open |-> open, close |-> close]), portfolio' = book,
         Close(book, open, close)
  PROVE  pending_signal' = decide(bars', Held(portfolio', Symbol))
BY DEF Close, NextSignals, Held, Symbol

LEMMA AverageStep ==
  ASSUME BacktestInv, AverageInv, [Next]_vars
  PROVE  AverageInv'
<1> SUFFICES ASSUME strategy' = "moving_average"
             PROVE  /\ raised' = "none" => pending_signal' = decide(bars', Held(portfolio', Symbol))
                    /\ Held(portfolio', Symbol) <=> Len(executions') % 2 = 1
                    /\ \A k \in DOMAIN executions' : Justified(bars', executions'[k], k)
  BY DEF AverageInv
<1>1. strategy = "moving_average"
  BY DEF Next, NextBar, vars
<1>2. /\ raised = "none" => pending_signal = decide(bars, Held(portfolio, Symbol))
      /\ Held(portfolio, Symbol) <=> Len(executions) % 2 = 1
      /\ \A k \in DOMAIN executions : Justified(bars, executions[k], k)
  BY <1>1 DEF AverageInv
<1>3. CASE UNCHANGED vars
  BY <1>2, <1>3 DEF vars
<1>4. ASSUME raised = "none", Len(bars) < MaxBars, NEW open \in Prices, NEW close \in Prices,
             bars' = Append(bars, [open |-> open, close |-> close]),
             QuietBar(open, close) \/ OrderBar(open, close)
      PROVE  /\ raised' = "none" => pending_signal' = decide(bars', Held(portfolio', Symbol))
             /\ Held(portfolio', Symbol) <=> Len(executions') % 2 = 1
             /\ \A k \in DOMAIN executions' : Justified(bars', executions'[k], k)
  <2>1. PICK n \in Nat : n = Len(bars)
    <3>1. bars \in Seq(Bar)
      BY DEF BacktestInv, TypeOK
    <3> QED
      BY <3>1
  <2>2. PICK longer : longer = bars'
    OBVIOUS
  <2>3. \A i \in 1..n : longer[i] = bars[i]
    BY <1>4, <2>1, <2>2, BarAppended DEF BacktestInv, TypeOK
  <2>4. \A k \in DOMAIN executions : Justified(longer, executions[k], k)
    <3> SUFFICES ASSUME NEW k \in DOMAIN executions
                 PROVE  Justified(longer, executions[k], k)
      OBVIOUS
    <3>1. executions[k].bar \in 1..n
      BY <2>1 DEF BacktestInv, TypeOK
    <3> QED
      BY <1>2, <2>3, <3>1, StaysJustified
  <2>5. CASE QuietBar(open, close)
    <3>1. UNCHANGED <<portfolio, executions, raised>> /\ Close(portfolio, open, close)
      BY <2>5 DEF QuietBar
    <3>2. pending_signal' = decide(bars', Held(portfolio', Symbol))
      BY <1>1, <1>4, <3>1, CloseDecides
    <3> QED
      BY <1>2, <2>2, <2>4, <3>1, <3>2
  <2>6. CASE OrderBar(open, close)
    <3>1. pending_signal \in Sides
      BY <1>4, <2>6, OrderBarEffect
    <3>2. CASE /\ raised' = "order_error" /\ pending_signal = "sell"
               /\ Quantity > 0 /\ Quantity * fill_price("sell", open) <= Fee
               /\ UNCHANGED <<portfolio, executions, equity_curve, pending_signal>>
      BY <1>2, <2>2, <2>4, <3>2
    <3>3. ASSUME UNCHANGED raised,
                 NEW record \in Execution, record.bar = Len(bars) + 1,
                 record.side = pending_signal, executions' = Append(executions, record),
                 NEW book \in PortfolioType, portfolio' = book,
                 Held(book, Symbol) <=> pending_signal = "buy",
                 Close(book, open, close)
          PROVE  /\ pending_signal' = decide(bars', Held(portfolio', Symbol))
                 /\ Held(portfolio', Symbol) <=> Len(executions') % 2 = 1
                 /\ \A k \in DOMAIN executions' : Justified(bars', executions'[k], k)
      <4> DEFINE held == Held(portfolio, Symbol)
      <4>1. pending_signal' = decide(bars', Held(portfolio', Symbol))
        BY <1>1, <1>4, <3>3, CloseDecides
      <4>2. PICK length \in Nat : length = Len(executions)
        BY DEF BacktestInv
      <4>3. pending_signal = decide(bars, held) /\ held \in BOOLEAN
        BY <1>2, <1>4 DEF Held
      <4>4. held <=> length % 2 = 1
        BY <1>2, <4>2
      <4>5. held <=> pending_signal = "sell"
        BY <3>1, <4>3 DEF decide, Sides
      <4>6. /\ Len(executions') = length + 1 /\ executions'[length + 1] = record
            /\ DOMAIN executions' = 1..(length + 1)
            /\ \A k \in DOMAIN executions : executions'[k] = executions[k]
            /\ DOMAIN executions = 1..length
        BY <3>3, <4>2 DEF BacktestInv
      <4>7. Held(portfolio', Symbol) <=> Len(executions') % 2 = 1
        <5>1. Held(portfolio', Symbol) <=> ~held
          BY <3>1, <3>3, <4>5 DEF Sides
        <5>2. (length + 1) % 2 = 1 <=> ~(length % 2 = 1)
          OBVIOUS
        <5> QED
          BY <4>4, <4>6, <5>1, <5>2
      <4>8. Justified(longer, record, length + 1)
        <5>1. length + 1 \in Nat /\ (held <=> (length + 1) % 2 = 0)
          BY <4>4
        <5>2. record.bar = n + 1 /\ record.side = decide(bars, held) /\ record.side \in Sides
          BY <2>1, <3>1, <3>3, <4>3
        <5> HIDE DEF held
        <5> QED
          BY <2>1, <2>3, <4>3, <5>1, <5>2, DecisionJustified
      <4>9. \A k \in DOMAIN executions' : Justified(longer, executions'[k], k)
        <5> SUFFICES ASSUME NEW k \in DOMAIN executions'
                     PROVE  Justified(longer, executions'[k], k)
          OBVIOUS
        <5>1. CASE k = length + 1
          BY <4>6, <4>8, <5>1
        <5>2. CASE k # length + 1
          <6>1. k \in DOMAIN executions
            BY <4>6, <5>2
          <6> QED
            BY <2>4, <4>6, <6>1
        <5> QED
          BY <5>1, <5>2
      <4> QED
        BY <2>2, <4>1, <4>7, <4>9
    <3> QED
      BY <1>4, <2>6, <3>2, <3>3, OrderBarEffect
  <2> QED
    BY <1>4, <2>5, <2>6
<1> QED
  BY <1>3, <1>4 DEF Next, NextBar

\* The moving averages never look ahead: purchases and sales alternate, and each
\* is justified by the average closes strictly before its bar, for any windows and
\* any prices (BacktestEngine.run, engine.py 76-131).
THEOREM AverageInvariant == MainSpec => []MovingAverageTradesJustified
<1>1. Init => AverageInv
  <2> SUFFICES ASSUME Init
               PROVE  AverageInv
    OBVIOUS
  <2>1. bars = <<>> /\ executions = <<>> /\ pending_signal = "hold" /\ ~Held(portfolio, Symbol)
    BY TheOneInstrument DEF Init, Held
  <2>2. Len(bars) < LongWindow
    BY <2>1, WindowsAssumption
  <2> QED
    BY <2>1, <2>2 DEF AverageInv, decide
<1>2. BacktestInv /\ AverageInv /\ [Next]_vars => AverageInv'
  BY AverageStep
<1>3. AverageInv => MovingAverageTradesJustified
  BY DEF AverageInv, MovingAverageTradesJustified, Justified, ClosesBefore, Closes, Symbol
<1> QED
  BY <1>1, <1>2, <1>3, BacktestInvariant, RunsBacktest, PTL DEF Spec

-----------------------------------------------------------------------------
(***************************************************************************)
(* The drawdown that is reported.  The fold over the curve takes one point *)
(* after the other, and after each of them the worst fall so far is known. *)
(***************************************************************************)
AllFalls(base, curve) == FoldLeft(Fall, base, curve)

PointByPoint(fold, base, curve, n) ==
  /\ AllFalls(base, curve) = fold[n]
  /\ fold[0] = base
  /\ \A k \in 1..n : fold[k] = Fall(fold[k - 1], curve[k])

LEMMA FallFold ==
  ASSUME NEW curve, NEW n \in Nat, DOMAIN curve = 1..n, NEW base
  PROVE  \E fold : PointByPoint(fold, base, curve, n)
<1> DEFINE body(h, m) == [s \in SUBSET (1..m) |->
                            IF s = {} THEN base
                            ELSE LET x == Max(s) IN Fall(h[s \ {x}], curve[x])]
           iter == CHOOSE h : h = body(h, n)
<1>1. \A m \in Nat : \E h : h = body(h, m)
  <2> DEFINE T == {m \in Nat : \E h : h = body(h, m)}
  <2>1. 0 \in T
    <3> DEFINE h == [s \in SUBSET (1..0) |-> base]
    <3>1. \A s \in SUBSET (1..0) : s = {}
      OBVIOUS
    <3>2. h = body(h, 0)
      BY <3>1
    <3> QED
      BY <3>2
  <2>2. ASSUME NEW m \in Nat, m \in T
        PROVE  m + 1 \in T
    <3>1. PICK h : h = body(h, m)
      BY <2>2
    <3> DEFINE last == m + 1
               g == [s \in SUBSET (1..last) |->
                       IF last \in s THEN Fall(h[s \ {last}], curve[last]) ELSE h[s]]
    <3>2. ASSUME NEW s \in SUBSET (1..last)
          PROVE  g[s] = body(g, last)[s]
      <4>1. CASE last \in s
        <5>1. Max(s) = last /\ s # {}
          <6>1. \A y \in s : last >= y
            OBVIOUS
          <6>2. \A x \in s : (\A y \in s : x >= y) => x = last
            BY <4>1
          <6> QED
            BY <4>1, <6>1, <6>2 DEF Max
        <5>2. s \ {last} \in SUBSET (1..last) /\ last \notin s \ {last}
          OBVIOUS
        <5>3. g[s \ {last}] = h[s \ {last}]
          BY <5>2
        <5>4. g[s] = Fall(h[s \ {last}], curve[last])
          BY <4>1
        <5>5. body(g, last)[s] = Fall(g[s \ {last}], curve[last])
          <6> HIDE DEF g
          <6> QED
            BY <5>1
        <5> QED
          BY <5>3, <5>4, <5>5
      <4>2. CASE last \notin s
        <5>1. s \in SUBSET (1..m)
          BY <4>2
        <5>2. g[s] = h[s] /\ h[s] = body(h, m)[s]
          BY <3>1, <4>2
        <5>3. PICK x : x = Max(s)
          OBVIOUS
        <5>4. s \ {x} \in SUBSET (1..last) /\ last \notin s \ {x}
          BY <4>2
        <5>5. g[s \ {x}] = h[s \ {x}]
          BY <5>4
        <5>6. body(h, m)[s] = IF s = {} THEN base ELSE Fall(h[s \ {x}], curve[x])
          BY <5>1, <5>3
        <5>7. body(g, last)[s] = IF s = {} THEN base ELSE Fall(g[s \ {x}], curve[x])
          <6> HIDE DEF g
          <6> QED
            BY <5>3
        <5> QED
          BY <5>2, <5>5, <5>6, <5>7
      <4> QED
        BY <4>1, <4>2
    <3>3. g = body(g, last)
      <4>1. g = [s \in SUBSET (1..last) |-> g[s]]
        OBVIOUS
      <4>2. body(g, last) = [s \in SUBSET (1..last) |-> body(g, last)[s]]
        OBVIOUS
      <4> HIDE DEF g, body
      <4> QED
        BY <3>2, <4>1, <4>2
    <3> HIDE DEF g, body
    <3> QED
      BY <3>3
  <2> HIDE DEF T
  <2>3. Nat \subseteq T
    BY <2>1, <2>2, NumbersBySteps
  <2> QED
    BY <2>3 DEF T
<1>2. iter = body(iter, n)
  <2> HIDE DEF body
  <2> QED
    BY <1>1
<1>3. AllFalls(base, curve) = iter[1..n]
  BY DEF AllFalls, FoldLeft, MapThenFoldSet
<1> HIDE DEF iter
<1> DEFINE fold == [k \in 0..n |-> iter[1..k]]
<1>4. iter[{}] = base
  BY <1>2
<1>5. fold[0] = base
  <2>1. 1..0 = {}
    OBVIOUS
  <2> QED
    BY <1>4, <2>1
<1>6. ASSUME NEW k \in 1..n
      PROVE  fold[k] = Fall(fold[k - 1], curve[k])
  <2>1. 1..k \in SUBSET (1..n) /\ 1..k # {}
    <3>1. k \in 1..k /\ k \in Nat /\ k <= n
      OBVIOUS
    <3>2. 1..k \subseteq 1..n
      BY <3>1
    <3> QED
      BY <3>1, <3>2
  <2>2. Max(1..k) = k
    <3>1. k \in 1..k /\ \A y \in 1..k : k >= y
      OBVIOUS
    <3>2. ASSUME NEW x \in 1..k, \A y \in 1..k : x >= y
          PROVE  x = k
      <4>1. x >= k
        BY <3>1, <3>2
      <4> QED
        BY <4>1
    <3> QED
      BY <3>1, <3>2 DEF Max
  <2>3. (1..k) \ {k} = 1..(k - 1)
    OBVIOUS
  <2>4. iter[1..k] = Fall(iter[1..(k - 1)], curve[k])
    BY <1>2, <2>1, <2>2, <2>3
  <2> QED
    BY <2>4
<1> HIDE DEF fold
<1>7. AllFalls(base, curve) = fold[n]
  BY <1>3 DEF fold
<1> QED
  BY <1>5, <1>6, <1>7 DEF PointByPoint

\* Fractions with positive denominators, compared after cross-multiplication.
LEMMA FractionsTransitive ==
  ASSUME NEW a \in Int, NEW c \in Int, NEW e \in Int,
         NEW b \in Nat \ {0}, NEW d \in Nat \ {0}, NEW f \in Nat \ {0},
         a * d <= c * b, c * f <= e * d
  PROVE  a * f <= e * b
<1>1. (a * d) * f <= (c * b) * f
  <2> DEFINE x == a * d
             y == c * b
  <2>1. x \in Int /\ y \in Int /\ x <= y
    OBVIOUS
  <2> HIDE DEF x, y
  <2>2. x * f <= y * f
    BY <2>1
  <2> QED
    BY <2>2 DEF x, y
<1>2. (c * f) * b <= (e * d) * b
  <2> DEFINE x == c * f
             y == e * d
  <2>1. x \in Int /\ y \in Int /\ x <= y
    OBVIOUS
  <2> HIDE DEF x, y
  <2>2. x * b <= y * b
    BY <2>1
  <2> QED
    BY <2>2 DEF x, y
<1>3. (a * d) * f = d * (a * f) /\ (c * b) * f = (c * f) * b /\ (e * d) * b = d * (e * b)
  OBVIOUS
<1> DEFINE p == a * f
           q == e * b
<1>4. p \in Int /\ q \in Int
  OBVIOUS
<1>5. d * p <= d * q
  <2> DEFINE u == d * p
             v == (c * b) * f
             w == d * q
  <2>1. u \in Int /\ v \in Int /\ w \in Int
    OBVIOUS
  <2>2. u <= v /\ v <= w
    BY <1>1, <1>2, <1>3
  <2> HIDE DEF u, v, w
  <2>3. u <= w
    BY <2>1, <2>2
  <2> QED
    BY <2>3 DEF u, w
<1> HIDE DEF p, q
<1>6. p <= q
  <2> SUFFICES ASSUME p >= q + 1
               PROVE  FALSE
    BY <1>4
  <2>1. d * p >= d * (q + 1)
    BY <1>4
  <2>2. d * (q + 1) = d * q + d /\ d * q \in Int /\ d * p \in Int
    BY <1>4
  <2> QED
    BY <1>5, <2>1, <2>2
<1> QED
  BY <1>6 DEF p, q

\* What the loop knows after the first k points of the curve.
WorstSoFar(curve, k, peak, a, b) ==
  LET points == DOMAIN curve
  IN  /\ peak \in Nat \ {0} /\ a \in Int /\ b \in Nat \ {0}
      /\ -b < a /\ a <= 0
      /\ \E i \in points : (i <= k \/ i = 1) /\ curve[i] = peak
      /\ \A i \in points : i <= k => curve[i] <= peak
      /\ a = 0 \/ \E i, j \in points : i <= j /\ a = curve[j] - curve[i] /\ b = curve[i]
      /\ \A i, j \in points : i <= j /\ j <= k => a * curve[i] <= (curve[j] - curve[i]) * b

LEMMA WorstSoFarStep ==
  ASSUME NEW n \in Nat, NEW curve \in [1..n -> Nat \ {0}], NEW k \in Nat, k + 1 <= n,
         NEW peak, NEW a, NEW b, WorstSoFar(curve, k, peak, a, b)
  PROVE  LET equity == curve[k + 1]
             top    == IF equity > peak THEN equity ELSE peak
             deeper == (equity - top) * b < a * top
         IN  WorstSoFar(curve, k + 1, top, IF deeper THEN equity - top ELSE a,
                                           IF deeper THEN top ELSE b)
<1> DEFINE points == DOMAIN curve
           equity == curve[k + 1]
           top    == IF equity > peak THEN equity ELSE peak
           deeper == (equity - top) * b < a * top
           a1     == IF deeper THEN equity - top ELSE a
           b1     == IF deeper THEN top ELSE b
<1>1. /\ points = 1..n /\ k + 1 \in points /\ equity \in Nat \ {0}
      /\ \A i \in points : curve[i] \in Nat \ {0} /\ i \in Nat
  OBVIOUS
<1>2. /\ peak \in Nat \ {0} /\ a \in Int /\ b \in Nat \ {0} /\ -b < a /\ a <= 0
      /\ \E i \in points : (i <= k \/ i = 1) /\ curve[i] = peak
      /\ \A i \in points : i <= k => curve[i] <= peak
      /\ a = 0 \/ \E i, j \in points : i <= j /\ a = curve[j] - curve[i] /\ b = curve[i]
      /\ \A i, j \in points : i <= j /\ j <= k => a * curve[i] <= (curve[j] - curve[i]) * b
  BY DEF WorstSoFar
<1> HIDE DEF points, equity
<1>3. top \in Nat \ {0} /\ peak <= top /\ equity <= top
  BY <1>1, <1>2
<1>4. \E i \in points : i <= k + 1 /\ curve[i] = top
  <2>1. CASE equity > peak
    BY <1>1, <2>1 DEF equity
  <2>2. CASE ~(equity > peak)
    BY <1>1, <1>2, <2>2
  <2> QED
    BY <2>1, <2>2
<1>5. \A i \in points : i <= k + 1 => curve[i] <= top
  <2> SUFFICES ASSUME NEW i \in points, i <= k + 1
               PROVE  curve[i] <= top
    OBVIOUS
  <2>1. CASE i = k + 1
    BY <1>3, <2>1 DEF equity
  <2>2. CASE i # k + 1
    <3>1. i <= k /\ curve[i] <= peak
      BY <1>1, <1>2, <2>2
    <3> QED
      BY <1>1, <1>2, <1>3, <3>1
  <2> QED
    BY <2>1, <2>2
<1> HIDE DEF top
<1>6. a1 \in Int /\ b1 \in Nat \ {0} /\ -b1 < a1 /\ a1 <= 0
  BY <1>1, <1>2, <1>3
<1>7. a1 = 0 \/ \E i, j \in points : i <= j /\ a1 = curve[j] - curve[i] /\ b1 = curve[i]
  BY <1>1, <1>2, <1>4 DEF equity
\* The new worst fall is no better than the old one and than the one to this point.
<1>8. a1 * b <= a * b1 /\ a1 * top <= (equity - top) * b1
  <2> DEFINE x == (equity - top) * b
             y == a * top
  <2>1. x \in Int /\ y \in Int /\ (deeper <=> x < y)
    BY <1>1, <1>2, <1>3
  <2>2. CASE deeper
    <3>1. a1 * b = x /\ a * b1 = y /\ a1 * top = (equity - top) * b1
      BY <2>2
    <3>2. x <= y
      BY <2>1, <2>2
    <3>3. (equity - top) * top \in Int
      BY <1>1, <1>3
    <3> QED
      BY <2>2, <3>1, <3>2, <3>3
  <2>3. CASE ~deeper
    <3>1. a1 * b = a * b1 /\ a1 * top = y /\ (equity - top) * b1 = x /\ a * b \in Int
      BY <1>2, <2>3
    <3>2. y <= x
      <4> HIDE DEF x, y, deeper
      <4> QED
        BY <2>1, <2>3
    <3> QED
      BY <1>2, <2>3, <3>1, <3>2
  <2> QED
    BY <2>2, <2>3
<1> HIDE DEF a1, b1
<1>9. ASSUME NEW i \in points, NEW j \in points, i <= j, j <= k + 1
      PROVE  a1 * curve[i] <= (curve[j] - curve[i]) * b1
  <2>1. PICK ci \in Nat \ {0}, cj \in Nat \ {0} : ci = curve[i] /\ cj = curve[j]
    BY <1>1
  <2>2. CASE j = k + 1
    <3>1. cj = equity /\ ci <= top
      BY <1>1, <1>5, <1>9, <2>1, <2>2 DEF equity
    <3>2. (equity - top) * ci <= (equity - ci) * top
      <4>1. (equity - top) * ci = equity * ci - top * ci
        BY <1>1, <1>3
      <4>2. (equity - ci) * top = equity * top - top * ci
        BY <1>1, <1>3
      <4>3. equity * ci <= equity * top
        BY <1>1, <1>3, <3>1
      <4>4. equity * ci \in Int /\ equity * top \in Int /\ top * ci \in Int
        BY <1>1, <1>3
      <4> QED
        BY <4>1, <4>2, <4>3, <4>4
    <3>3. PICK drop \in Int, drop2 \in Int : drop = equity - top /\ drop2 = equity - ci
      BY <1>1, <1>3
    <3>4. a1 * top <= drop * b1 /\ drop * ci <= drop2 * top
      BY <1>8, <3>2, <3>3
    <3>5. a1 * ci <= drop2 * b1
      BY <1>3, <1>6, <3>4, FractionsTransitive
    <3> QED
      BY <2>1, <3>1, <3>3, <3>5
  <2>3. CASE j # k + 1
    <3>1. j <= k
      BY <1>1, <1>9, <2>3
    <3>2. PICK drop \in Int : drop = cj - ci
      OBVIOUS
    <3>3. a * ci <= drop * b
      BY <1>2, <1>9, <2>1, <3>1, <3>2
    <3>4. a1 * ci <= drop * b1
      BY <1>2, <1>6, <1>8, <3>3, FractionsTransitive
    <3> QED
      BY <2>1, <3>2, <3>4
  <2> QED
    BY <2>2, <2>3
<1>10. WorstSoFar(curve, k + 1, top, a1, b1)
  <2>1. \E i \in points : (i <= k + 1 \/ i = 1) /\ curve[i] = top
    BY <1>4
  <2> QED
    BY <1>3, <1>5, <1>6, <1>7, <1>9, <2>1 DEF WorstSoFar, points
<1> QED
  BY <1>10 DEF equity, top, a1, b1

\* For any curve of positive points the loop finds the worst of all falls.
LEMMA WorstFallFound ==
  ASSUME NEW n \in Nat \ {0}, NEW curve \in [1..n -> Nat \ {0}]
  PROVE  \E peak, a, b :
           /\ AllFalls([peak |-> curve[1], worst |-> <<0, 1>>], curve).worst = <<a, b>>
           /\ WorstSoFar(curve, n, peak, a, b)
<1>0. PICK base : base = [peak |-> curve[1], worst |-> <<0, 1>>]
  OBVIOUS
<1>1. PICK fold : /\ AllFalls(base, curve) = fold[n]
                  /\ fold[0] = base
                  /\ \A k \in 1..n : fold[k] = Fall(fold[k - 1], curve[k])
  <2>1. DOMAIN curve = 1..n /\ n \in Nat
    OBVIOUS
  <2>2. PICK fold : PointByPoint(fold, base, curve, n)
    BY <2>1, FallFold
  <2> QED
    BY <2>2 DEF PointByPoint
<1> DEFINE Known(k) == \E peak, a, b : /\ fold[k] = [peak |-> peak, worst |-> <<a, b>>]
                                       /\ WorstSoFar(curve, k, peak, a, b)
           T == {k \in Nat : k <= n => Known(k)}
<1> HIDE DEF Known
<1>2. 0 \in T
  <2>1. 1 \in DOMAIN curve /\ curve[1] \in Nat \ {0} /\ \A i \in DOMAIN curve : ~(i <= 0)
    OBVIOUS
  <2>2. WorstSoFar(curve, 0, curve[1], 0, 1)
    BY <2>1 DEF WorstSoFar
  <2>3. Known(0)
    BY <1>0, <1>1, <2>2 DEF Known
  <2> QED
    BY <2>3
<1>3. ASSUME NEW k \in Nat, k \in T
      PROVE  k + 1 \in T
  <2> SUFFICES ASSUME k + 1 <= n
               PROVE  Known(k + 1)
    OBVIOUS
  <2>1. Known(k)
    BY <1>3
  <2>2. PICK peak, a, b : /\ fold[k] = [peak |-> peak, worst |-> <<a, b>>]
                          /\ WorstSoFar(curve, k, peak, a, b)
    BY <2>1 DEF Known
  <2> DEFINE equity == curve[k + 1]
             top    == IF equity > peak THEN equity ELSE peak
             deeper == (equity - top) * b < a * top
             a1     == IF deeper THEN equity - top ELSE a
             b1     == IF deeper THEN top ELSE b
  <2>3. fold[k + 1] = Fall([peak |-> peak, worst |-> <<a, b>>], equity)
    <3>1. k + 1 \in 1..n /\ (k + 1) - 1 = k
      OBVIOUS
    <3> QED
      BY <1>1, <2>2, <3>1
  <2>4. Fall([peak |-> peak, worst |-> <<a, b>>], equity)
          = [peak |-> top, worst |-> IF deeper THEN <<equity - top, top>> ELSE <<a, b>>]
    BY DEF Fall
  <2>5. (IF deeper THEN <<equity - top, top>> ELSE <<a, b>>) = <<a1, b1>>
    OBVIOUS
  <2>6. WorstSoFar(curve, k + 1, top, a1, b1)
    BY <2>2, WorstSoFarStep
  <2> HIDE DEF top, deeper, a1, b1, equity
  <2> QED
    BY <2>3, <2>4, <2>5, <2>6 DEF Known
<1> HIDE DEF T
<1>4. n \in T
  BY <1>2, <1>3, NumbersBySteps
<1>5. Known(n)
  BY <1>4 DEF T
<1>6. PICK peak, a, b : /\ fold[n] = [peak |-> peak, worst |-> <<a, b>>]
                        /\ WorstSoFar(curve, n, peak, a, b)
  BY <1>5 DEF Known
<1>7. AllFalls(base, curve).worst = <<a, b>>
  BY <1>1, <1>6
<1> QED
  BY <1>0, <1>6, <1>7

LEMMA DrawdownFound ==
  ASSUME equity_curve \in Seq(Int), \A i \in DOMAIN equity_curve : equity_curve[i] > 0
  PROVE  DrawdownIsWorstFall
<1> SUFFICES ASSUME equity_curve # <<>>
             PROVE  LET fallsFrom(i) == {<<equity_curve[j] - equity_curve[i], equity_curve[i]>> :
                                           j \in i..Len(equity_curve)}
                        falls == UNION {fallsFrom(i) : i \in DOMAIN equity_curve}
                        loss == maximum_drawdown
                    IN  /\ loss \in falls \/ loss[1] = 0
                        /\ \A fall \in falls : loss[1] * fall[2] <= fall[1] * loss[2]
                        /\ -loss[2] < loss[1] /\ loss[1] <= 0
  BY DEF DrawdownIsWorstFall
<1> DEFINE curve == equity_curve
           fallsFrom(i) == {<<curve[j] - curve[i], curve[i]>> : j \in i..Len(curve)}
           falls == UNION {fallsFrom(i) : i \in DOMAIN curve}
<1>1. PICK n \in Nat \ {0} : n = Len(curve)
  OBVIOUS
<1>2. DOMAIN curve = 1..n /\ curve \in [1..n -> Nat \ {0}]
  <2>1. \A i \in 1..n : curve[i] \in Nat \ {0}
    BY <1>1
  <2> QED
    BY <1>1, <2>1
<1>3. PICK peak, a, b :
        /\ AllFalls([peak |-> curve[1], worst |-> <<0, 1>>], curve).worst = <<a, b>>
        /\ WorstSoFar(curve, n, peak, a, b)
  BY <1>2, WorstFallFound
<1>4. maximum_drawdown = <<a, b>>
  <2>1. Head(curve) = curve[1]
    OBVIOUS
  <2> QED
    BY <1>3, <2>1 DEF maximum_drawdown, AllFalls
<1>5. <<a, b>> \in falls \/ a = 0
  <2>1. ASSUME NEW i \in 1..n, NEW j \in 1..n, i <= j, a = curve[j] - curve[i], b = curve[i]
        PROVE  <<a, b>> \in falls
    <3>1. j \in i..Len(curve)
      BY <1>1, <2>1
    <3>2. <<a, b>> \in fallsFrom(i)
      BY <2>1, <3>1
    <3> QED
      BY <1>2, <3>2
  <2> HIDE DEF falls
  <2> QED
    BY <1>2, <1>3, <2>1 DEF WorstSoFar
<1>6. ASSUME NEW fall \in falls
      PROVE  a * fall[2] <= fall[1] * b
  <2>1. PICK i \in 1..n : fall \in fallsFrom(i)
    BY <1>2
  <2>2. PICK j \in i..Len(curve) : fall = <<curve[j] - curve[i], curve[i]>>
    BY <2>1
  <2>3. j \in 1..n /\ i <= j /\ j <= n
    BY <1>1
  <2>4. a * curve[i] <= (curve[j] - curve[i]) * b
    BY <1>2, <1>3, <2>3 DEF WorstSoFar
  <2>5. fall[1] = curve[j] - curve[i] /\ fall[2] = curve[i]
    BY <2>2
  <2> QED
    BY <2>4, <2>5
<1>7. -b < a /\ a <= 0
  BY <1>3 DEF WorstSoFar
<1> HIDE DEF falls
<1> QED
  BY <1>4, <1>5, <1>6, <1>7 DEF falls

\* The drawdown that is reported is the worst fall of the curve from any point to a
\* later one, for a curve of any length (calculate_metrics, engine.py 234-242).
THEOREM DrawdownInvariant == MainSpec => []DrawdownIsWorstFall
<1>1. BacktestInv => DrawdownIsWorstFall
  BY DrawdownFound DEF BacktestInv, TypeOK, EquityPositive
<1> QED
  BY <1>1, BacktestInvariant, RunsBacktest, PTL

-----------------------------------------------------------------------------
\* Types, of whatever command the process runs.
THEOREM MainTypeInvariant == MainSpec => []MainTypeOK
<1>1. MainInit => command \in Commands
  BY DEF MainInit
<1>2. command \in Commands /\ [MainNext]_mainVars => (command \in Commands)'
  BY DEF MainNext, mainVars
<1>3. BacktestInv => TypeOK
  BY DEF BacktestInv
<1>4. FirstOrderInv => FirstOrderTypeOK
  BY DEF FirstOrderInv
<1>5. command \in Commands /\ TypeOK /\ FirstOrderTypeOK /\ LimiterTypeOK => MainTypeOK
  BY DEF MainTypeOK
<1> QED
  BY <1>1, <1>2, <1>3, <1>4, <1>5, RunsBacktest, BacktestInvariant, RunsFirstOrder,
     FirstOrderInvariantHolds, ServesLimiter, LimiterTypeInvariant, PTL DEF MainSpec
=============================================================================
