----------------------------- MODULE RateLimiter -----------------------------
(***************************************************************************)
(* The first dependency of every protected endpoint, current_user of       *)
(* server/app.py: RateLimiter.check for the address of the client, then    *)
(* the comparison of its token.  FastAPI runs it in a pool of threads and  *)
(* the deque of an address is shared by them without a lock.               *)
(*                                                                         *)
(* A step is what no other thread interrupts: the time that is read, a     *)
(* test of the loop, popleft, len with its comparison up to append.        *)
(* Between them the interpreter may run another thread: it does so after   *)
(* calls and at the jump back of the loop.                                 *)
(*                                                                         *)
(* Addresses have deques of their own, so one of them is modelled.         *)
(***************************************************************************)
EXTENDS Integers, Sequences, FiniteSets

CONSTANTS
  Threads,        \* threads of the pool
  Limit,          \* RateLimiter.limit
  Window,         \* RateLimiter.window
  MaxTime,        \* bound: the clock
  MaxArrivals     \* bound: requests that arrive

ASSUME ThreadsAssumption == IsFiniteSet(Threads) /\ Threads # {}
ASSUME LimiterAssumption ==
  Limit \in Nat \ {0} /\ Window \in Nat \ {0} /\ MaxTime \in Nat /\ MaxArrivals \in Nat

VARIABLES
  clock,        \* time.monotonic()
  requests,     \* the deque of the address: times of requests let in
  thread,       \* what each thread does: its step, the time it has read, its answer
  let_in,       \* history: the times of all requests let in
  arrivals,
  overlapped    \* has a request ever arrived while another one was being checked?

limiterVars == <<clock, requests, thread, let_in, arrivals, overlapped>>

Steps == {"free", "testing", "expired", "counting", "admitted", "authenticating"}
\* 0 before the answer; 500 is an error of the check.  200 stands for every answer once
\* the check and the comparison are over or out of reach: that of the endpoint, and the
\* error of a database whose users cannot be read.
Answers == {0, 200, 401, 429, 500}
Thread == [step : Steps, now : 0..MaxTime, answer : Answers]

LimiterTypeOK ==
  /\ clock \in 0..MaxTime
  /\ requests \in Seq(0..MaxTime)
  /\ thread \in [Threads -> Thread]
  /\ let_in \in Seq(0..MaxTime)
  /\ arrivals \in 0..MaxArrivals
  /\ overlapped \in BOOLEAN

LimiterInit ==
  /\ clock = 0
  /\ requests = <<>>
  /\ thread = [w \in Threads |-> [step |-> "free", now |-> 0, answer |-> 0]]
  /\ let_in = <<>>
  /\ arrivals = 0
  /\ overlapped = FALSE

-----------------------------------------------------------------------------

InCheck(w) == thread[w].step \in {"testing", "expired", "counting", "admitted"}

Advance(w, step) == thread' = [thread EXCEPT ![w].step = step]

AnswerWith(w, answer) ==
  thread' = [thread EXCEPT ![w].step = "free", ![w].answer = answer]

\* A request reaches a thread, which reads the time.
Arrive(w) ==
  /\ thread[w].step = "free"
  /\ arrivals < MaxArrivals
  /\ arrivals' = arrivals + 1
  /\ thread' = [thread EXCEPT ![w] = [step |-> "testing", now |-> clock, answer |-> 0]]
  /\ overlapped' = (overlapped \/ \E v \in Threads : InCheck(v))
  /\ UNCHANGED <<clock, requests, let_in>>

\* Mutant for the checks: a request counts until it is older than the window.
Expired_Late(now) == requests # <<>> /\ Head(requests) < now - Window

\* The condition of the loop.
Expired(now) == requests # <<>> /\ Head(requests) <= now - Window

TestHead(w) ==
  /\ thread[w].step = "testing"
  /\ Advance(w, IF Expired(thread[w].now) THEN "expired" ELSE "counting")
  /\ UNCHANGED <<clock, requests, let_in, arrivals, overlapped>>

\* popleft takes what is first by now, and raises if nothing is left.
PopLeft(w) ==
  /\ thread[w].step = "expired"
  /\ IF requests = <<>>
     THEN AnswerWith(w, 500) /\ UNCHANGED requests
     ELSE Advance(w, "testing") /\ requests' = Tail(requests)
  /\ UNCHANGED <<clock, let_in, arrivals, overlapped>>

\* Mutant for the checks: one request more than the limit is let in.
Count_OneMore(w) ==
  /\ thread[w].step = "counting"
  /\ IF Len(requests) > Limit THEN AnswerWith(w, 429) ELSE Advance(w, "admitted")
  /\ UNCHANGED <<clock, requests, let_in, arrivals, overlapped>>

Count(w) ==
  /\ thread[w].step = "counting"
  /\ IF Len(requests) >= Limit THEN AnswerWith(w, 429) ELSE Advance(w, "admitted")
  /\ UNCHANGED <<clock, requests, let_in, arrivals, overlapped>>

AppendNow(w) ==
  /\ thread[w].step = "admitted"
  /\ requests' = Append(requests, thread[w].now)
  /\ let_in' = Append(let_in, thread[w].now)
  /\ Advance(w, "authenticating")
  /\ UNCHANGED <<clock, arrivals, overlapped>>

\* Only now is the token compared with those of the users; a request with a wrong
\* one, or none, has been counted all the same, and so has one whose lookup fails.
Authenticate(w) ==
  /\ thread[w].step = "authenticating"
  /\ \E known \in BOOLEAN : AnswerWith(w, IF known THEN 200 ELSE 401)
  /\ UNCHANGED <<clock, requests, let_in, arrivals, overlapped>>

Tick ==
  /\ clock < MaxTime
  /\ clock' = clock + 1
  /\ UNCHANGED <<requests, thread, let_in, arrivals, overlapped>>

LimiterNext ==
  \/ \E w \in Threads :
       \/ Arrive(w)
       \/ TestHead(w)
       \/ PopLeft(w)
       \/ Count(w)
       \/ AppendNow(w)
       \/ Authenticate(w)
  \/ Tick

LimiterSpec == LimiterInit /\ [][LimiterNext]_limiterVars

-----------------------------------------------------------------------------
(* Properties. *)

\* How many requests were let in in the window that ends at this time.
LetIn(time) ==
  Cardinality({i \in DOMAIN let_in : time - Window < let_in[i] /\ let_in[i] <= time})

\* Requests that are checked one after the other get the limiter that the
\* documentation speaks of, "the maximum number of requests within a window of
\* time" (docs/glossary.md 51): never more than the limit in any window, failed
\* logins included, a refusal only when the window is full, and no other failure.
\* (RateLimiter.check, app.py 35-42)
ExactWhenAlone ==
  ~overlapped =>
    /\ \A time \in 0..clock : LetIn(time) <= Limit
    /\ \A w \in Threads :
         /\ thread[w].answer = 429 => LetIn(thread[w].now) = Limit
         /\ thread[w].answer # 500

\* However threads race, the deque of an address outgrows the limit by no more
\* than the threads that passed the count together, so that no burst, however
\* long, makes it grow with every wave.  (app.py 40-42, where the count and the
\* append are two steps)
DequeBounded == Len(requests) <= Limit + Cardinality(Threads) - 1
=============================================================================
