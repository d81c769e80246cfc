--------------------------- MODULE DeadlineProofs ---------------------------
(***************************************************************************)
(* A request ends within the allowance of its policy, for every policy.    *)
(* EndsInTime is not inductive: it says nothing of the time still granted. *)
(* The invariant adds that age and remaining time together never exceed    *)
(* the timeout and the retries spent so far, each with the lateness of the *)
(* timer, and that the timer is never later than its period.               *)
(***************************************************************************)
EXTENDS Deadline, TLAPS

Spent == Timeout + retries_done * (Interval + TimerPeriod)

Budget ==
  /\ active \in BOOLEAN /\ retries_done \in Nat
  /\ left \in Int /\ elapsed \in Nat
  /\ active => /\ retries_done <= MaxRetries
               /\ left >= -TimerPeriod
               /\ elapsed + left <= Spent

(* Multiplication is monotone and distributes over a successor: the facts  *)
(* about the retries' share of the allowance.                              *)
LEMMA Products ==
  ASSUME NEW r \in Nat, NEW m \in Nat, NEW c \in Nat
  PROVE  /\ r * c \in Nat
         /\ (r + 1) * c = r * c + c
         /\ r <= m => r * c <= m * c
OBVIOUS

LEMMA IntervalType == GoodPolicy => Interval \in Nat
BY DEF GoodPolicy, Interval

(* The budget is never overdrawn. *)
LEMMA BudgetInvariant ==
  ASSUME GoodPolicy
  PROVE  DeadlineSpec => []Budget
<1> USE IntervalType DEF GoodPolicy
<1>1. DeadlineInit => Budget
  <2> SUFFICES ASSUME DeadlineInit PROVE Budget
    OBVIOUS
  <2>1. active = FALSE /\ retries_done \in Nat /\ left \in Int /\ elapsed \in Nat
    BY SMT DEF DeadlineInit
  <2> QED
    BY <2>1, Zenon DEF Budget
<1>2. Budget /\ [DeadlineNext]_deadlineVars => Budget'
  <2> SUFFICES ASSUME Budget, [DeadlineNext]_deadlineVars PROVE Budget'
    OBVIOUS
  <2> DEFINE c == Interval + TimerPeriod
  <2>0. c \in Nat /\ retries_done * c \in Nat
          /\ (retries_done + 1) * c = retries_done * c + c
    BY Products DEF Budget
  <2>z. 0 * c = 0
    BY <2>0
  <2>1. CASE Begin
    BY <2>1, <2>z DEF Begin, Budget, Spent
  <2>2. CASE End
    <3>1. active' = FALSE
      BY <2>2 DEF End
    <3>2. retries_done' \in Nat /\ left' \in Int /\ elapsed' \in Nat
      BY <2>2, SMT DEF End
    <3> QED
      BY <3>1, <3>2, Zenon DEF Budget
  <2>3. CASE EndAndBegin
    BY <2>3, <2>z DEF EndAndBegin, Budget, Spent
  <2>4. CASE Resend
    <3>1. /\ active /\ left <= 0 /\ left >= -TimerPeriod
          /\ elapsed + left <= Timeout + retries_done * c
          /\ elapsed \in Nat /\ left \in Int
      BY <2>4 DEF Resend, Budget, Spent
    <3>2. elapsed + Interval <= Timeout + (retries_done * c + c)
      BY <3>1, <2>0
    <3>3. Spent' = Timeout + (retries_done * c + c)
      BY <2>4, <2>0 DEF Resend, Spent
    <3> QED
      BY <2>4, <3>1, <3>2, <3>3 DEF Resend, Budget
  <2>5. CASE Advance
    <3>1. Spent' = Spent
      BY <2>5 DEF Advance, Spent
    <3> QED
      BY <2>5, <3>1 DEF Advance, Budget
  <2>6. CASE UNCHANGED deadlineVars
    BY <2>6 DEF deadlineVars, Budget, Spent
  <2> QED
    BY <2>1, <2>2, <2>3, <2>4, <2>5, <2>6 DEF DeadlineNext
<1> QED
  BY <1>1, <1>2, PTL DEF DeadlineSpec

(* A request of the session is answered or given up within the allowance   *)
(* of its retry policy.                                                    *)
THEOREM RequestsEndInTime ==
  ASSUME GoodPolicy
  PROVE  DeadlineSpec => []EndsInTime
<1> USE IntervalType DEF GoodPolicy
<1>1. Budget => EndsInTime
  <2> SUFFICES ASSUME Budget, active PROVE elapsed <= Allowance
    BY DEF EndsInTime
  <2> DEFINE c == Interval + TimerPeriod
  <2>1. c \in Nat /\ MaxRetries * c \in Nat /\ retries_done * c \in Nat
          /\ retries_done * c <= MaxRetries * c
    BY Products DEF Budget
  <2>2. elapsed + left <= Timeout + retries_done * c
    BY DEF Budget, Spent
  <2>3. elapsed \in Nat /\ left \in Int /\ left >= -TimerPeriod
    BY DEF Budget
  <2>4. elapsed <= Timeout + MaxRetries * c + TimerPeriod
    BY <2>1, <2>2, <2>3
  <2> QED
    BY <2>4 DEF Allowance
<1> QED
  BY <1>1, BudgetInvariant, PTL

(* The policy of start_request leaves a client of devctl, which waits five *)
(* seconds for its answer, more than twice the time the daemon takes.      *)
THEOREM ClientsWaitLongEnough ==
  ASSUME Timeout = 1000, RetryInterval = 500, MaxRetries = 2, TimerPeriod = 100
  PROVE  DeadlineSpec => [](active => 2 * elapsed < 5000)
<1>0. GoodPolicy
  BY DEF GoodPolicy
<1>1. Allowance = 2300
  BY DEF Allowance, Interval
<1>2. Budget /\ EndsInTime => (active => 2 * elapsed < 5000)
  BY <1>1 DEF EndsInTime, Budget
<1> QED
  BY <1>0, <1>2, BudgetInvariant, RequestsEndInTime, PTL
=============================================================================
