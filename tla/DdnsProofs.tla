----------------------------- MODULE DdnsProofs -----------------------------
(***************************************************************************)
(* The way of an announcement to Cloudflare, for every configuration.  The *)
(* DDNS writer keeps its write budget, its drop-oldest queue keeps the     *)
(* newest announcement, and it writes within its guards.  The verifier     *)
(* accepts a signature it has recorded once, up to a signer's clock that   *)
(* is the whole fudge ahead.                                               *)
(***************************************************************************)
EXTENDS Ddns, SigVerifier, FiniteSetTheorems, TLAPS

----------------------------------------------------------------------------
(* The write budget.                                                       *)

\* What was spent and what is left together never exceed the burst and the time the
\* bucket has accounted for.
BudgetInv ==
    /\ clock \in Nat /\ passes \in Nat
    /\ bucket = [tokens |-> bucket.tokens, last |-> bucket.last]
    /\ bucket.tokens \in Nat /\ bucket.last \in Nat /\ bucket.last <= clock
    /\ passes * GlobalRefill + bucket.tokens <= GlobalBurst * GlobalRefill + bucket.last

\* A use of the bucket (tokenBucket.allow) adds at most the time since the last one,
\* and takes a whole token when it allows.
LEMMA BucketUse ==
    ASSUME NEW b, NEW now \in Nat, b.tokens \in Nat, b.last \in Nat, b.last <= now
    PROVE  LET a == AfterBucketAllow(b, now) IN
           /\ a.tokens \in Nat /\ a.last = now
           /\ a = [tokens |-> a.tokens, last |-> a.last]
           /\ a.tokens <= b.tokens + (now - b.last)
           /\ BucketAllows(b, now) => a.tokens + GlobalRefill <= b.tokens + (now - b.last)
<1> DEFINE cap == GlobalBurst * GlobalRefill
<1>1. GlobalRefill \in Nat /\ GlobalBurst \in Nat
  BY DdnsAssumption
<1>2. cap \in Nat
  BY <1>1
<1> HIDE DEF cap
<1>3. /\ Refilled(b, now) \in Nat
      /\ Refilled(b, now) <= b.tokens + (now - b.last)
  BY <1>2 DEF Refilled, Less, cap
<1>4. QED
  BY <1>1, <1>3 DEF AfterBucketAllow, BucketAllows

\* Init and a crash start from a full bucket and no plans (New).
LEMMA BudgetInvInit == Init => BudgetInv
<1> SUFFICES ASSUME Init PROVE BudgetInv
  OBVIOUS
<1>1. GlobalRefill \in Nat /\ GlobalBurst \in Nat /\ GlobalBurst * GlobalRefill \in Nat
  BY DdnsAssumption
<1>2. bucket = [tokens |-> GlobalBurst * GlobalRefill, last |-> 0] /\ clock = 0 /\ passes = 0
  BY DEF Init, FullBucket
<1>3. QED
  BY <1>1, <1>2 DEF BudgetInv

\* Every step of the writer keeps the balance.
LEMMA BudgetInvNext == BudgetInv /\ [Next]_vars => BudgetInv'
<1> SUFFICES ASSUME BudgetInv, [Next]_vars PROVE BudgetInv'
  OBVIOUS
<1> DEFINE Same == UNCHANGED <<bucket, clock, passes>>
<1>1. GlobalRefill \in Nat /\ GlobalBurst \in Nat /\ GlobalBurst * GlobalRefill \in Nat
  BY DdnsAssumption
<1>2. ASSUME Same PROVE BudgetInv'
  BY <1>2 DEF BudgetInv
<1>3. CASE RateLimited
  <2>1. clock' = clock /\ passes' = passes
    BY <1>3 DEF RateLimited
  <2>2. CASE bucket' = bucket
    BY <1>2, <2>1, <2>2
  <2>3. CASE bucket' = AfterBucketAllow(bucket, clock)
    <3>1. /\ bucket'.tokens \in Nat /\ bucket'.last = clock
          /\ bucket' = [tokens |-> bucket'.tokens, last |-> bucket'.last]
          /\ bucket'.tokens <= bucket.tokens + (clock - bucket.last)
      BY <2>3, BucketUse DEF BudgetInv
    <3>2. passes * GlobalRefill \in Nat
      BY <1>1 DEF BudgetInv
    <3>3. QED
      BY <1>1, <2>1, <3>1, <3>2 DEF BudgetInv
  <2>4. QED
    BY <1>3, <2>2, <2>3 DEF RateLimited
<1>4. CASE Pass
  <2>1. /\ clock' = clock /\ passes' = passes + 1
        /\ BucketAllows(bucket, clock) /\ bucket' = AfterBucketAllow(bucket, clock)
    BY <1>4 DEF Pass
  <2>2. /\ bucket'.tokens \in Nat /\ bucket'.last = clock
        /\ bucket' = [tokens |-> bucket'.tokens, last |-> bucket'.last]
        /\ bucket'.tokens + GlobalRefill <= bucket.tokens + (clock - bucket.last)
    BY <2>1, BucketUse DEF BudgetInv
  <2>3. passes * GlobalRefill \in Nat /\ (passes + 1) * GlobalRefill = passes * GlobalRefill + GlobalRefill
    BY <1>1 DEF BudgetInv
  <2>4. QED
    BY <1>1, <2>1, <2>2, <2>3 DEF BudgetInv
<1>5. CASE Crash
  <2>1. /\ bucket' = [tokens |-> GlobalBurst * GlobalRefill, last |-> clock]
        /\ clock' = clock /\ passes' = 0
    BY <1>5 DEF Crash, FullBucket
  <2>2. QED
    BY <1>1, <2>1 DEF BudgetInv
<1>6. CASE Tick
  <2>1. clock' = clock + 1 /\ bucket' = bucket /\ passes' = passes
    BY <1>6 DEF Tick, writerVars
  <2>2. QED
    BY <2>1 DEF BudgetInv
<1>7. ASSUME NEW h \in Hosts, NEW addrs \in Announced, Submit(h, addrs) PROVE BudgetInv'
  BY <1>2, <1>7, Zenon DEF Submit, writerVars
<1>8. CASE SubmitDrop \/ SubmitRetry
  BY <1>2, <1>8 DEF SubmitDrop, SubmitRetry, writerVars
<1>9. CASE Take \/ Dismiss
  BY <1>2, <1>9, Zenon DEF Take, Dismiss
<1>10. CASE ApplyCall \/ CallFails \/ Applied
  BY <1>2, <1>10 DEF ApplyCall, CallFails, Applied
<1>11. ASSUME NEW n \in Names, RefreshZone(n) PROVE BudgetInv'
  BY <1>2, <1>11 DEF RefreshZone, writerVars
<1>12. CASE UNCHANGED vars
  BY <1>2, <1>12 DEF vars, writerVars
<1>13. QED
  BY <1>3, <1>4, <1>5, <1>6, <1>7, <1>8, <1>9, <1>10, <1>11, <1>12 DEF Next

\* For every burst, refill interval and length of run, the guards of Reconcile pass at
\* most a burst and one plan per refill interval since the writer was made.
THEOREM WriteBudgetHolds == Spec => []WriteBudget
<1>1. BudgetInv => WriteBudget
  <2> SUFFICES ASSUME BudgetInv PROVE WriteBudget
    OBVIOUS
  <2>1. GlobalBurst * GlobalRefill \in Nat /\ passes * GlobalRefill \in Nat
    BY DdnsAssumption DEF BudgetInv
  <2>2. QED
    BY <2>1 DEF BudgetInv, WriteBudget
<1>2. QED
  BY <1>1, BudgetInvInit, BudgetInvNext, PTL DEF Spec

----------------------------------------------------------------------------
(* The drop-oldest queue.                                                  *)

Newest == sub.at = "idle" /\ taken < submitted => queue # <<>> /\ Last(queue).n = submitted

\* While a Submit is under way its change is newer than the queue and than what was
\* taken, and after the drop the queue has room for it: only Run touches the queue
\* meanwhile, and Run only shortens it.
QueueInv ==
    /\ queue \in Seq(Change) /\ Len(queue) <= QueueCap
    /\ submitted \in Nat /\ taken \in Nat /\ taken <= submitted
    /\ sub = IdleSub \/ sub \in [at : {"drop", "retry"}, c : Change]
    /\ sub.at # "idle" => /\ sub.c.n = submitted /\ taken < submitted
                          /\ \A i \in DOMAIN queue : queue[i].n < submitted
    /\ sub.at = "retry" => Len(queue) < QueueCap
    /\ \A i \in DOMAIN queue : queue[i].n <= submitted
    /\ \A i, j \in DOMAIN queue : i < j => queue[i].n < queue[j].n
    /\ \A i \in DOMAIN queue : taken < queue[i].n
    /\ Newest

\* A change is numbered, and so is every element of the queue.
LEMMA ChangeNumbered == \A c \in Change : c.n \in Nat
BY DEF Change

\* The elements of a queue of changes are changes.
LEMMA ElementsNumbered ==
    ASSUME NEW q \in Seq(Change)
    PROVE  \A i \in DOMAIN q : q[i] \in Change /\ q[i].n \in Nat
<1> SUFFICES ASSUME NEW i \in DOMAIN q PROVE q[i] \in Change /\ q[i].n \in Nat
  OBVIOUS
<1>1. q[i] \in Change
  OBVIOUS
<1>2. QED
  BY <1>1, ChangeNumbered

\* The order facts of QueueInv survive Tail, and the last element stays the last.
LEMMA TailOrder ==
    ASSUME NEW q \in Seq(Change), q # <<>>,
           \A i, j \in DOMAIN q : i < j => q[i].n < q[j].n
    PROVE  /\ Tail(q) \in Seq(Change) /\ Len(Tail(q)) = Len(q) - 1
           /\ \A i \in DOMAIN Tail(q) : i + 1 \in DOMAIN q /\ Tail(q)[i] = q[i + 1]
           /\ \A i, j \in DOMAIN Tail(q) : i < j => Tail(q)[i].n < Tail(q)[j].n
           /\ \A i \in DOMAIN Tail(q) : Head(q).n < Tail(q)[i].n
           /\ Tail(q) # <<>> => Last(Tail(q)) = Last(q)
           /\ Tail(q) = <<>> => Last(q) = Head(q)
           /\ Head(q) \in Change /\ Head(q) = q[1] /\ 1 \in DOMAIN q
<1>1. /\ Tail(q) \in Seq(Change) /\ Len(Tail(q)) = Len(q) - 1
      /\ \A i \in DOMAIN Tail(q) : i + 1 \in DOMAIN q /\ Tail(q)[i] = q[i + 1]
      /\ Head(q) \in Change /\ Head(q) = q[1] /\ 1 \in DOMAIN q
  OBVIOUS
<1>2. /\ \A i, j \in DOMAIN Tail(q) : i < j => Tail(q)[i].n < Tail(q)[j].n
      /\ \A i \in DOMAIN Tail(q) : Head(q).n < Tail(q)[i].n
  <2>1. ASSUME NEW i \in DOMAIN Tail(q), NEW j \in DOMAIN Tail(q), i < j
        PROVE  Tail(q)[i].n < Tail(q)[j].n
    <3>1. i + 1 \in DOMAIN q /\ j + 1 \in DOMAIN q /\ i + 1 < j + 1
      BY <1>1, <2>1
    <3>2. QED
      BY <1>1, <3>1
  <2>2. ASSUME NEW i \in DOMAIN Tail(q) PROVE Head(q).n < Tail(q)[i].n
    <3>1. i + 1 \in DOMAIN q /\ 1 < i + 1
      BY <1>1
    <3>2. QED
      BY <1>1, <3>1
  <2>3. QED
    BY <2>1, <2>2
<1>3. /\ Tail(q) # <<>> => Last(Tail(q)) = Last(q)
      /\ Tail(q) = <<>> => Last(q) = Head(q)
  BY <1>1 DEF Last
<1>4. QED
  BY <1>1, <1>2, <1>3, Zenon

\* Appending the newest change keeps the order and makes it the last.
LEMMA AppendOrder ==
    ASSUME NEW q \in Seq(Change), NEW c \in Change, NEW t \in Nat, t < c.n,
           \A i \in DOMAIN q : q[i].n < c.n /\ t < q[i].n,
           \A i, j \in DOMAIN q : i < j => q[i].n < q[j].n
    PROVE  LET r == Append(q, c) IN
           /\ r \in Seq(Change) /\ Len(r) = Len(q) + 1
           /\ \A i, j \in DOMAIN r : i < j => r[i].n < r[j].n
           /\ \A i \in DOMAIN r : r[i].n <= c.n /\ t < r[i].n
           /\ r # <<>> /\ Last(r) = c
<1> DEFINE r == Append(q, c)
<1>1. /\ r \in Seq(Change) /\ Len(r) = Len(q) + 1 /\ r # <<>>
      /\ \A i \in DOMAIN r : \/ i \in DOMAIN q /\ r[i] = q[i]
                             \/ i = Len(q) + 1 /\ r[i] = c
      /\ \A i \in DOMAIN q : i \in Nat /\ i <= Len(q)
      /\ r[Len(q) + 1] = c
  OBVIOUS
<1>2. c.n \in Nat /\ \A i \in DOMAIN q : q[i].n \in Nat
  BY ChangeNumbered, ElementsNumbered
<1> HIDE DEF r
<1>3. \A i \in DOMAIN r : r[i].n <= c.n /\ t < r[i].n
  BY <1>1, <1>2
<1>4. ASSUME NEW i \in DOMAIN r, NEW j \in DOMAIN r, i < j PROVE r[i].n < r[j].n
  <2>1. i \in DOMAIN q /\ r[i] = q[i]
    BY <1>1, <1>4
  <2>2. QED
    BY <1>1, <1>4, <2>1, Zenon
<1>5. Last(r) = c
  BY <1>1 DEF Last
<1>6. QED
  BY <1>1, <1>3, <1>4, <1>5, Zenon DEF r

\* New starts with an empty queue.
LEMMA QueueInvInit == Init => QueueInv
BY DdnsAssumption DEF Init, QueueInv, Newest, IdleSub

\* Every step of Submit, Run and the environment keeps QueueInv.
LEMMA QueueInvNext == QueueInv /\ [Next]_vars => QueueInv'
<1> SUFFICES ASSUME QueueInv, [Next]_vars PROVE QueueInv'
  OBVIOUS
<1> DEFINE Same == UNCHANGED <<queue, sub, submitted, taken>>
<1>a. QueueCap \in Nat \ {0}
  BY DdnsAssumption
<1>b. \A i \in DOMAIN queue : queue[i] \in Change /\ queue[i].n \in Nat
  BY ElementsNumbered, Zenon DEF QueueInv
<1>1. ASSUME Same PROVE QueueInv'
  BY <1>1, Zenon DEF QueueInv, Newest
<1>2. ASSUME NEW h \in Hosts, NEW addrs \in Announced, Submit(h, addrs) PROVE QueueInv'
  <2> DEFINE c == [host |-> h, addrs |-> addrs, n |-> submitted + 1]
  <2>1. c \in Change /\ c.n = submitted + 1
    BY <1>2, DdnsAssumption DEF QueueInv, Change
  <2>2. sub.at = "idle" /\ submitted' = submitted + 1 /\ taken' = taken
    BY <1>2, Zenon DEF Submit, writerVars
  <2>3. CASE Len(queue) < QueueCap /\ queue' = Append(queue, c) /\ sub' = sub
    <3> HIDE DEF c
    <3>1. \A i \in DOMAIN queue : queue[i].n < c.n /\ taken < queue[i].n
      BY <1>b, <2>1 DEF QueueInv
    <3>2. taken < c.n
      BY <2>1 DEF QueueInv
    <3>3. /\ queue' \in Seq(Change) /\ Len(queue') = Len(queue) + 1
          /\ \A i, j \in DOMAIN queue' : i < j => queue'[i].n < queue'[j].n
          /\ \A i \in DOMAIN queue' : queue'[i].n <= c.n /\ taken < queue'[i].n
          /\ queue' # <<>> /\ Last(queue') = c
      BY <2>1, <2>3, <3>1, <3>2, AppendOrder, Zenon DEF QueueInv
    <3>4. QED
      BY <1>a, <2>1, <2>2, <2>3, <3>3 DEF QueueInv, Newest
  <2>4. CASE Len(queue) = QueueCap /\ queue' = queue /\ sub' = [at |-> "drop", c |-> c]
    <3>1. sub' \in [at : {"drop", "retry"}, c : Change] /\ sub'.at = "drop" /\ sub'.c.n = submitted + 1
      BY <2>1, <2>4, Zenon
    <3> HIDE DEF c
    <3>2. \A i \in DOMAIN queue : queue[i].n < submitted + 1
      BY <1>b DEF QueueInv
    <3>3. QED
      BY <1>b, <2>2, <2>4, <3>1, <3>2 DEF QueueInv, Newest
  <2>5. QED
    BY <1>2, <2>3, <2>4, Zenon DEF Submit
<1>3. CASE SubmitDrop
  <2>1. /\ sub.at = "drop" /\ sub' = [sub EXCEPT !.at = "retry"]
        /\ submitted' = submitted /\ taken' = taken
        /\ queue' = IF queue = <<>> THEN queue ELSE Tail(queue)
    BY <1>3 DEF SubmitDrop, writerVars
  <2>2. /\ sub' \in [at : {"drop", "retry"}, c : Change] /\ sub'.at = "retry"
        /\ sub'.c = sub.c
    BY <2>1 DEF QueueInv, IdleSub
  <2>3. CASE queue = <<>>
    BY <1>a, <2>1, <2>2, <2>3 DEF QueueInv, Newest
  <2>4. CASE queue # <<>>
    <3>1. /\ queue' \in Seq(Change) /\ Len(queue') = Len(queue) - 1
          /\ \A i \in DOMAIN queue' : i + 1 \in DOMAIN queue /\ queue'[i] = queue[i + 1]
          /\ \A i, j \in DOMAIN queue' : i < j => queue'[i].n < queue'[j].n
      BY <2>1, <2>4, TailOrder, Zenon DEF QueueInv
    <3>2. Len(queue') < QueueCap /\ Len(queue') <= QueueCap
      BY <1>a, <3>1 DEF QueueInv
    <3>3. QED
      BY <2>1, <2>2, <3>1, <3>2 DEF QueueInv, Newest
  <2>5. QED
    BY <2>3, <2>4
<1>4. CASE SubmitRetry
  <2>1. /\ sub.at = "retry" /\ sub' = IdleSub /\ sub.c \in Change /\ sub.c.n = submitted
        /\ submitted' = submitted /\ taken' = taken /\ queue' = Append(queue, sub.c)
    BY <1>4 DEF SubmitRetry, writerVars, QueueInv, IdleSub
  <2>2. /\ queue' \in Seq(Change) /\ Len(queue') = Len(queue) + 1
        /\ \A i, j \in DOMAIN queue' : i < j => queue'[i].n < queue'[j].n
        /\ \A i \in DOMAIN queue' : queue'[i].n <= sub.c.n /\ taken < queue'[i].n
        /\ queue' # <<>> /\ Last(queue') = sub.c
    BY <2>1, AppendOrder DEF QueueInv
  <2>3. Len(queue') <= QueueCap
    BY <1>a, <2>1, <2>2 DEF QueueInv
  <2>4. QED
    BY <2>1, <2>2, <2>3, Zenon DEF QueueInv, Newest, IdleSub
<1>5. CASE Take
  <2>1. /\ queue # <<>> /\ queue' = Tail(queue) /\ taken' = Head(queue).n
        /\ sub' = sub /\ submitted' = submitted
    BY <1>5, Zenon DEF Take
  <2>2. /\ queue' \in Seq(Change) /\ Len(queue') = Len(queue) - 1
        /\ \A i \in DOMAIN queue' : i + 1 \in DOMAIN queue /\ queue'[i] = queue[i + 1]
        /\ \A i, j \in DOMAIN queue' : i < j => queue'[i].n < queue'[j].n
        /\ \A i \in DOMAIN queue' : taken' < queue'[i].n
        /\ queue' # <<>> => Last(queue') = Last(queue)
        /\ queue' = <<>> => Last(queue) = Head(queue)
        /\ Head(queue) = queue[1] /\ 1 \in DOMAIN queue
    BY <2>1, TailOrder, Zenon DEF QueueInv
  <2>3. /\ taken' \in Nat /\ taken' <= submitted
        /\ sub.at # "idle" => taken' < submitted
    BY <1>b, <2>1, <2>2, Zenon DEF QueueInv
  <2>4. Len(queue') <= QueueCap /\ (sub.at = "retry" => Len(queue') < QueueCap)
    BY <1>a, <2>2 DEF QueueInv
  <2>5. /\ \A i \in DOMAIN queue' : queue'[i].n <= submitted
        /\ sub.at # "idle" => \A i \in DOMAIN queue' : queue'[i].n < submitted
    BY <2>2 DEF QueueInv
  <2>6. Newest'
    <3>1. SUFFICES ASSUME sub.at = "idle", taken' < submitted
                   PROVE  queue' # <<>> /\ Last(queue').n = submitted
      BY <2>1 DEF Newest
    <3>2. taken < submitted
      BY <1>b, <2>1, <2>2, <3>1 DEF QueueInv
    <3>3. Last(queue).n = submitted
      BY <3>1, <3>2, Zenon DEF QueueInv, Newest
    <3>4. queue' # <<>>
      BY <2>1, <2>2, <3>1, <3>3 DEF QueueInv
    <3>5. QED
      BY <2>2, <3>3, <3>4
  <2>7. QED
    BY <2>1, <2>2, <2>3, <2>4, <2>5, <2>6, Zenon DEF QueueInv
<1>6. CASE Crash
  <2>1. queue' = <<>> /\ sub' = IdleSub /\ taken' = submitted /\ submitted' = submitted
    BY <1>6, Zenon DEF Crash
  <2>2. QED
    BY <1>a, <2>1 DEF QueueInv, Newest, IdleSub
<1>7. CASE Dismiss \/ RateLimited \/ Pass
  BY <1>1, <1>7, Zenon DEF Dismiss, RateLimited, Pass
<1>8. CASE ApplyCall \/ CallFails \/ Applied
  BY <1>1, <1>8 DEF ApplyCall, CallFails, Applied
<1>9. CASE Tick
  BY <1>1, <1>9 DEF Tick, writerVars
<1>10. ASSUME NEW n \in Names, RefreshZone(n) PROVE QueueInv'
  BY <1>1, <1>10 DEF RefreshZone, writerVars
<1>11. CASE UNCHANGED vars
  BY <1>1, <1>11, Zenon DEF vars, writerVars
<1>12. QED
  BY <1>2, <1>3, <1>4, <1>5, <1>6, <1>7, <1>8, <1>9, <1>10, <1>11, Zenon DEF Next

\* For every capacity of the channel, Submit's drop-oldest keeps the announcements in
\* order and never loses the newest, whatever Run receives between its operations.
THEOREM NewestKeptHolds == Spec => []NewestKept
<1>1. QueueInv => NewestKept
  BY Zenon DEF QueueInv, NewestKept, Newest
<1>2. QED
  BY <1>1, QueueInvInit, QueueInvNext, PTL DEF Spec

----------------------------------------------------------------------------
(* What is written to Cloudflare.                                          *)

OpKinds == {"update", "create", "delete"}
Op == [do : OpKinds, id : Nat, name : Names, addr : Addrs]

\* A planned call is within the guards.  An update names a record by its ID only: the
\* record that has the ID, in the snapshot or by now, has the name the plan was made for.
OpOK(op) ==
    /\ op.name \in Eligible
    /\ op.do # "delete" => op.addr \in Public
    /\ op.do = "update" => /\ op.id < nextId
                           /\ \A r \in cf \cup mirror : r.id = op.id => r.name = op.name

\* Cloudflare never gives an ID out again, so an ID has one name for good.
IdsInv ==
    /\ cf \subseteq Record /\ IsFiniteSet(cf) /\ mirror \subseteq Record /\ IsFiniteSet(mirror)
    /\ nextId \in Nat
    /\ \A r \in cf \cup mirror : r.id < nextId
    /\ \A r, s \in cf \cup mirror : r.id = s.id => r.name = s.name

PlanInv ==
    wr.at = "apply" =>
       /\ wr = [at |-> "apply", c |-> wr.c, ops |-> wr.ops, fresh |-> wr.fresh]
       /\ wr.ops \in Seq(Op) /\ \A i \in DOMAIN wr.ops : OpOK(wr.ops[i])

\* Records and calls are numbered.
LEMMA Numbered ==
    /\ \A r \in Record : r.id \in Nat /\ r.name \in Names /\ r.addr \in Addrs
    /\ \A op \in Op : op.id \in Nat /\ op.name \in Names /\ op.addr \in Addrs
BY DEF Record, Op

\* One call: the records that are new are within the guards, and every other record keeps
\* its ID and its name.
LEMMA CallGuarded ==
    ASSUME IdsInv, NEW op \in Op, OpOK(op), Carried(op)
    PROVE  /\ cf' \subseteq Record /\ IsFiniteSet(cf') /\ nextId' \in Nat /\ nextId <= nextId'
           /\ \A r \in cf' : \/ \E s \in cf : s.id = r.id /\ s.name = r.name
                             \/ r.id = nextId /\ nextId' = nextId + 1 /\ r.name = op.name
           /\ \A r \in cf' \ cf : r.name \in Eligible /\ r.addr \in Public
<1>0. /\ nextId \in Nat /\ cf \subseteq Record /\ IsFiniteSet(cf)
      /\ op.name \in Names /\ op.addr \in Addrs /\ op.do \in OpKinds
  BY Numbered DEF IdsInv, Op
<1>1. CASE op.do = "create"
  <2> DEFINE new == [id |-> nextId, name |-> op.name, addr |-> op.addr]
  <2>1. cf' = cf \cup {new} /\ nextId' = nextId + 1
    BY <1>1 DEF Carried
  <2>2. new \in Record /\ new.id = nextId /\ new.name = op.name /\ new.addr = op.addr
    BY <1>0 DEF Record
  <2> HIDE DEF new
  <2>3. IsFiniteSet(cf')
    BY <1>0, <2>1, FS_AddElement
  <2> QED
    BY <1>0, <1>1, <2>1, <2>2, <2>3 DEF OpOK
<1>2. CASE op.do = "update"
  <2> DEFINE F(r) == IF r.id = op.id THEN [r EXCEPT !.addr = op.addr] ELSE r
  <2>1. cf' = {F(r) : r \in cf} /\ nextId' = nextId
    BY <1>2 DEF Carried
  <2>2. ASSUME NEW r \in cf
        PROVE  /\ F(r) \in Record /\ F(r).id = r.id /\ F(r).name = r.name
               /\ F(r) = r \/ (r.id = op.id /\ F(r).addr = op.addr)
    <3>1. r \in Record
      BY <1>0
    <3>2. LET x == [r EXCEPT !.addr = op.addr] IN
          x \in Record /\ x.id = r.id /\ x.name = r.name /\ x.addr = op.addr
      BY <1>0, <3>1 DEF Record
    <3> QED
      BY <3>1, <3>2
  <2> HIDE DEF F
  <2>3. IsFiniteSet(cf')
    <3> DEFINE f == [r \in cf |-> F(r)]
    <3>1. f \in Surjection(cf, cf')
      BY <2>1 DEF Surjection
    <3> HIDE DEF f
    <3> QED
      BY <1>0, <3>1, FS_Surjection
  <2>4. \A r \in cf' \ cf : r.name \in Eligible /\ r.addr \in Public
    <3> SUFFICES ASSUME NEW x \in cf' \ cf PROVE x.name \in Eligible /\ x.addr \in Public
      OBVIOUS
    <3>1. PICK r \in cf : x = F(r)
      BY <2>1
    <3>2. r.id = op.id /\ x.addr = op.addr /\ x.name = r.name
      BY <2>2, <3>1
    <3> QED
      BY <1>2, <3>2 DEF OpOK
  <2> QED
    BY <1>0, <2>1, <2>2, <2>3, <2>4
<1>3. CASE op.do = "delete"
  <2>1. cf' = {r \in cf : r.id # op.id} /\ nextId' = nextId
    BY <1>3 DEF Carried
  <2>2. IsFiniteSet(cf')
    BY <1>0, <2>1, FS_Subset
  <2> QED
    BY <1>0, <2>1, <2>2
<1> QED
  BY <1>0, <1>1, <1>2, <1>3 DEF OpKinds

\* A call keeps IdsInv, and the rest of the plan stays within the guards.
LEMMA CallKeepsIds ==
    ASSUME IdsInv, NEW op \in Op, OpOK(op), Carried(op), mirror' = mirror
    PROVE  IdsInv' /\ \A o \in Op : OpOK(o) => OpOK(o)'
<1>1. /\ cf' \subseteq Record /\ IsFiniteSet(cf') /\ nextId' \in Nat /\ nextId <= nextId'
      /\ \A r \in cf' : \/ \E s \in cf : s.id = r.id /\ s.name = r.name
                        \/ r.id = nextId /\ nextId' = nextId + 1 /\ r.name = op.name
  BY CallGuarded
<1>2. /\ nextId \in Nat
      /\ \A r \in cf \cup mirror : r.id \in Nat /\ r.id < nextId
      /\ \A r, s \in cf \cup mirror : r.id = s.id => r.name = s.name
  BY Numbered DEF IdsInv
<1>3. \A r \in cf' \cup mirror :
         \/ \E s \in cf \cup mirror : s.id = r.id /\ s.name = r.name
         \/ r.id = nextId /\ nextId' = nextId + 1 /\ r.name = op.name
  BY <1>1
<1>4. \A r \in cf' \cup mirror : r.id < nextId'
  BY <1>1, <1>2, <1>3
<1>5. \A r, s \in cf' \cup mirror : r.id = s.id => r.name = s.name
  BY <1>2, <1>3
<1>6. IdsInv'
  BY <1>1, <1>4, <1>5 DEF IdsInv
<1>7. ASSUME NEW o \in Op, OpOK(o) PROVE OpOK(o)'
  <2>1. o.id \in Nat
    BY Numbered
  <2>2. o.do = "update" => o.id < nextId' /\ o.id < nextId
    BY <1>1, <1>2, <1>7, <2>1 DEF OpOK
  <2>3. o.do = "update" => \A r \in cf' \cup mirror : r.id = o.id => r.name = o.name
    BY <1>2, <1>3, <1>7, <2>1, <2>2 DEF OpOK
  <2> QED
    BY <1>7, <2>2, <2>3 DEF OpOK
<1> QED
  BY <1>6, <1>7

\* A sorted enumeration of a finite set is a sequence of its elements.
LEMMA Enumerated ==
    ASSUME NEW S, IsFiniteSet(S), NEW s \in SetToSeqs(S)
    PROVE  s \in Seq(S)
<1>1. Cardinality(S) \in Nat
  BY FS_CardinalityType
<1>2. s \in [1 .. Cardinality(S) -> S]
  BY DEF SetToSeqs
<1> QED
  BY <1>1, <1>2

\* buildPlan: all that is planned for eligible records and public addresses is within the
\* guards, whichever order and first record it picks.
LEMMA PlanGuarded ==
    ASSUME IdsInv, NEW recs, recs \subseteq mirror, \A r \in recs : r.name \in Eligible,
           NEW want, want \subseteq Public, NEW ops \in BuildPlan(recs, want)
    PROVE  ops \in Seq(Op) /\ \A i \in DOMAIN ops : OpOK(ops[i])
<1> DEFINE G == {op \in Op : OpOK(op)}
<1>1. PICK a4 \in Added(recs, want, V4), d4 \in Deleted(recs, want, V4),
           a6 \in Added(recs, want, V6), d6 \in Deleted(recs, want, V6), r0 \in recs :
         ops = Plan(a4, d4, a6, d6, r0)
  BY DEF BuildPlan
<1>2. IsFiniteSet(want) /\ IsFiniteSet(recs) /\ Public \subseteq Addrs
  <2>1. want \subseteq Addrs /\ IsFiniteSet(Addrs) /\ Public \subseteq Addrs
    BY DdnsAssumption
  <2> QED
    BY <2>1, FS_Subset DEF IdsInv
<1>3. ASSUME NEW family, NEW a \in Added(recs, want, family) PROVE a \in Seq(want)
  <2> DEFINE S == (want \ Contents(recs)) \cap family
  <2>1. S \subseteq want /\ a \in SetToSeqs(S)
    BY <1>3 DEF Added
  <2> HIDE DEF S
  <2>2. a \in Seq(S)
    BY <1>2, <2>1, FS_Subset, Enumerated
  <2> QED
    BY <2>1, <2>2
<1>4. ASSUME NEW family, NEW d \in Deleted(recs, want, family) PROVE d \in Seq(recs)
  <2> DEFINE S == {r \in recs : r.addr \in family \ want}
  <2>1. S \subseteq recs /\ d \in SetToSeqs(S)
    BY <1>4 DEF Deleted
  <2> HIDE DEF S
  <2>2. d \in Seq(S)
    BY <1>2, <2>1, FS_Subset, Enumerated
  <2> QED
    BY <2>1, <2>2
<1>5. ASSUME NEW r \in recs, NEW a \in want
      PROVE  Update(r, a) \in G /\ Create(r, a) \in G /\ Delete(r) \in G
  <2>1. /\ r.id \in Nat /\ r.name \in Names /\ r.addr \in Addrs /\ a \in Addrs /\ a \in Public
        /\ r.id < nextId /\ r.name \in Eligible
        /\ \A s \in cf \cup mirror : s.id = r.id => s.name = r.name
    BY <1>2, Numbered DEF IdsInv
  <2>2. Update(r, a) \in Op /\ Create(r, a) \in Op /\ Delete(r) \in Op
    BY <2>1 DEF Update, Create, Delete, Op, OpKinds
  <2>3. OpOK(Update(r, a)) /\ OpOK(Create(r, a)) /\ OpOK(Delete(r))
    BY <2>1 DEF Update, Create, Delete, OpOK
  <2> QED
    BY <2>2, <2>3
<1>6. ASSUME NEW r \in recs PROVE Delete(r) \in G
  <2>1. /\ r.id \in Nat /\ r.name \in Names /\ r.addr \in Addrs /\ r.name \in Eligible
    BY Numbered DEF IdsInv
  <2>2. Delete(r) \in Op
    BY <2>1 DEF Delete, Op, OpKinds
  <2>3. OpOK(Delete(r))
    BY <2>1 DEF Delete, OpOK
  <2> QED
    BY <2>2, <2>3
<1> HIDE DEF G
<1>7. ASSUME NEW a \in Seq(want), NEW d \in Seq(recs)
      PROVE  Edits(a, d) \in Seq(G) /\ Creates(a, d, r0) \in Seq(G) /\ Deletes(a, d) \in Seq(G)
  <2>1. /\ Len(a) \in Nat /\ Len(d) \in Nat /\ Paired(a, d) \in Nat
        /\ Paired(a, d) <= Len(a) /\ Paired(a, d) <= Len(d)
    BY DEF Paired, Less
  <2>2. /\ \A i \in 1 .. Len(a) : a[i] \in want
        /\ \A i \in 1 .. Len(d) : d[i] \in recs
    OBVIOUS
  <2> DEFINE n == Paired(a, d)
  <2> HIDE DEF n
  <2>3. Edits(a, d) \in Seq(G)
    <3>1. \A i \in 1 .. n : Update(d[i], a[i]) \in G
      BY <1>5, <2>1, <2>2 DEF n
    <3>2. n \in Nat /\ Edits(a, d) = [i \in 1 .. n |-> Update(d[i], a[i])]
      BY <2>1 DEF Edits, n
    <3> QED
      BY <3>1, <3>2
  <2>4. Creates(a, d, r0) \in Seq(G)
    <3>1. \A i \in 1 .. (Len(a) - n) : Create(r0, a[n + i]) \in G
      BY <1>5, <2>1, <2>2 DEF n
    <3>2. Len(a) - n \in Nat
          /\ Creates(a, d, r0) = [i \in 1 .. (Len(a) - n) |-> Create(r0, a[n + i])]
      BY <2>1 DEF Creates, n
    <3> QED
      BY <3>1, <3>2
  <2>5. Deletes(a, d) \in Seq(G)
    <3>1. \A i \in 1 .. (Len(d) - n) : Delete(d[n + i]) \in G
      BY <1>6, <2>1, <2>2 DEF n
    <3>2. Len(d) - n \in Nat
          /\ Deletes(a, d) = [i \in 1 .. (Len(d) - n) |-> Delete(d[n + i])]
      BY <2>1 DEF Deletes, n
    <3> QED
      BY <3>1, <3>2
  <2> QED
    BY <2>3, <2>4, <2>5
<1>8. /\ Edits(a4, d4) \in Seq(G) /\ Creates(a4, d4, r0) \in Seq(G) /\ Deletes(a4, d4) \in Seq(G)
      /\ Edits(a6, d6) \in Seq(G) /\ Creates(a6, d6, r0) \in Seq(G) /\ Deletes(a6, d6) \in Seq(G)
  BY <1>3, <1>4, <1>7
<1>9. ops \in Seq(G)
  BY <1>1, <1>8 DEF Plan
<1>10. G \subseteq Op /\ \A op \in G : OpOK(op)
  BY DEF G
<1> QED
  BY <1>9, <1>10

\* The start, and what Cloudflare had before it.
LEMMA GuardInit == Init => IdsInv /\ PlanInv
BY FirstRecordsAssumption DEF Init, IdsInv, PlanInv, IdleWr

\* The calls of a plan are carried out with OpOK, whatever happens between them.
LEMMA HeadOK ==
    ASSUME PlanInv, wr.at = "apply", wr.ops # <<>>
    PROVE  /\ Head(wr.ops) \in Op /\ OpOK(Head(wr.ops)) /\ Tail(wr.ops) \in Seq(Op)
           /\ \A i \in DOMAIN Tail(wr.ops) : OpOK(Tail(wr.ops)[i]) /\ Tail(wr.ops)[i] \in Op
<1> DEFINE ops == wr.ops
<1>1. ops \in Seq(Op) /\ ops # <<>> /\ \A i \in DOMAIN ops : OpOK(ops[i])
  BY DEF PlanInv
<1> HIDE DEF ops
<1>2. /\ Head(ops) \in Op /\ Tail(ops) \in Seq(Op) /\ 1 \in DOMAIN ops /\ Head(ops) = ops[1]
      /\ \A i \in DOMAIN Tail(ops) : i + 1 \in DOMAIN ops /\ Tail(ops)[i] = ops[i + 1]
                                       /\ Tail(ops)[i] \in Op
  BY <1>1
<1> QED
  BY <1>1, <1>2 DEF ops

\* Every step keeps IdsInv and PlanInv; a refresh shows records that Cloudflare has.
LEMMA GuardStep ==
    ASSUME IdsInv, PlanInv, [Next]_vars
    PROVE  IdsInv' /\ PlanInv' /\ \A r \in cf' \ cf : r.name \in Eligible /\ r.addr \in Public
<1>1. ASSUME UNCHANGED <<wr, cf, nextId, mirror>>
      PROVE  IdsInv' /\ PlanInv' /\ \A r \in cf' \ cf : r.name \in Eligible /\ r.addr \in Public
  BY <1>1 DEF IdsInv, PlanInv, OpOK
<1>2. ASSUME UNCHANGED <<cf, nextId, mirror>>, wr'.at # "apply"
      PROVE  IdsInv' /\ PlanInv' /\ \A r \in cf' \ cf : r.name \in Eligible /\ r.addr \in Public
  BY <1>2 DEF IdsInv, PlanInv
<1>3. CASE Pass
  <2>1. UNCHANGED <<cf, nextId, mirror>>
    BY <1>3 DEF Pass, cfVars
  <2>2. CASE DryRun \/ Eligible = {}
    BY <1>2, <1>3, <2>1, <2>2 DEF Pass, IdleWr
  <2>3. CASE ~(DryRun \/ Eligible = {})
    <3>1. PICK ops \in BuildPlan(Records, Desired(wr.c)) :
             wr' = [at |-> "apply", c |-> wr.c, ops |-> ops,
                    fresh |-> Records = RecordsForHost(cf, wr.c.host)]
      BY <1>3, <2>3 DEF Pass
    <3>2. /\ Records \subseteq mirror /\ \A r \in Records : r.name \in Eligible
          /\ Desired(wr.c) \subseteq Public
      BY <2>3 DEF Records, RecordsForHost, Desired
    <3>3. ops \in Seq(Op) /\ \A i \in DOMAIN ops : OpOK(ops[i])
      BY <3>1, <3>2, PlanGuarded
    <3>4. /\ wr'.ops = ops
          /\ wr' = [at |-> "apply", c |-> wr'.c, ops |-> wr'.ops, fresh |-> wr'.fresh]
      BY <3>1
    <3>5. \A op : OpOK(op) => OpOK(op)'
      BY <2>1 DEF OpOK
    <3> QED
      BY <2>1, <3>3, <3>4, <3>5 DEF IdsInv, PlanInv
  <2> QED
    BY <2>2, <2>3
<1>4. CASE ApplyCall
  <2>1. /\ wr.at = "apply" /\ wr.ops # <<>> /\ Carried(Head(wr.ops)) /\ mirror' = mirror
        /\ wr' = [wr EXCEPT !.ops = Tail(wr.ops)]
    BY <1>4 DEF ApplyCall
  <2>2. /\ Head(wr.ops) \in Op /\ OpOK(Head(wr.ops)) /\ Tail(wr.ops) \in Seq(Op)
        /\ \A i \in DOMAIN Tail(wr.ops) : OpOK(Tail(wr.ops)[i]) /\ Tail(wr.ops)[i] \in Op
    BY <2>1, HeadOK
  <2>3. IdsInv' /\ \A o \in Op : OpOK(o) => OpOK(o)'
    BY <2>1, <2>2, CallKeepsIds
  <2>4. /\ wr'.ops = Tail(wr.ops)
        /\ wr' = [at |-> "apply", c |-> wr'.c, ops |-> wr'.ops, fresh |-> wr'.fresh]
    BY <2>1 DEF PlanInv
  <2>5. PlanInv'
    BY <2>2, <2>3, <2>4 DEF PlanInv
  <2>6. \A r \in cf' \ cf : r.name \in Eligible /\ r.addr \in Public
    BY <2>1, <2>2, CallGuarded
  <2> QED
    BY <2>3, <2>5, <2>6
<1>5. CASE CallFails
  <2>1. wr.at = "apply" /\ wr.ops # <<>> /\ mirror' = mirror /\ wr'.at # "apply"
    BY <1>5 DEF CallFails, IdleWr
  <2>2. CASE UNCHANGED <<cf, nextId>>
    BY <1>2, <2>1, <2>2
  <2>3. CASE Carried(Head(wr.ops))
    <3>1. Head(wr.ops) \in Op /\ OpOK(Head(wr.ops))
      BY <2>1, HeadOK
    <3>2. IdsInv' /\ PlanInv'
      BY <2>1, <2>3, <3>1, CallKeepsIds DEF PlanInv
    <3>3. \A r \in cf' \ cf : r.name \in Eligible /\ r.addr \in Public
      BY <2>3, <3>1, CallGuarded
    <3> QED
      BY <3>2, <3>3
  <2> QED
    BY <1>5, <2>2, <2>3 DEF CallFails, cfVars
<1>6. ASSUME NEW n \in Names, RefreshZone(n)
      PROVE  IdsInv' /\ PlanInv' /\ \A r \in cf' \ cf : r.name \in Eligible /\ r.addr \in Public
  <2>1. /\ UNCHANGED <<wr, cf, nextId>>
        /\ mirror' = {r \in mirror : r.name # n} \cup {r \in cf : r.name = n}
    BY <1>6 DEF RefreshZone, writerVars, cfVars
  <2>2. IsFiniteSet({r \in mirror : r.name # n}) /\ IsFiniteSet({r \in cf : r.name = n})
    BY FS_Subset DEF IdsInv
  <2>3. IsFiniteSet(mirror') /\ mirror' \subseteq cf \cup mirror
    BY <2>1, <2>2, FS_Union
  <2>4. IdsInv'
    BY <2>1, <2>3 DEF IdsInv
  <2>5. \A op : OpOK(op) => OpOK(op)'
    BY <2>1, <2>3 DEF OpOK
  <2> QED
    BY <2>1, <2>4, <2>5 DEF PlanInv
<1>7. ASSUME NEW h \in Hosts, NEW addrs \in Announced, Submit(h, addrs)
      PROVE  IdsInv' /\ PlanInv' /\ \A r \in cf' \ cf : r.name \in Eligible /\ r.addr \in Public
  <2>1. UNCHANGED <<wr, cf, nextId, mirror>>
    BY <1>7, Zenon DEF Submit, writerVars, cfVars
  <2> QED
    BY <1>1, <2>1
<1>8. CASE SubmitDrop \/ SubmitRetry \/ Tick \/ UNCHANGED vars
  BY <1>1, <1>8 DEF SubmitDrop, SubmitRetry, Tick, vars, writerVars, cfVars
<1>9. CASE Take \/ Dismiss \/ RateLimited \/ Applied \/ Crash
  <2>1. UNCHANGED <<cf, nextId, mirror>> /\ wr'.at # "apply"
    BY <1>9 DEF Take, Dismiss, RateLimited, Applied, Crash, cfVars, IdleWr
  <2> QED
    BY <1>2, <2>1
<1> QED
  BY <1>3, <1>4, <1>5, <1>6, <1>7, <1>8, <1>9 DEF Next

\* Reconcile writes eligible names and public addresses only, for every configuration and
\* announcement: also when the snapshot is older than the records, since an update goes by
\* a record's ID and Cloudflare has no second use of one.
THEOREM GuardedWritesHolds == Spec => GuardedWrites
<1>1. IdsInv /\ PlanInv /\ [Next]_vars => (IdsInv /\ PlanInv)'
  BY GuardStep
<1>2. IdsInv /\ PlanInv /\ [Next]_vars
        => [\A r \in cf' \ cf : r.name \in Eligible /\ r.addr \in Public]_vars
  BY GuardStep
<1> QED
  BY <1>1, <1>2, GuardInit, PTL DEF Spec, GuardedWrites

----------------------------------------------------------------------------
(* The verifier of signed announcements.                                   *)

LoopType ==
    [pc : {"idle", "checked", "timed"}, id : Ids \cup {Resting.id}, checked : Nat, now : Nat, nowPart : Nat]

SigTypes ==
    /\ sec \in Nat /\ part \in Nat /\ signed \subseteq Ids /\ kept \subseteq Ids
    /\ stamp \in [Ids -> Int] /\ lead \in [Ids -> Int]
    /\ seen \in [Ids -> Int] /\ seenPart \in [Ids -> Nat]
    /\ loop \in [Loops -> LoopType]

\* Of a loop: its packet was in the window when it was checked, and its clock is not
\* ahead of the resolver's.
Checked(l) ==
    /\ loop[l].pc # "idle" =>
          /\ loop[l].id \in signed /\ loop[l].checked <= sec
          /\ loop[l].checked - stamp[loop[l].id] <= Fudge
    /\ loop[l].pc = "timed" => loop[l].checked <= loop[l].now /\ loop[l].now <= sec

\* Of a packet: the second of the check that let it pass.
CheckedAt(i) == stamp[i] - lead[i]

\* Of a packet: a MAC that was recorded is in the set, with a time not before its check, or
\* twice the fudge has passed since that check.
Remembered(i) ==
    i \in kept =>
       /\ i \in signed
       /\ \/ seen[i] # -1 /\ seen[i] >= CheckedAt(i)
          \/ sec >= CheckedAt(i) + 2 * Fudge

OnceInv == SigTypes /\ (\A l \in Loops : Checked(l)) /\ \A i \in Ids : Remembered(i)

\* The retention is twice the fudge at least.
LEMMA RetainEnough == Retain \in Nat /\ Retain >= 2 * Fudge
BY SigAssumption DEF Retain

\* OnceInv holds at the start: NewSigVerifier has an empty set.
LEMMA OnceInit == SInit => OnceInv
<1> SUFFICES ASSUME SInit PROVE OnceInv
  OBVIOUS
<1>1. Resting \in LoopType /\ Resting.pc = "idle"
  BY DEF Resting, LoopType
<1>2. loop = [l \in Loops |-> Resting]
  BY DEF SInit
<1>3. SigTypes
  BY <1>1, <1>2 DEF SInit, SigTypes
<1>4. \A l \in Loops : Checked(l)
  BY <1>1, <1>2 DEF Checked
<1> QED
  BY <1>3, <1>4 DEF OnceInv, Remembered, SInit

\* The prune of freshMAC forgets a recorded MAC only when twice the fudge has passed since
\* the check of its packet.
LEMMA PruneLate ==
    ASSUME OnceInv, NEW l \in Loops, loop[l].pc = "timed", NEW i \in Ids, i \in kept
    PROVE  \/ Pruned(l)[i] # -1 /\ Pruned(l)[i] >= CheckedAt(i)
           \/ sec >= CheckedAt(i) + 2 * Fudge
<1>1. /\ sec \in Nat /\ seen[i] \in Int /\ stamp[i] \in Int /\ lead[i] \in Int /\ loop[l].now \in Nat
      /\ loop[l].now <= sec
  BY DEF OnceInv, SigTypes, LoopType, Checked
<1>2. \/ seen[i] # -1 /\ seen[i] >= CheckedAt(i)
      \/ sec >= CheckedAt(i) + 2 * Fudge
  BY DEF OnceInv, Remembered
<1>3. Expired(l, i) => loop[l].now - seen[i] >= Retain
  BY <1>1, RetainEnough DEF Expired
<1>4. Pruned(l)[i] = IF Expired(l, i) THEN -1 ELSE seen[i]
  BY DEF Pruned
<1> QED
  BY <1>1, <1>2, <1>3, <1>4, RetainEnough, SigAssumption DEF CheckedAt

\* A loop that takes its next step within Verify, and others that stay where they are.
LEMMA LoopMove ==
    ASSUME OnceInv, NEW l \in Loops, NEW v \in LoopType, loop' = [loop EXCEPT ![l] = v],
           UNCHANGED <<sec, signed, stamp>>,
           v.pc # "idle" =>
             /\ v.id \in signed /\ v.checked <= sec /\ v.checked - stamp[v.id] <= Fudge,
           v.pc = "timed" => v.checked <= v.now /\ v.now <= sec
    PROVE  loop' \in [Loops -> LoopType] /\ \A k \in Loops : Checked(k)'
<1>1. loop' \in [Loops -> LoopType] /\ \A k \in Loops : loop'[k] = IF k = l THEN v ELSE loop[k]
  BY DEF OnceInv, SigTypes
<1>2. ASSUME NEW k \in Loops PROVE Checked(k)'
  <2>1. CASE k = l
    BY <1>1, <2>1 DEF Checked
  <2>2. CASE k # l
    BY <1>1, <2>2 DEF OnceInv, Checked
  <2> QED
    BY <2>1, <2>2
<1> QED
  BY <1>1, <1>2

\* freshMAC, whichever its verdict, leaves the other packets remembered.
LEMMA GradeKeeps ==
    ASSUME OnceInv, NEW l \in Loops, FreshMAC(l) \/ Replayed(l)
    PROVE  OnceInv'
<1> DEFINE id == loop[l].id
<1>1. /\ loop[l].pc = "timed" /\ loop' = [loop EXCEPT ![l] = Resting]
      /\ UNCHANGED <<sec, part, signed, stamp>>
  BY DEF FreshMAC, Replayed, Done
<1>2. loop' \in [Loops -> LoopType] /\ \A k \in Loops : Checked(k)'
  <2>1. Resting \in LoopType /\ Resting.pc = "idle"
    BY DEF Resting, LoopType
  <2> QED
    BY <1>1, <2>1, LoopMove
<1>3. /\ id \in signed /\ id \in Ids /\ sec \in Nat /\ loop[l].checked \in Nat /\ loop[l].now \in Nat
      /\ loop[l].nowPart \in Nat /\ loop[l].checked <= loop[l].now
      /\ \A i \in Ids : stamp[i] \in Int /\ lead[i] \in Int
  BY <1>1 DEF OnceInv, SigTypes, LoopType, Checked
<1>4. Pruned(l) \in [Ids -> Int]
  BY DEF OnceInv, SigTypes, Pruned
<1>5. \A i \in Ids : i \in kept => /\ i \in signed
                                  /\ \/ Pruned(l)[i] # -1 /\ Pruned(l)[i] >= CheckedAt(i)
                                     \/ sec >= CheckedAt(i) + 2 * Fudge
  BY <1>1, PruneLate DEF OnceInv, Remembered
<1>6. CASE UNCHANGED lead /\ seen' = Pruned(l) /\ seenPart' = seenPart /\ kept' \subseteq kept
  <2>1. SigTypes'
    BY <1>1, <1>2, <1>4, <1>6 DEF OnceInv, SigTypes
  <2>2. \A i \in Ids : Remembered(i)'
    BY <1>1, <1>5, <1>6 DEF Remembered, CheckedAt
  <2> QED
    BY <1>2, <2>1, <2>2 DEF OnceInv
<1>7. CASE /\ seen' = [Pruned(l) EXCEPT ![id] = loop[l].now]
           /\ seenPart' = [seenPart EXCEPT ![id] = loop[l].nowPart]
           /\ kept' = kept \cup {id}
           /\ lead' = [lead EXCEPT ![id] = stamp[id] - loop[l].checked]
  <2>1. SigTypes'
    BY <1>1, <1>2, <1>3, <1>4, <1>7 DEF OnceInv, SigTypes
  <2>2. ASSUME NEW i \in Ids PROVE Remembered(i)'
    <3>1. CASE i = id
      <4>1. seen'[i] = loop[l].now /\ lead'[i] = stamp[i] - loop[l].checked
        BY <1>3, <1>4, <1>7, <3>1 DEF OnceInv, SigTypes
      <4>2. stamp' = stamp /\ stamp[i] \in Int /\ loop[l].checked \in Nat
        BY <1>1, <1>3
      <4>3. CheckedAt(i)' = stamp[i] - (stamp[i] - loop[l].checked)
        BY <4>1, <4>2 DEF CheckedAt
      <4>4. CheckedAt(i)' = loop[l].checked
        BY <4>2, <4>3
      <4> QED
        BY <1>1, <1>3, <3>1, <4>1, <4>4 DEF Remembered
    <3>2. CASE i # id
      <4>1. seen'[i] = Pruned(l)[i] /\ lead'[i] = lead[i] /\ (i \in kept' <=> i \in kept)
        BY <1>4, <1>7, <3>2 DEF OnceInv, SigTypes
      <4> QED
        BY <1>1, <1>5, <4>1 DEF Remembered, CheckedAt
    <3> QED
      BY <3>1, <3>2
  <2> QED
    BY <1>2, <2>1, <2>2 DEF OnceInv
<1> QED
  BY <1>6, <1>7 DEF FreshMAC, Replayed

\* Every step keeps OnceInv; a signature is stamped before any packet carries it.
LEMMA OnceStep == OnceInv /\ [SNext]_sigVars => OnceInv'
<1> SUFFICES ASSUME OnceInv, [SNext]_sigVars PROVE OnceInv'
  OBVIOUS
<1>1. CASE STick
  <2>1. /\ sec \in Nat /\ sec' \in Nat /\ part' \in Nat /\ sec' >= sec
        /\ UNCHANGED <<signed, stamp, seen, seenPart, loop, kept, lead>>
    BY <1>1 DEF STick, OnceInv, SigTypes
  <2>2. SigTypes'
    BY <2>1 DEF OnceInv, SigTypes
  <2>3. ASSUME NEW l \in Loops PROVE Checked(l)'
    <3>1. Checked(l) /\ loop[l].checked \in Nat /\ loop[l].now \in Nat
      BY DEF OnceInv, SigTypes, LoopType
    <3> QED
      BY <2>1, <3>1 DEF Checked
  <2>4. ASSUME NEW i \in Ids PROVE Remembered(i)'
    <3>1. Remembered(i) /\ stamp[i] \in Int /\ lead[i] \in Int
      BY DEF OnceInv, SigTypes
    <3> QED
      BY <2>1, <3>1, SigAssumption DEF Remembered, CheckedAt
  <2> QED
    BY <2>2, <2>3, <2>4 DEF OnceInv
<1>2. ASSUME NEW id \in Ids, NEW ahead \in Int, Sign(id, ahead) PROVE OnceInv'
  <2>1. /\ id \notin signed /\ signed' = signed \cup {id}
        /\ stamp' = [stamp EXCEPT ![id] = sec + ahead]
        /\ UNCHANGED <<sec, part, seen, seenPart, loop, kept, lead>>
    BY <1>2 DEF Sign
  <2>2. \A i \in signed : stamp'[i] = stamp[i]
    BY <2>1 DEF OnceInv, SigTypes
  <2>3. SigTypes'
    BY <2>1 DEF OnceInv, SigTypes
  <2>4. ASSUME NEW l \in Loops PROVE Checked(l)'
    BY <2>1, <2>2 DEF OnceInv, Checked
  <2>5. ASSUME NEW i \in Ids PROVE Remembered(i)'
    BY <2>1, <2>2 DEF OnceInv, Remembered, CheckedAt
  <2> QED
    BY <2>3, <2>4, <2>5 DEF OnceInv
<1>3. ASSUME NEW l \in Loops, NEW id \in Ids, TsigVerify(l, id) PROVE OnceInv'
  <2>0. PICK v \in LoopType :
          v = [pc |-> "checked", id |-> id, checked |-> sec, now |-> 0, nowPart |-> 0]
    BY DEF LoopType, OnceInv, SigTypes
  <2>1. /\ loop' = [loop EXCEPT ![l] = v] /\ id \in signed /\ InWindow(id)
        /\ UNCHANGED <<sec, part, signed, stamp, seen, seenPart, kept, lead>>
    BY <1>3, <2>0 DEF TsigVerify
  <2>2. v.pc = "checked" /\ v.id = id /\ v.checked = sec /\ sec \in Nat
    BY <2>0 DEF OnceInv, SigTypes
  <2>3. loop' \in [Loops -> LoopType] /\ \A k \in Loops : Checked(k)'
    <3>1. /\ v.pc # "idle" => /\ v.id \in signed /\ v.checked <= sec
                             /\ v.checked - stamp[v.id] <= Fudge
          /\ v.pc = "timed" => v.checked <= v.now /\ v.now <= sec
      BY <2>1, <2>2 DEF InWindow, OnceInv, SigTypes
    <3> QED
      BY <2>1, <3>1, LoopMove
  <2> QED
    BY <2>1, <2>3 DEF OnceInv, SigTypes, Remembered, CheckedAt
<1>4. ASSUME NEW l \in Loops, ReadNow(l) PROVE OnceInv'
  <2>0. PICK v \in LoopType :
          v = [loop[l] EXCEPT !.pc = "timed", !.now = sec, !.nowPart = part]
    BY DEF LoopType, OnceInv, SigTypes
  <2>1. /\ loop' = [loop EXCEPT ![l] = v] /\ loop[l].pc = "checked"
        /\ UNCHANGED <<sec, part, signed, stamp, seen, seenPart, kept, lead>>
    BY <1>4, <2>0 DEF ReadNow
  <2>2. loop[l] \in LoopType /\ sec \in Nat /\ part \in Nat /\ Checked(l)
    BY DEF OnceInv, SigTypes
  <2>3. /\ v.pc = "timed" /\ v.id = loop[l].id
        /\ v.checked = loop[l].checked /\ v.now = sec
    BY <2>0, <2>2 DEF LoopType
  <2>4. loop' \in [Loops -> LoopType] /\ \A k \in Loops : Checked(k)'
    <3>1. /\ v.pc # "idle" => /\ v.id \in signed /\ v.checked <= sec
                             /\ v.checked - stamp[v.id] <= Fudge
          /\ v.pc = "timed" => v.checked <= v.now /\ v.now <= sec
      BY <2>1, <2>2, <2>3 DEF Checked, LoopType
    <3> QED
      BY <2>1, <3>1, LoopMove
  <2> QED
    BY <2>1, <2>4 DEF OnceInv, SigTypes, Remembered, CheckedAt
<1>5. CASE UNCHANGED sigVars
  BY <1>5 DEF OnceInv, SigTypes, Checked, Remembered, CheckedAt, sigVars
<1> QED
  BY <1>1, <1>2, <1>3, <1>4, <1>5, GradeKeeps DEF SNext

\* Whatever the fudge, the size of the set, the number of loops, signers and copies and the
\* skew of the signers' clocks: freshMAC takes a duplicate of a recorded signature for what
\* it is, up to a lead of the whole fudge, less what passes within Verify.
THEOREM SignedOnceHolds == SSpec => SignedOnce
<1> DEFINE Held ==
       \A l \in Loops :
          FreshMAC(l) /\ loop[l].id \in kept =>
             lead[loop[l].id] + (sec - loop[l].checked) >= Fudge
<1>1. ASSUME OnceInv, NEW l \in Loops, FreshMAC(l), loop[l].id \in kept
      PROVE  lead[loop[l].id] + (sec - loop[l].checked) >= Fudge
  <2> DEFINE id == loop[l].id
  <2>1. loop[l].pc = "timed" /\ Pruned(l)[id] = -1
    BY <1>1 DEF FreshMAC
  <2>2. /\ id \in Ids /\ sec \in Nat /\ loop[l].checked \in Nat /\ stamp[id] \in Int /\ lead[id] \in Int
        /\ loop[l].checked - stamp[id] <= Fudge
    BY <1>1, <2>1 DEF OnceInv, SigTypes, LoopType, Checked
  <2>3. sec >= CheckedAt(id) + 2 * Fudge
    BY <1>1, <2>1, <2>2, PruneLate
  <2> QED
    BY <2>2, <2>3, SigAssumption DEF CheckedAt
<1>2. OnceInv => [Held]_sigVars
  BY <1>1
<1> QED
  BY <1>2, OnceInit, OnceStep, PTL DEF SSpec, SignedOnce
=============================================================================
