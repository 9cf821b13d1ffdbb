------------------------ MODULE ProverServiceProofs ------------------------
(***************************************************************************)
(* Proofs about ProverService, for any number of callers and retries.       *)
(***************************************************************************)
EXTENDS ProverService, SharedLemmas

PCs == {"none", "queued"} \cup Handling \cup Finished

RequestType == [pc : PCs, gap : Int, res : Results \cup {"none"},
                retries : 0 .. Retries, failures : Nat, delay : Nat, ahead : Nat]

TypeInv ==
    /\ requests \in [Clients -> RequestType]
    /\ queue \in Seq(Clients)
    /\ permit \in Clients \cup {Nobody}

\* The queue holds each waiting request once and nothing else.
QueueInv ==
    /\ Distinct(queue)
    /\ \A c \in Clients : Holds(queue, c) <=> requests[c].pc = "queued"

\* How far the retry loop of request_from_rpc is, at each of its points.
RetryInv ==
    \A c \in Clients :
        LET r == requests[c]
        IN  /\ r.pc \in {"none", "queued", "admitted"} =>
                  r.res = "none" /\ r.retries = 0 /\ r.failures = 0
            /\ r.pc = "checking" /\ r.res = "err" => r.failures = r.retries + 1
            /\ r.pc = "sleeping" =>
                  r.retries < Retries /\ (r.res = "err" => r.failures = r.retries + 2)
            /\ r.pc \in {"proving", "wrapping"} => r.res = "header"

\* The seconds all sleeps of a request take, and the first n of them.
AllSleeps == 2 ^ Retries - 1
Sleeps(n) == 2 ^ n - 1

\* The seconds the request that has the permit may still sleep.
SleepsLeft ==
    IF permit = Nobody THEN 0 ELSE AllSleeps - Sleeps(requests[permit].retries)

\* What a request has waited and what is still before it add up to no more than
\* the sleeps of those that were before it when it arrived, and its own.
DelayInv ==
    /\ \A k \in 1 .. Len(queue) :
          requests[queue[k]].delay + (k - 1) * AllSleeps + SleepsLeft
             <= requests[queue[k]].ahead * AllSleeps
    /\ \A c \in Clients :
          /\ requests[c].pc \in Handling =>
                requests[c].delay + (AllSleeps - Sleeps(requests[c].retries))
                   <= (requests[c].ahead + 1) * AllSleeps
          /\ requests[c].pc \in {"none"} \cup Finished =>
                requests[c].delay = 0 /\ requests[c].ahead = 0

-----------------------------------------------------------------------------
(* Powers of two *)

\* The sleeps of the retry loop, of which AllSleeps is the sum.
LEMMA SleepFacts ==
    /\ AllSleeps \in Nat
    /\ Sleeps(0) = 0
    /\ \A n \in 0 .. Retries : Sleeps(n) \in Nat /\ Sleeps(n) <= AllSleeps
    /\ \A n \in 0 .. Retries - 1 :
          Backoff(n) \in Nat /\ Sleeps(n + 1) = Sleeps(n) + Backoff(n)
  <1>1. \A n \in 0 .. Retries : 2 ^ n \in Nat \ {0} /\ 2 ^ (n + 1) = 2 * 2 ^ n
    BY PowersOfTwo
  <1>2. Retries \in Nat
    BY ServiceAssumption
  <1>3. \A n \in 0 .. Retries : 2 ^ n <= 2 ^ Retries
    <2> DEFINE T == {m \in Nat : m <= Retries => 2 ^ (Retries - m) <= 2 ^ Retries}
    <2>1. 0 \in T
      BY <1>1, <1>2
    <2>2. ASSUME NEW m \in 0 .. Retries - 1, m \in T PROVE m + 1 \in T
      <3> DEFINE k == Retries - (m + 1)
      <3>1. k \in 0 .. Retries /\ k + 1 \in 0 .. Retries /\ k + 1 = Retries - m
        BY <1>2
      <3>2. 2 ^ (k + 1) <= 2 ^ Retries
        BY <1>2, <2>2, <3>1
      <3> HIDE DEF k
      <3>3. 2 ^ k <= 2 ^ Retries
        BY <1>1, <1>2, <3>1, <3>2
      <3> QED BY <1>2, <3>3 DEF k
    <2> HIDE DEF T
    <2>3. 0 .. Retries \subseteq T
      BY <1>2, <2>1, <2>2, InductionUpTo
    <2> SUFFICES ASSUME NEW n \in 0 .. Retries PROVE 2 ^ n <= 2 ^ Retries
      OBVIOUS
    <2>4. Retries - n \in T
      BY <1>2, <2>3
    <2>5. Retries - (Retries - n) = n /\ Retries - n <= Retries
      BY <1>2
    <2> QED BY <2>4, <2>5 DEF T
  <1>4. 2 ^ 0 = 1
    OBVIOUS
  <1>5. 0 \in 0 .. Retries /\ Retries \in 0 .. Retries
    BY <1>2
  <1>6. AllSleeps \in Nat /\ Sleeps(0) = 0
    BY <1>1, <1>4, <1>5 DEF AllSleeps, Sleeps
  <1>7. ASSUME NEW n \in 0 .. Retries PROVE Sleeps(n) \in Nat /\ Sleeps(n) <= AllSleeps
    BY <1>1, <1>3, <1>5 DEF AllSleeps, Sleeps
  <1>8. ASSUME NEW n \in 0 .. Retries - 1
        PROVE  Backoff(n) \in Nat /\ Sleeps(n + 1) = Sleeps(n) + Backoff(n)
    <2>1. n \in 0 .. Retries
      BY <1>2
    <2> QED BY <1>1, <2>1 DEF Sleeps, Backoff
  <1> QED BY <1>6, <1>7, <1>8

-----------------------------------------------------------------------------
(* The inductive invariant *)

IInv == TypeInv /\ PermitHeldByHandler /\ QueueInv /\ RetryInv
          /\ GivesUpAfterRetries /\ DelayInv

LEMMA InitInv == Init => IInv
  <1> SUFFICES ASSUME Init PROVE IInv
    OBVIOUS
  <1> USE DEF Init
  <1>1. \A c \in Clients : requests[c] = None
    OBVIOUS
  <1>2. None \in RequestType
    BY ServiceAssumption DEF None, RequestType, PCs
  <1>3. queue \in Seq(Clients) /\ Len(queue) = 0
    BY EmptySeq
  <1>4. TypeInv
    BY <1>2, <1>3 DEF TypeInv
  <1>5. PermitHeldByHandler
    BY <1>1, ServiceAssumption DEF PermitHeldByHandler, None, Handling
  <1>6. QueueInv
    BY <1>1, <1>3 DEF QueueInv, Distinct, Holds, None
  <1>7. RetryInv
    BY <1>1 DEF RetryInv, None
  <1>8. GivesUpAfterRetries
    BY <1>1 DEF GivesUpAfterRetries, None
  <1>9. DelayInv
    BY <1>1, <1>3 DEF DelayInv, None, Handling
  <1> QED BY <1>4, <1>5, <1>6, <1>7, <1>8, <1>9 DEF IInv

\* A request that is handled before and after a step, with the same retries and
\* delay, disturbs neither the permit nor the queue nor the delays.
LEMMA StaysHandled ==
    ASSUME IInv, NEW c \in Clients, requests[c].pc \in Handling,
           requests' \in [Clients -> RequestType], requests'[c].pc \in Handling,
           requests'[c].retries = requests[c].retries,
           requests'[c].delay = requests[c].delay,
           requests'[c].ahead = requests[c].ahead,
           \A d \in Clients \ {c} : requests'[d] = requests[d],
           UNCHANGED << queue, permit >>
    PROVE  TypeInv' /\ PermitHeldByHandler' /\ QueueInv' /\ DelayInv'
  <1>1. TypeInv'
    BY DEF IInv, TypeInv
  <1>2. PermitHeldByHandler'
    BY DEF IInv, PermitHeldByHandler
  <1>3. \A d \in Clients : requests[d].pc = "queued" <=> requests'[d].pc = "queued"
    BY DEF Handling
  <1>4. QueueInv'
    BY <1>3 DEF IInv, QueueInv
  <1>5. \A d \in Clients : /\ requests'[d].retries = requests[d].retries
                           /\ requests'[d].delay = requests[d].delay
                           /\ requests'[d].ahead = requests[d].ahead
    OBVIOUS
  <1>6. SleepsLeft' = SleepsLeft
    <2>1. permit \in Clients \cup {Nobody} /\ permit' = permit
      BY DEF IInv, TypeInv
    <2>2. CASE permit = Nobody
      BY <2>1, <2>2 DEF SleepsLeft
    <2>3. CASE permit \in Clients
      <3>1. requests'[permit].retries = requests[permit].retries
        BY <1>5, <2>3
      <3> QED BY <2>1, <3>1 DEF SleepsLeft, AllSleeps, Sleeps
    <2> QED BY <2>1, <2>2, <2>3
  <1>7. \A k \in 1 .. Len(queue) : queue[k] \in Clients
    BY ElementOfSeq DEF IInv, TypeInv
  <1>8. \A d \in Clients : /\ requests'[d].pc \in Handling => requests[d].pc \in Handling
                           /\ requests'[d].pc \in {"none"} \cup Finished =>
                                 requests[d].pc \in {"none"} \cup Finished
    BY DEF Handling, Finished
  <1>9. DelayInv'
    BY <1>5, <1>6, <1>7, <1>8 DEF IInv, DelayInv, AllSleeps, Sleeps
  <1> QED BY <1>1, <1>2, <1>4, <1>9

\* What Finish leaves of a request.
LEMMA FinishedRequest ==
    ASSUME IInv, NEW c \in Clients, NEW pc \in Finished, Finish(c, pc)
    PROVE  /\ requests' \in [Clients -> RequestType]
           /\ requests'[c].pc = pc
           /\ requests'[c].res = requests[c].res
           /\ requests'[c].failures = requests[c].failures
           /\ requests'[c].delay = 0 /\ requests'[c].ahead = 0
           /\ \A d \in Clients \ {c} : requests'[d] = requests[d]
  <1>1. requests \in [Clients -> RequestType] /\ requests[c] \in RequestType
    BY DEF IInv, TypeInv
  <1>2. requests[c].res \in Results \cup {"none"} /\ requests[c].failures \in Nat
    BY <1>1 DEF RequestType
  <1>3. PICK r : r = [None EXCEPT !.pc = pc, !.res = requests[c].res,
                                  !.failures = requests[c].failures]
    OBVIOUS
  <1>4. r = [pc |-> pc, gap |-> 0, res |-> requests[c].res, retries |-> 0,
             failures |-> requests[c].failures, delay |-> 0, ahead |-> 0]
    BY <1>3 DEF None
  <1>5. pc \in PCs /\ 0 \in 0 .. Retries
    BY ServiceAssumption DEF PCs
  <1>6. r \in RequestType
    BY <1>2, <1>4, <1>5 DEF RequestType
  <1>7. requests' = [requests EXCEPT ![c] = r]
    BY <1>3 DEF Finish
  <1> QED BY <1>1, <1>4, <1>6, <1>7

\* A finished request says nothing about retries that it did not say before.
LEMMA FinishKeepsRetries ==
    ASSUME IInv, NEW c \in Clients, NEW pc \in Finished, Finish(c, pc)
    PROVE  RetryInv'
  <1> USE FinishedRequest
  <1>1. requests'[c].pc \notin {"none", "queued", "admitted", "checking", "sleeping",
                              "proving", "wrapping"}
    BY DEF Finished
  <1> QED BY <1>1 DEF IInv, RetryInv

\* A request that is handled and ends gives the permit back; those that wait
\* wait no longer than before.
LEMMA FinishesHandled ==
    ASSUME IInv, NEW c \in Clients, requests[c].pc \in Handling,
           NEW pc \in Finished, Finish(c, pc), UNCHANGED queue
    PROVE  TypeInv' /\ PermitHeldByHandler' /\ QueueInv' /\ DelayInv'
  <1> USE FinishedRequest
  <1>1. permit = c /\ permit' = Nobody
    BY DEF IInv, PermitHeldByHandler, Finish, Freed
  <1>2. TypeInv'
    BY <1>1 DEF IInv, TypeInv
  <1>3. PermitHeldByHandler'
    <2>1. requests'[c].pc \notin Handling
      BY DEF Finished, Handling
    <2> QED BY <1>1, <2>1, ServiceAssumption DEF IInv, PermitHeldByHandler
  <1>4. requests[c].pc # "queued" /\ requests'[c].pc # "queued"
    BY DEF Finished, Handling
  <1>5. QueueInv'
    BY <1>4 DEF IInv, QueueInv
  <1>6. DelayInv'
    <2>1. ASSUME NEW k \in 1 .. Len(queue)
          PROVE  requests'[queue[k]].delay + (k - 1) * AllSleeps + 0
                    <= requests'[queue[k]].ahead * AllSleeps
      <3>1. queue[k] \in Clients
        BY ElementOfSeq DEF IInv, TypeInv
      <3>2. requests[queue[k]].pc = "queued"
        BY <3>1 DEF IInv, QueueInv, Holds
      <3>3. requests'[queue[k]] = requests[queue[k]]
        BY <1>4, <3>1, <3>2
      <3>4. requests[queue[k]].delay + (k - 1) * AllSleeps + SleepsLeft
               <= requests[queue[k]].ahead * AllSleeps
        BY DEF IInv, DelayInv
      <3>5. requests[c].retries \in 0 .. Retries
        BY DEF IInv, TypeInv, RequestType
      <3>6. SleepsLeft \in Nat
        BY <1>1, <3>5, SleepFacts, ServiceAssumption DEF SleepsLeft
      <3>7. requests[queue[k]].delay \in Nat /\ requests[queue[k]].ahead \in Nat
        BY <3>1 DEF IInv, TypeInv, RequestType
      <3>8. Len(queue) \in Nat
        BY LenProperties DEF IInv, TypeInv
      <3>9. PICK p \in Int, h \in Int : /\ p = (k - 1) * AllSleeps
                                      /\ h = requests[queue[k]].ahead * AllSleeps
        BY <3>7, <3>8, SleepFacts
      <3>10. requests[queue[k]].delay + p + SleepsLeft <= h
        BY <3>4, <3>9
      <3>11. requests[queue[k]].delay + p + 0 <= h
        BY <3>6, <3>7, <3>10
      <3> QED BY <3>3, <3>9, <3>11
    <2>2. SleepsLeft' = 0
      BY <1>1 DEF SleepsLeft
    <2>3. requests'[c].pc \notin Handling
      BY DEF Finished, Handling
    <2>4. \A d \in Clients :
             /\ requests'[d].pc \in Handling =>
                   requests'[d].delay + (AllSleeps - Sleeps(requests'[d].retries))
                      <= (requests'[d].ahead + 1) * AllSleeps
             /\ requests'[d].pc \in {"none"} \cup Finished =>
                   requests'[d].delay = 0 /\ requests'[d].ahead = 0
      BY <2>3 DEF IInv, DelayInv
    <2> QED BY <2>1, <2>2, <2>4 DEF DelayInv, AllSleeps, Sleeps
  <1> QED BY <1>2, <1>3, <1>5, <1>6

\* One more time a number.
LEMMA OneMore ==
    ASSUME NEW a \in Int, NEW b \in Int
    PROVE  a * b \in Int /\ (a + 1) * b = a * b + b
  OBVIOUS

\* What SleepsLeft can be.
LEMMA SleepsLeftRange ==
    ASSUME TypeInv
    PROVE  SleepsLeft \in Nat /\ SleepsLeft <= AllSleeps
  <1>1. CASE permit = Nobody
    BY <1>1, SleepFacts DEF SleepsLeft
  <1>2. CASE permit # Nobody
    <2>1. requests[permit].retries \in 0 .. Retries
      BY <1>2 DEF TypeInv, RequestType
    <2> QED BY <1>2, <2>1, SleepFacts DEF SleepsLeft
  <1> QED BY <1>1, <1>2

LEMMA SendInv ==
    ASSUME IInv, NEW c \in Clients, NEW gap \in Gaps, Send(c, gap)
    PROVE  IInv'
  <1>1. requests \in [Clients -> RequestType] /\ queue \in Seq(Clients)
    BY DEF IInv, TypeInv
  <1>2. Len(queue) \in Nat
    BY <1>1, LenProperties
  <1>3. PICK n : n = Len(queue) + IF permit = Nobody THEN 0 ELSE 1
    OBVIOUS
  <1>4. n \in Nat
    BY <1>2, <1>3
  <1>5. PICK r : r = [None EXCEPT !.pc = "queued", !.gap = gap, !.ahead = n]
    OBVIOUS
  <1>6. r = [pc |-> "queued", gap |-> gap, res |-> "none", retries |-> 0,
             failures |-> 0, delay |-> 0, ahead |-> n]
    BY <1>5 DEF None
  <1>7. r \in RequestType
    BY <1>4, <1>6, ServiceAssumption DEF RequestType, PCs
  <1>8. requests' = [requests EXCEPT ![c] = r]
    BY <1>3, <1>5 DEF Send
  <1>9. /\ requests[c].pc = "none"
        /\ queue' = Append(queue, c) /\ permit' = permit
    BY DEF Send
  <1>10. /\ requests' \in [Clients -> RequestType]
         /\ requests'[c] = r
         /\ \A d \in Clients \ {c} : requests'[d] = requests[d]
    BY <1>1, <1>7, <1>8
  <1>11. Distinct(queue) /\ ~Holds(queue, c)
    BY <1>9 DEF IInv, QueueInv
  <1>12. /\ queue' \in Seq(Clients)
         /\ Len(queue') = Len(queue) + 1
         /\ \A i \in 1 .. Len(queue) : queue'[i] = queue[i]
         /\ queue'[Len(queue) + 1] = c
         /\ Distinct(queue')
         /\ \A x : Holds(queue', x) <=> Holds(queue, x) \/ x = c
    BY <1>1, <1>9, <1>11, AppendKeeps
  <1>13. TypeInv'
    BY <1>9, <1>10, <1>12 DEF IInv, TypeInv
  <1>14. PermitHeldByHandler'
    BY <1>6, <1>9, <1>10 DEF IInv, PermitHeldByHandler, Handling
  <1>15. QueueInv'
    BY <1>6, <1>10, <1>12 DEF IInv, QueueInv
  <1>16. RetryInv'
    BY <1>6, <1>10 DEF IInv, RetryInv
  <1>17. GivesUpAfterRetries'
    BY <1>6, <1>10 DEF IInv, GivesUpAfterRetries
  <1>18. SleepsLeft' = SleepsLeft
    <2>1. CASE permit = Nobody
      BY <1>9, <2>1 DEF SleepsLeft
    <2>2. CASE permit # Nobody
      <3>1. permit \in Clients \ {c}
        BY <1>9, <2>2 DEF IInv, TypeInv, PermitHeldByHandler, Handling
      <3> QED BY <1>9, <1>10, <3>1 DEF SleepsLeft, AllSleeps, Sleeps
    <2> QED BY <2>1, <2>2
  <1>19. ASSUME NEW k \in 1 .. Len(queue')
         PROVE  requests'[queue'[k]].delay + (k - 1) * AllSleeps + SleepsLeft
                   <= requests'[queue'[k]].ahead * AllSleeps
    <2>1. CASE k \in 1 .. Len(queue)
      <3>1. queue[k] \in Clients /\ queue[k] # c
        BY <1>1, <1>11, <2>1, ElementOfSeq DEF Holds
      <3>2. queue'[k] = queue[k] /\ requests'[queue[k]] = requests[queue[k]]
        BY <1>10, <1>12, <2>1, <3>1
      <3> QED BY <2>1, <3>2 DEF IInv, DelayInv
    <2>2. CASE k = Len(queue) + 1
      <3>1. queue'[k] = c /\ requests'[c].delay = 0 /\ requests'[c].ahead = n
        BY <1>6, <1>10, <1>12, <2>2
      <3>2. SleepsLeft \in Nat /\ SleepsLeft <= AllSleeps /\ AllSleeps \in Nat
        BY SleepsLeftRange, SleepFacts DEF IInv
      <3>3. Len(queue) * AllSleeps + SleepsLeft <= n * AllSleeps
        <4>1. CASE permit = Nobody
          BY <1>2, <1>3, <3>2, <4>1, OneMore DEF SleepsLeft
        <4>2. CASE permit # Nobody
          <5>1. n = Len(queue) + 1 BY <1>3, <4>2
          <5> QED BY <1>2, <3>2, <5>1, OneMore
        <4> QED BY <4>1, <4>2
      <3>4. k - 1 = Len(queue) BY <1>2, <2>2
      <3>5. Len(queue) * AllSleeps \in Int
        BY <1>2, <3>2, OneMore
      <3> QED BY <3>1, <3>2, <3>3, <3>4, <3>5
    <2> QED BY <1>2, <1>12, <2>1, <2>2
  <1>20. requests'[c].pc \notin Handling \cup {"none"} \cup Finished
    BY <1>6, <1>10 DEF Handling, Finished
  <1>21. DelayInv'
    BY <1>10, <1>18, <1>19, <1>20 DEF IInv, DelayInv, AllSleeps, Sleeps
  <1> QED BY <1>13, <1>14, <1>15, <1>16, <1>17, <1>21 DEF IInv

\* Admitting a request and closing a connection leave the queue alone but for c.
LEMMA LeavesQueue ==
    ASSUME IInv, NEW c \in Clients, NEW k \in 1 .. Len(queue), queue[k] = c,
           queue' \in Seq(Clients), LeavesAt(queue, k, queue'),
           requests' \in [Clients -> RequestType], requests'[c].pc # "queued",
           \A d \in Clients \ {c} : requests'[d] = requests[d]
    PROVE  /\ QueueInv'
           /\ requests[c].pc = "queued" /\ permit # c
           /\ \A i \in 1 .. Len(queue') :
                 /\ queue'[i] \in Clients \ {c}
                 /\ requests'[queue'[i]] = requests[queue'[i]]
  <1>1. queue \in Seq(Clients) /\ Distinct(queue)
    BY DEF IInv, TypeInv, QueueInv
  <1>2. /\ Distinct(queue')
        /\ \A x : Holds(queue', x) <=> Holds(queue, x) /\ x # c
    BY <1>1, LeavesKeeps
  <1>3. QueueInv'
    BY <1>2 DEF IInv, QueueInv
  <1>4. requests[c].pc = "queued" /\ permit # c
    BY DEF IInv, QueueInv, Holds, PermitHeldByHandler, Handling
  <1>5. \A i \in 1 .. Len(queue') : queue'[i] \in Clients \ {c}
    BY <1>2, ElementOfSeq DEF Holds
  <1> QED BY <1>3, <1>4, <1>5

\* Whoever waits behind a request that leaves the queue moves up.
LEMMA MovesUp ==
    ASSUME IInv, NEW k \in 1 .. Len(queue),
           queue' \in Seq(Clients), LeavesAt(queue, k, queue'),
           NEW i \in 1 .. Len(queue'), requests'[queue'[i]] = requests[queue'[i]],
           NEW left \in Nat, left <= SleepsLeft + IF k = 1 THEN AllSleeps ELSE 0
    PROVE  requests'[queue'[i]].delay + (i - 1) * AllSleeps + left
              <= requests'[queue'[i]].ahead * AllSleeps
  <1>1. Len(queue) \in Nat /\ Len(queue') = Len(queue) - 1
    BY LenProperties DEF IInv, TypeInv, LeavesAt
  <1>2. queue'[i] \in Clients
    BY ElementOfSeq
  <1>3. requests[queue'[i]].delay \in Nat /\ requests[queue'[i]].ahead \in Nat
    BY <1>2 DEF IInv, TypeInv, RequestType
  <1>4. AllSleeps \in Nat /\ SleepsLeft \in Nat
    BY SleepFacts, SleepsLeftRange DEF IInv
  <1>5. PICK p \in Int, h \in Int : /\ p = (i - 1) * AllSleeps
                                  /\ p + AllSleeps = i * AllSleeps
                                  /\ h = requests[queue'[i]].ahead * AllSleeps
    <2>1. i - 1 \in Int /\ (i - 1) + 1 = i BY <1>1
    <2>2. (i - 1) * AllSleeps \in Int /\ (i - 1) * AllSleeps + AllSleeps = i * AllSleeps
      BY <1>4, <2>1, OneMore
    <2>3. requests[queue'[i]].ahead * AllSleeps \in Int
      BY <1>3, <1>4, OneMore
    <2> QED BY <2>2, <2>3
  <1> SUFFICES requests[queue'[i]].delay + p + left <= h
    BY <1>5
  <1>6. CASE i < k
    <2>1. i \in 1 .. Len(queue) /\ queue'[i] = queue[i] /\ k # 1
      BY <1>1, <1>6 DEF LeavesAt
    <2>2. requests[queue'[i]].delay + p + SleepsLeft <= h
      BY <1>5, <2>1 DEF IInv, DelayInv
    <2>3. left <= SleepsLeft
      BY <1>4, <2>1
    <2> QED BY <1>3, <1>4, <2>2, <2>3
  <1>7. CASE ~(i < k)
    <2>1. i + 1 \in 1 .. Len(queue) /\ queue'[i] = queue[i + 1] /\ i + 1 - 1 = i
      BY <1>1, <1>7 DEF LeavesAt
    <2>2. requests[queue'[i]].delay + i * AllSleeps + SleepsLeft <= h
      BY <1>5, <2>1 DEF IInv, DelayInv
    <2>3. requests[queue'[i]].delay + (p + AllSleeps) + SleepsLeft <= h
      BY <1>5, <2>2
    <2>4. left <= SleepsLeft + AllSleeps
      BY <1>4
    <2> QED BY <1>3, <1>4, <2>3, <2>4
  <1> QED BY <1>6, <1>7

\* What a step of one request does to the delays of the others.
LEMMA DelayOfOthers ==
    ASSUME IInv, NEW c \in Clients,
           \A d \in Clients \ {c} : requests'[d] = requests[d],
           \A k \in 1 .. Len(queue') :
              requests'[queue'[k]].delay + (k - 1) * AllSleeps + SleepsLeft'
                 <= requests'[queue'[k]].ahead * AllSleeps,
           requests'[c].pc \in Handling =>
              requests'[c].delay + (AllSleeps - Sleeps(requests'[c].retries))
                 <= (requests'[c].ahead + 1) * AllSleeps,
           requests'[c].pc \in {"none"} \cup Finished =>
              requests'[c].delay = 0 /\ requests'[c].ahead = 0
    PROVE  DelayInv'
  BY DEF IInv, DelayInv, AllSleeps, Sleeps

LEMMA AdmitInv == ASSUME IInv, Admit PROVE IInv'
  <1> DEFINE c == Head(queue)
  <1>1. requests \in [Clients -> RequestType] /\ queue \in Seq(Clients)
    BY DEF IInv, TypeInv
  <1>2. permit = Nobody /\ queue # << >> /\ queue' = Tail(queue)
    BY DEF Admit
  <1>3. /\ c \in Clients /\ 1 \in 1 .. Len(queue) /\ queue[1] = c
        /\ queue' \in Seq(Clients) /\ LeavesAt(queue, 1, queue')
    BY <1>1, <1>2, TailLeaves, ElementOfSeq
  <1>4. IF Validates(requests[c].gap)
        THEN requests' = [requests EXCEPT ![c].pc = "admitted"] /\ permit' = c
        ELSE Finish(c, "panicked")
    BY DEF Admit
  <1> HIDE DEF c
  <1>5. requests[c].pc = "queued"
    BY <1>3 DEF IInv, QueueInv, Holds
  <1>6. requests[c].res = "none" /\ requests[c].retries = 0 /\ requests[c].failures = 0
    BY <1>3, <1>5 DEF IInv, RetryInv
  <1>7. SleepsLeft = 0 /\ AllSleeps \in Nat
    BY <1>2, SleepFacts DEF SleepsLeft
  <1>8. CASE Validates(requests[c].gap)
    <2>1. requests' = [requests EXCEPT ![c].pc = "admitted"] /\ permit' = c
      BY <1>4, <1>8
    <2>2. PICK r : r = [requests[c] EXCEPT !.pc = "admitted"]
      OBVIOUS
    <2>3. requests[c] \in RequestType
      BY <1>1, <1>3
    <2>4. /\ r \in RequestType /\ r.pc = "admitted"
          /\ r.res = "none" /\ r.retries = 0 /\ r.failures = 0
          /\ r.delay = requests[c].delay /\ r.ahead = requests[c].ahead
      BY <1>6, <2>2, <2>3 DEF RequestType, PCs, Handling
    <2>5. /\ requests' \in [Clients -> RequestType]
          /\ requests'[c] = r
          /\ \A d \in Clients \ {c} : requests'[d] = requests[d]
      BY <1>1, <1>3, <2>1, <2>2, <2>4
    <2>6. /\ QueueInv'
          /\ \A i \in 1 .. Len(queue') :
                 /\ queue'[i] \in Clients \ {c}
                 /\ requests'[queue'[i]] = requests[queue'[i]]
      BY <1>3, <2>4, <2>5, LeavesQueue
    <2>7. TypeInv'
      BY <1>3, <2>1, <2>5 DEF TypeInv
    <2>8. PermitHeldByHandler'
      <3>1. \A d \in Clients : requests[d].pc \notin Handling
        BY <1>2, ServiceAssumption DEF IInv, PermitHeldByHandler
      <3>2. requests'[c].pc \in Handling
        BY <2>4, <2>5 DEF Handling
      <3> QED BY <2>1, <2>5, <3>1, <3>2 DEF PermitHeldByHandler
    <2>9. RetryInv'
      BY <2>4, <2>5 DEF IInv, RetryInv
    <2>10. GivesUpAfterRetries'
      BY <2>4, <2>5 DEF IInv, GivesUpAfterRetries
    <2>11. SleepsLeft' = AllSleeps
      <3>1. permit' # Nobody /\ requests'[permit'].retries = 0
        BY <1>3, <2>1, <2>4, <2>5, ServiceAssumption
      <3> QED BY <1>7, <3>1, SleepFacts DEF SleepsLeft, AllSleeps, Sleeps
    <2>12. \A i \in 1 .. Len(queue') :
              requests'[queue'[i]].delay + (i - 1) * AllSleeps + AllSleeps
                 <= requests'[queue'[i]].ahead * AllSleeps
      BY <1>3, <1>7, <2>6, MovesUp
    <2>13. requests'[c].delay + (AllSleeps - Sleeps(requests'[c].retries))
              <= (requests'[c].ahead + 1) * AllSleeps
      <3>1. requests[c].delay + (1 - 1) * AllSleeps + 0 <= requests[c].ahead * AllSleeps
        BY <1>3, <1>7 DEF IInv, DelayInv
      <3>2. requests[c].delay \in Nat /\ requests[c].ahead \in Nat
        BY <2>3 DEF RequestType
      <3>3. requests[c].delay <= requests[c].ahead * AllSleeps
        BY <1>7, <3>1, <3>2
      <3>4. /\ (requests[c].ahead + 1) * AllSleeps = requests[c].ahead * AllSleeps + AllSleeps
            /\ requests[c].ahead * AllSleeps \in Int
        BY <1>7, <3>2, OneMore
      <3> QED BY <1>7, <2>4, <2>5, <3>2, <3>3, <3>4, SleepFacts
    <2>14. requests'[c].pc \notin {"none"} \cup Finished
      BY <2>4, <2>5 DEF Finished
    <2>15. DelayInv'
      BY <1>3, <2>5, <2>11, <2>12, <2>13, <2>14, DelayOfOthers
    <2> QED BY <2>6, <2>7, <2>8, <2>9, <2>10, <2>15 DEF IInv
  <1>9. CASE ~Validates(requests[c].gap)
    <2>1. Finish(c, "panicked") /\ "panicked" \in Finished
      BY <1>4, <1>9 DEF Finished
    <2>2. /\ requests' \in [Clients -> RequestType]
          /\ requests'[c].pc = "panicked" /\ requests'[c].res = "none"
          /\ requests'[c].delay = 0 /\ requests'[c].ahead = 0
          /\ \A d \in Clients \ {c} : requests'[d] = requests[d]
      BY <1>3, <1>6, <2>1, FinishedRequest
    <2>3. permit' = Nobody
      BY <1>2, <2>1 DEF Finish, Freed
    <2>4. /\ QueueInv'
          /\ \A i \in 1 .. Len(queue') :
                 /\ queue'[i] \in Clients \ {c}
                 /\ requests'[queue'[i]] = requests[queue'[i]]
      BY <1>3, <2>2, LeavesQueue
    <2>5. TypeInv'
      BY <1>3, <2>2, <2>3 DEF TypeInv
    <2>6. PermitHeldByHandler'
      BY <1>2, <2>2, <2>3, ServiceAssumption DEF IInv, PermitHeldByHandler, Handling
    <2>7. RetryInv'
      BY <1>3, <2>1, FinishKeepsRetries
    <2>8. GivesUpAfterRetries'
      BY <2>2 DEF IInv, GivesUpAfterRetries
    <2>9. SleepsLeft' = 0
      BY <2>3 DEF SleepsLeft
    <2>10. \A i \in 1 .. Len(queue') :
              requests'[queue'[i]].delay + (i - 1) * AllSleeps + 0
                 <= requests'[queue'[i]].ahead * AllSleeps
      BY <1>3, <1>7, <2>4, MovesUp
    <2>11. requests'[c].pc \notin Handling
      BY <2>2 DEF Handling
    <2>12. DelayInv'
      BY <1>3, <2>2, <2>9, <2>10, <2>11, DelayOfOthers
    <2> QED BY <2>4, <2>5, <2>6, <2>7, <2>8, <2>12 DEF IInv
  <1> QED BY <1>8, <1>9

LEMMA DisconnectInv ==
    ASSUME IInv, NEW c \in Clients, Disconnect(c)
    PROVE  IInv'
  <1>1. Finish(c, "dropped") /\ "dropped" \in Finished
    BY DEF Disconnect, Finished
  <1>2. /\ requests' \in [Clients -> RequestType]
        /\ requests'[c].pc = "dropped"
        /\ requests'[c].delay = 0 /\ requests'[c].ahead = 0
        /\ \A d \in Clients \ {c} : requests'[d] = requests[d]
    BY <1>1, FinishedRequest
  <1>3. RetryInv'
    BY <1>1, FinishKeepsRetries
  <1>4. GivesUpAfterRetries'
    BY <1>2 DEF IInv, GivesUpAfterRetries
  <1>5. CASE requests[c].pc \in Handling \ {"proving"} /\ UNCHANGED queue
    <2>1. TypeInv' /\ PermitHeldByHandler' /\ QueueInv' /\ DelayInv'
      BY <1>1, <1>5, FinishesHandled
    <2> QED BY <1>3, <1>4, <2>1 DEF IInv
  <1>6. ASSUME NEW k \in DOMAIN queue, queue[k] = c, queue' = RemoveAt(queue, k)
        PROVE  IInv'
    <2>1. queue \in Seq(Clients) /\ k \in 1 .. Len(queue)
      BY <1>6, LenProperties DEF IInv, TypeInv
    <2>2. queue' \in Seq(Clients) /\ LeavesAt(queue, k, queue')
      BY <1>6, <2>1, RemoveAtLeaves
    <2>3. /\ QueueInv' /\ permit # c
          /\ \A i \in 1 .. Len(queue') :
                 /\ queue'[i] \in Clients \ {c}
                 /\ requests'[queue'[i]] = requests[queue'[i]]
      BY <1>2, <1>6, <2>1, <2>2, LeavesQueue
    <2>4. permit' = permit
      BY <1>1, <2>3 DEF Finish, Freed
    <2>5. TypeInv'
      BY <1>2, <2>2, <2>4 DEF IInv, TypeInv
    <2>6. requests'[c].pc \notin Handling
      BY <1>2 DEF Handling
    <2>7. PermitHeldByHandler'
      BY <1>2, <2>3, <2>4, <2>6 DEF IInv, PermitHeldByHandler
    <2>8. SleepsLeft' = SleepsLeft
      <3>1. permit \in (Clients \ {c}) \cup {Nobody}
        BY <2>3 DEF IInv, TypeInv
      <3>2. CASE permit = Nobody
        BY <2>4, <3>2 DEF SleepsLeft
      <3>3. CASE permit \in Clients \ {c}
        BY <1>2, <2>4, <3>3 DEF SleepsLeft, AllSleeps, Sleeps
      <3> QED BY <3>1, <3>2, <3>3
    <2>9. SleepsLeft \in Nat /\ AllSleeps \in Nat
      BY SleepsLeftRange, SleepFacts DEF IInv
    <2>10. SleepsLeft <= SleepsLeft + IF k = 1 THEN AllSleeps ELSE 0
      BY <2>9
    <2>11. \A i \in 1 .. Len(queue') :
              requests'[queue'[i]].delay + (i - 1) * AllSleeps + SleepsLeft
                 <= requests'[queue'[i]].ahead * AllSleeps
      BY <2>1, <2>2, <2>3, <2>9, <2>10, MovesUp
    <2>12. DelayInv'
      BY <1>2, <2>6, <2>8, <2>11, DelayOfOthers
    <2> QED BY <1>3, <1>4, <2>3, <2>5, <2>7, <2>12 DEF IInv
  <1> QED BY <1>5, <1>6 DEF Disconnect

LEMMA ForgetInv ==
    ASSUME IInv, NEW c \in Clients, Forget(c)
    PROVE  IInv'
  <1>1. /\ requests[c].pc \in Finished
        /\ requests' = [requests EXCEPT ![c] = None]
        /\ queue' = queue /\ permit' = permit
    BY DEF Forget
  <1>2. None \in RequestType
    BY ServiceAssumption DEF None, RequestType, PCs
  <1>3. requests \in [Clients -> RequestType] /\ queue \in Seq(Clients)
    BY DEF IInv, TypeInv
  <1>4. /\ requests' \in [Clients -> RequestType]
        /\ requests'[c] = None
        /\ \A d \in Clients \ {c} : requests'[d] = requests[d]
    BY <1>1, <1>2, <1>3
  <1>5. TypeInv'
    BY <1>1, <1>4 DEF IInv, TypeInv
  <1>6. permit # c
    BY <1>1 DEF IInv, PermitHeldByHandler, Handling, Finished
  <1>7. PermitHeldByHandler'
    BY <1>1, <1>4, <1>6 DEF IInv, PermitHeldByHandler, Handling, None
  <1>8. QueueInv'
    BY <1>1, <1>4 DEF IInv, QueueInv, Finished, None
  <1>9. RetryInv'
    BY <1>4 DEF IInv, RetryInv, None
  <1>10. GivesUpAfterRetries'
    BY <1>4 DEF IInv, GivesUpAfterRetries, None
  <1>11. SleepsLeft' = SleepsLeft
    <2>1. permit \in (Clients \ {c}) \cup {Nobody}
      BY <1>6 DEF IInv, TypeInv
    <2>2. CASE permit = Nobody
      BY <1>1, <2>2 DEF SleepsLeft
    <2>3. CASE permit \in Clients \ {c}
      BY <1>1, <1>4, <2>3 DEF SleepsLeft, AllSleeps, Sleeps
    <2> QED BY <2>1, <2>2, <2>3
  <1>12. ASSUME NEW k \in 1 .. Len(queue')
         PROVE  requests'[queue'[k]].delay + (k - 1) * AllSleeps + SleepsLeft'
                   <= requests'[queue'[k]].ahead * AllSleeps
    <2>1. queue'[k] = queue[k] /\ k \in 1 .. Len(queue)
      BY <1>1
    <2>2. queue[k] \in Clients
      BY <1>3, <2>1, ElementOfSeq
    <2>3. requests[queue[k]].pc = "queued"
      BY <2>1, <2>2 DEF IInv, QueueInv, Holds
    <2>4. requests'[queue[k]] = requests[queue[k]]
      BY <1>1, <1>4, <2>2, <2>3 DEF Finished
    <2> QED BY <1>11, <2>1, <2>4 DEF IInv, DelayInv
  <1>13. requests'[c].pc \notin Handling /\ requests'[c].delay = 0 /\ requests'[c].ahead = 0
    BY <1>4 DEF None, Handling
  <1>14. DelayInv'
    BY <1>4, <1>12, <1>13, DelayOfOthers
  <1> QED BY <1>5, <1>7, <1>8, <1>9, <1>10, <1>14 DEF IInv

\* The handler that wakes has slept for itself and for everybody in the queue;
\* what it may still sleep is less by as much.
LEMMA WakeInv ==
    ASSUME IInv, NEW c \in Clients, Wake(c)
    PROVE  IInv'
  <1>1. requests \in [Clients -> RequestType] /\ requests[c] \in RequestType
    BY DEF IInv, TypeInv
  <1>2. PICK n : n = requests[c].retries
    OBVIOUS
  <1>3. PICK b : b = Backoff(n)
    OBVIOUS
  <1>4. requests[c].pc = "sleeping" /\ n \in 0 .. Retries - 1 /\ n + 1 \in 0 .. Retries
    <2>1. requests[c].pc = "sleeping" BY DEF Wake
    <2>2. n \in 0 .. Retries /\ n < Retries
      BY <1>1, <1>2, <2>1 DEF IInv, RetryInv, RequestType
    <2> QED BY <2>1, <2>2, ServiceAssumption
  <1>5. b \in Nat /\ Sleeps(n + 1) = Sleeps(n) + b /\ Sleeps(n) \in Nat /\ AllSleeps \in Nat
    <2>1. n \in 0 .. Retries BY <1>4, ServiceAssumption
    <2> QED BY <1>3, <1>4, <2>1, SleepFacts
  <1>6. PICK r : r = [requests[c] EXCEPT !.pc = "checking", !.retries = @ + 1, !.delay = @ + b]
    OBVIOUS
  <1>7. /\ r \in RequestType
        /\ r.pc = "checking" /\ r.retries = n + 1 /\ r.delay = requests[c].delay + b
        /\ r.res = requests[c].res /\ r.failures = requests[c].failures
        /\ r.ahead = requests[c].ahead
    <2>1. requests[c].delay \in Nat /\ requests[c].retries = n
      BY <1>1, <1>2 DEF RequestType
    <2>2. requests[c].delay + b \in Nat /\ requests[c].retries + 1 \in 0 .. Retries
      BY <1>4, <1>5, <2>1
    <2>3. r = [requests[c] EXCEPT !.pc = "checking", !.retries = n + 1,
                                  !.delay = requests[c].delay + b]
      BY <1>1, <1>6, <2>1 DEF RequestType
    <2>4. "checking" \in PCs
      BY DEF PCs, Handling
    <2> QED BY <1>1, <2>1, <2>2, <2>3, <2>4 DEF RequestType
  <1> DEFINE later(e) == [requests[e] EXCEPT !.delay = @ + b]
  <1>8. /\ requests' = [e \in Clients |-> IF e = c THEN r
                          ELSE IF requests[e].pc = "queued" THEN later(e) ELSE requests[e]]
        /\ queue' = queue /\ permit' = permit
    BY <1>2, <1>3, <1>6 DEF Wake
  <1>9. ASSUME NEW e \in Clients
        PROVE  /\ later(e) \in RequestType
               /\ later(e).pc = requests[e].pc /\ later(e).res = requests[e].res
               /\ later(e).retries = requests[e].retries
               /\ later(e).failures = requests[e].failures
               /\ later(e).delay = requests[e].delay + b
               /\ later(e).ahead = requests[e].ahead
    <2>1. requests[e] \in RequestType BY <1>1
    <2>2. PICK x : x = later(e) OBVIOUS
    <2>3. /\ x \in RequestType
          /\ x.pc = requests[e].pc /\ x.res = requests[e].res
          /\ x.retries = requests[e].retries
          /\ x.failures = requests[e].failures
          /\ x.delay = requests[e].delay + b
          /\ x.ahead = requests[e].ahead
      BY <1>5, <2>1, <2>2 DEF RequestType
    <2> QED BY <2>2, <2>3
  <1> HIDE DEF later
  <1>10. requests' \in [Clients -> RequestType] /\ requests'[c] = r
    BY <1>1, <1>7, <1>8, <1>9
  <1>11. ASSUME NEW e \in Clients \ {c}
         PROVE  /\ requests'[e].pc = requests[e].pc /\ requests'[e].res = requests[e].res
                /\ requests'[e].retries = requests[e].retries
                /\ requests'[e].failures = requests[e].failures
                /\ requests'[e].ahead = requests[e].ahead
                /\ requests[e].pc = "queued" => requests'[e].delay = requests[e].delay + b
                /\ requests[e].pc # "queued" => requests'[e].delay = requests[e].delay
    <2>1. requests'[e] = IF requests[e].pc = "queued" THEN later(e) ELSE requests[e]
      BY <1>8
    <2> QED BY <1>9, <2>1
  <1>12. TypeInv'
    BY <1>8, <1>10 DEF IInv, TypeInv
  <1>13. \A e \in Clients : requests'[e].pc \in Handling <=> requests[e].pc \in Handling
    BY <1>4, <1>7, <1>10, <1>11 DEF Handling
  <1>14. PermitHeldByHandler' /\ permit = c
    BY <1>4, <1>8, <1>13 DEF IInv, PermitHeldByHandler, Handling
  <1>15. QueueInv'
    <2>1. \A e \in Clients : requests'[e].pc = "queued" <=> requests[e].pc = "queued"
      BY <1>4, <1>7, <1>10, <1>11
    <2> QED BY <1>8, <2>1 DEF IInv, QueueInv
  <1>16. RetryInv'
    <2>1. requests[c].res = "err" => requests[c].failures = n + 2
      BY <1>2, <1>4 DEF IInv, RetryInv
    <2>2. r.res = "err" => r.failures = r.retries + 1
      BY <1>4, <1>7, <2>1
    <2> QED BY <1>7, <1>10, <1>11, <2>2 DEF IInv, RetryInv
  <1>17. GivesUpAfterRetries'
    BY <1>7, <1>10, <1>11 DEF IInv, GivesUpAfterRetries
  <1>18. SleepsLeft' = SleepsLeft - b
    <2>1. SleepsLeft = AllSleeps - Sleeps(n)
      BY <1>2, <1>14, ServiceAssumption DEF SleepsLeft
    <2>2. SleepsLeft' = AllSleeps - Sleeps(n + 1)
      BY <1>7, <1>8, <1>10, <1>14, ServiceAssumption DEF SleepsLeft, AllSleeps, Sleeps
    <2> QED BY <1>5, <2>1, <2>2
  <1>19. SleepsLeft \in Nat
    BY SleepsLeftRange DEF IInv
  <1>20. ASSUME NEW k \in 1 .. Len(queue')
         PROVE  requests'[queue'[k]].delay + (k - 1) * AllSleeps + SleepsLeft'
                   <= requests'[queue'[k]].ahead * AllSleeps
    <2>1. queue' = queue /\ k \in 1 .. Len(queue) /\ queue \in Seq(Clients)
      BY <1>8 DEF IInv, TypeInv
    <2>2. queue[k] \in Clients /\ Len(queue) \in Nat
      BY <2>1, ElementOfSeq, LenProperties
    <2>3. requests[queue[k]].pc = "queued"
      BY <2>1, <2>2 DEF IInv, QueueInv, Holds
    <2>4. /\ requests'[queue[k]].delay = requests[queue[k]].delay + b
          /\ requests'[queue[k]].ahead = requests[queue[k]].ahead
      BY <1>4, <1>11, <2>2, <2>3
    <2>5. requests[queue[k]].delay + (k - 1) * AllSleeps + SleepsLeft
             <= requests[queue[k]].ahead * AllSleeps
      BY <2>1 DEF IInv, DelayInv
    <2>6. requests[queue[k]].delay \in Nat /\ requests[queue[k]].ahead \in Nat
      BY <1>1, <2>2 DEF RequestType
    <2>7. (k - 1) * AllSleeps \in Int /\ requests[queue[k]].ahead * AllSleeps \in Int
      BY <1>5, <2>2, <2>6, OneMore
    <2>8. PICK p \in Int, h \in Int : /\ p = (k - 1) * AllSleeps
                                    /\ h = requests[queue[k]].ahead * AllSleeps
      BY <2>7
    <2>9. requests[queue[k]].delay + p + SleepsLeft <= h
      BY <2>5, <2>8
    <2>10. (requests[queue[k]].delay + b) + p + (SleepsLeft - b) <= h
      BY <1>5, <1>19, <2>6, <2>9
    <2> QED BY <1>18, <2>1, <2>4, <2>8, <2>10
  <1>21. ASSUME NEW e \in Clients, requests'[e].pc \in Handling
         PROVE  requests'[e].delay + (AllSleeps - Sleeps(requests'[e].retries))
                   <= (requests'[e].ahead + 1) * AllSleeps
    <2>1. requests[e].pc \in Handling
      BY <1>13, <1>21
    <2>2. requests[e].delay + (AllSleeps - Sleeps(requests[e].retries))
             <= (requests[e].ahead + 1) * AllSleeps
      BY <2>1 DEF IInv, DelayInv
    <2>3. CASE e # c
      BY <1>11, <2>1, <2>2, <2>3 DEF Handling
    <2>4. CASE e = c
      <3>1. requests[c].delay \in Nat /\ requests[c].ahead \in Nat
        BY <1>1 DEF RequestType
      <3>2. (requests[c].ahead + 1) * AllSleeps \in Int
        BY <1>5, <3>1, OneMore
      <3> QED BY <1>2, <1>5, <1>7, <1>10, <2>2, <2>4, <3>1, <3>2
    <2> QED BY <2>3, <2>4
  <1>22. ASSUME NEW e \in Clients, requests'[e].pc \in {"none"} \cup Finished
         PROVE  requests'[e].delay = 0 /\ requests'[e].ahead = 0
    <2>1. e # c
      BY <1>7, <1>10, <1>22 DEF Finished
    <2> QED BY <1>11, <1>22, <2>1 DEF IInv, DelayInv, Finished
  <1>23. DelayInv'
    BY <1>20, <1>21, <1>22 DEF DelayInv, AllSleeps, Sleeps
  <1> QED BY <1>12, <1>14, <1>15, <1>16, <1>17, <1>23 DEF IInv

\* A query, the first one or a retry.
LEMMA QueriedInv ==
    ASSUME IInv, NEW c \in Clients, NEW res \in Results,
           FirstQuery(c, res) \/ Retry(c, res)
    PROVE  IInv'
  <1>1. requests \in [Clients -> RequestType] /\ requests[c] \in RequestType
    BY DEF IInv, TypeInv
  <1>2. PICK to \in {"checking", "sleeping"} :
           /\ Queried(c, res, to)
           /\ \/ requests[c].pc = "admitted" /\ to = "checking"
              \/ requests[c].pc = "checking" /\ MayRetry(c) /\ to = "sleeping"
    BY DEF FirstQuery, Retry
  <1>3. PICK n : n = requests[c].failures + IF res = "err" THEN 1 ELSE 0
    OBVIOUS
  <1>4. PICK r : r = [requests[c] EXCEPT !.pc = to, !.res = res, !.failures = n]
    OBVIOUS
  <1>5. /\ requests' = [requests EXCEPT ![c] = r]
        /\ UNCHANGED << queue, permit >>
    BY <1>1, <1>2, <1>3, <1>4 DEF Queried
  <1>6. n \in Nat /\ requests[c].failures \in Nat /\ requests[c].retries \in 0 .. Retries
    BY <1>1, <1>3 DEF RequestType
  <1>7. /\ r \in RequestType
        /\ r.pc = to /\ r.res = res /\ r.failures = n
        /\ r.retries = requests[c].retries
        /\ r.delay = requests[c].delay /\ r.ahead = requests[c].ahead
    <2>1. to \in PCs BY DEF PCs, Handling
    <2> QED BY <1>1, <1>4, <1>6, <2>1 DEF RequestType
  <1>8. /\ requests' \in [Clients -> RequestType] /\ requests'[c] = r
        /\ \A d \in Clients \ {c} : requests'[d] = requests[d]
    BY <1>1, <1>5, <1>7
  <1>9. requests[c].pc \in Handling /\ r.pc \in Handling
    BY <1>2, <1>7 DEF Handling
  <1>10. TypeInv' /\ PermitHeldByHandler' /\ QueueInv' /\ DelayInv'
    BY <1>5, <1>7, <1>8, <1>9, StaysHandled
  <1>11. RetryInv'
    <2>1. CASE requests[c].pc = "admitted" /\ to = "checking"
      <3>1. requests[c].failures = 0 /\ requests[c].retries = 0
        BY <2>1 DEF IInv, RetryInv
      <3>2. res = "err" => n = requests[c].retries + 1
        BY <1>3, <3>1
      <3> QED BY <1>7, <1>8, <2>1, <3>2 DEF IInv, RetryInv
    <2>2. CASE requests[c].pc = "checking" /\ MayRetry(c) /\ to = "sleeping"
      <3>1. requests[c].failures = requests[c].retries + 1 /\ requests[c].retries < Retries
        BY <2>2 DEF IInv, RetryInv, MayRetry
      <3>2. res = "err" => n = requests[c].retries + 2
        BY <1>3, <1>6, <3>1
      <3> QED BY <1>7, <1>8, <2>2, <3>1, <3>2 DEF IInv, RetryInv
    <2> QED BY <1>2, <2>1, <2>2
  <1>12. GivesUpAfterRetries'
    BY <1>7, <1>8 DEF IInv, GivesUpAfterRetries
  <1> QED BY <1>10, <1>11, <1>12 DEF IInv

\* The trusted block is there, or the circuit has proved.
LEMMA ProceedsInv ==
    ASSUME IInv, NEW c \in Clients, Fetched(c) \/ CircuitProves(c)
    PROVE  IInv'
  <1>1. requests \in [Clients -> RequestType] /\ requests[c] \in RequestType
    BY DEF IInv, TypeInv
  <1>2. PICK to \in {"proving", "wrapping"} :
           /\ requests' = [requests EXCEPT ![c].pc = to]
           /\ UNCHANGED << queue, permit >>
           /\ requests[c].pc \in {"checking", "proving"}
           /\ requests[c].res = "header"
    BY DEF Fetched, CircuitProves, IInv, RetryInv
  <1>3. PICK r : r = [requests[c] EXCEPT !.pc = to]
    OBVIOUS
  <1>4. /\ r \in RequestType
        /\ r.pc = to /\ r.res = "header" /\ r.failures = requests[c].failures
        /\ r.retries = requests[c].retries
        /\ r.delay = requests[c].delay /\ r.ahead = requests[c].ahead
    <2>1. to \in PCs BY DEF PCs, Handling
    <2> QED BY <1>1, <1>2, <1>3, <2>1 DEF RequestType
  <1>5. /\ requests' \in [Clients -> RequestType] /\ requests'[c] = r
        /\ \A d \in Clients \ {c} : requests'[d] = requests[d]
    BY <1>1, <1>2, <1>3, <1>4
  <1>6. requests[c].pc \in Handling /\ r.pc \in Handling
    BY <1>2, <1>4 DEF Handling
  <1>7. TypeInv' /\ PermitHeldByHandler' /\ QueueInv' /\ DelayInv'
    BY <1>2, <1>4, <1>5, <1>6, StaysHandled
  <1>8. RetryInv'
    BY <1>4, <1>5 DEF IInv, RetryInv
  <1>9. GivesUpAfterRetries'
    BY <1>4, <1>5 DEF IInv, GivesUpAfterRetries
  <1> QED BY <1>7, <1>8, <1>9 DEF IInv

\* The handler returns or panics.
LEMMA EndsInv ==
    ASSUME IInv, NEW c \in Clients,
           \/ FetchPanics(c) \/ CircuitPanics(c)
           \/ \E pc \in Finished : Wrapped(c, pc)
    PROVE  IInv'
  <1>1. PICK pc \in {"answered", "panicked"} :
           /\ Finish(c, pc) /\ UNCHANGED queue
           /\ \/ /\ requests[c].pc = "checking" /\ ~MayRetry(c)
                 /\ requests[c].res # "header"
              \/ requests[c].pc \in {"proving", "wrapping"}
    BY DEF FetchPanics, CircuitPanics, Wrapped
  <1>2. pc \in Finished /\ requests[c].pc \in Handling
    BY <1>1 DEF Finished, Handling
  <1>3. TypeInv' /\ PermitHeldByHandler' /\ QueueInv' /\ DelayInv'
    BY <1>1, <1>2, FinishesHandled
  <1>4. RetryInv'
    BY <1>1, <1>2, FinishKeepsRetries
  <1>5. /\ requests'[c].res = requests[c].res
        /\ requests'[c].failures = requests[c].failures
        /\ \A d \in Clients \ {c} : requests'[d] = requests[d]
    BY <1>1, <1>2, FinishedRequest
  <1>6. requests[c].res = "err" => requests[c].failures = Retries + 1
    <2>1. CASE requests[c].pc = "checking" /\ ~MayRetry(c)
      <3>1. requests[c].retries \in 0 .. Retries
        BY DEF IInv, TypeInv, RequestType
      <3>2. requests[c].res = "err" => requests[c].retries = Retries
        BY <2>1, <3>1, ServiceAssumption DEF MayRetry
      <3> QED BY <2>1, <3>2 DEF IInv, RetryInv
    <2>2. CASE requests[c].pc \in {"proving", "wrapping"}
      BY <2>2 DEF IInv, RetryInv
    <2> QED BY <1>1, <2>1, <2>2
  <1>7. GivesUpAfterRetries'
    BY <1>5, <1>6 DEF IInv, GivesUpAfterRetries
  <1> QED BY <1>3, <1>4, <1>7 DEF IInv

LEMMA NextInv == IInv /\ [Next]_vars => IInv'
  <1> SUFFICES ASSUME IInv, [Next]_vars PROVE IInv'
    OBVIOUS
  <1>1. CASE Admit
    BY <1>1, AdmitInv
  <1>2. ASSUME NEW c \in Clients, Handle(c) PROVE IInv'
    BY <1>2, QueriedInv, WakeInv, ProceedsInv, EndsInv DEF Handle
  <1>3. ASSUME NEW c \in Clients, Disconnect(c) \/ Forget(c) PROVE IInv'
    BY <1>3, DisconnectInv, ForgetInv
  <1>4. ASSUME NEW c \in Clients, NEW gap \in Gaps, Send(c, gap) PROVE IInv'
    BY <1>4, SendInv
  <1>5. CASE UNCHANGED vars
    BY <1>5 DEF vars, IInv, TypeInv, PermitHeldByHandler, QueueInv, RetryInv,
                GivesUpAfterRetries, DelayInv, SleepsLeft, AllSleeps, Sleeps
  <1> QED BY <1>1, <1>2, <1>3, <1>4, <1>5 DEF Next

\* The inductive invariant bounds the delay of every request.
LEMMA DelayFollows == IInv => DelayBounded
  <1> SUFFICES ASSUME IInv, NEW c \in Clients
               PROVE  requests[c].delay <= (requests[c].ahead + 1) * AllSleeps
    BY DEF DelayBounded, AllSleeps
  <1>1. /\ requests[c].delay \in Nat /\ requests[c].ahead \in Nat
        /\ requests[c].retries \in 0 .. Retries /\ requests[c].pc \in PCs
    BY DEF IInv, TypeInv, RequestType
  <1>2. AllSleeps \in Nat /\ SleepsLeft \in Nat
    BY SleepFacts, SleepsLeftRange DEF IInv
  <1>3. /\ requests[c].ahead * AllSleeps \in Int
        /\ (requests[c].ahead + 1) * AllSleeps = requests[c].ahead * AllSleeps + AllSleeps
    BY <1>1, <1>2, OneMore
  <1>4. CASE requests[c].pc \in Handling
    <2>1. requests[c].delay + (AllSleeps - Sleeps(requests[c].retries))
             <= (requests[c].ahead + 1) * AllSleeps
      BY <1>4 DEF IInv, DelayInv
    <2>2. Sleeps(requests[c].retries) \in Nat /\ Sleeps(requests[c].retries) <= AllSleeps
      BY <1>1, SleepFacts
    <2> QED BY <1>1, <1>2, <1>3, <2>1, <2>2
  <1>5. CASE requests[c].pc = "queued"
    <2>1. PICK k \in 1 .. Len(queue) : queue[k] = c
      BY <1>5 DEF IInv, QueueInv, Holds
    <2>2. requests[c].delay + (k - 1) * AllSleeps + SleepsLeft
             <= requests[c].ahead * AllSleeps
      BY <2>1 DEF IInv, DelayInv
    <2>3. Len(queue) \in Nat
      BY LenProperties DEF IInv, TypeInv
    <2>4. PICK n \in Nat, h \in Int : /\ n = (k - 1) * AllSleeps
                                    /\ h = requests[c].ahead * AllSleeps
      <3>1. k - 1 \in Nat BY <2>3
      <3>2. (k - 1) * AllSleeps \in Nat BY <1>2, <3>1
      <3> QED BY <1>3, <3>2
    <2>5. requests[c].delay <= requests[c].ahead * AllSleeps
      <3>1. requests[c].delay + n + SleepsLeft <= h
        BY <2>2, <2>4
      <3>2. requests[c].delay <= h
        BY <1>1, <1>2, <3>1
      <3> QED BY <2>4, <3>2
    <2> QED BY <1>1, <1>2, <1>3, <2>5
  <1>6. CASE requests[c].pc \in {"none"} \cup Finished
    <2>1. requests[c].delay = 0 /\ requests[c].ahead = 0
      BY <1>6 DEF IInv, DelayInv
    <2> QED BY <1>2, <2>1
  <1> QED BY <1>1, <1>4, <1>5, <1>6 DEF PCs

-----------------------------------------------------------------------------
(* Theorems *)

\* The permit of ConcurrencyLimitLayer belongs to exactly the request that is
\* handled, through panics, refused requests and closed connections, for any
\* number of callers.
THEOREM PermitAlways == Spec => []PermitHeldByHandler
  <1>1. IInv => PermitHeldByHandler
    BY DEF IInv
  <1> QED BY <1>1, InitInv, NextInv, PTL DEF Spec

\* request_from_rpc gives up on a connection only after the first query and all
\* of its retries have failed, whatever their number.
THEOREM RetriesUsedUp == Spec => []GivesUpAfterRetries
  <1>1. IInv => GivesUpAfterRetries
    BY DEF IInv
  <1> QED BY <1>1, InitInv, NextInv, PTL DEF Spec

\* The sleeps of request_from_rpc delay a request by at most 2^Retries - 1
\* seconds for itself and for each request that was before it.
THEOREM DelayAlways == Spec => []DelayBounded
  <1> QED BY InitInv, NextInv, DelayFollows, PTL DEF Spec

=============================================================================
