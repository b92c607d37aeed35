---------------------------- MODULE SerialProofs ----------------------------
(***************************************************************************)
(* Theorems about Serial for any number of readers, writers and slots: the *)
(* types, the interrupt enable register, that nobody sleeps on work, and   *)
(* that both queues are first in, first out (ByteQueue).                   *)
(***************************************************************************)
EXTENDS Serial, TLAPS, SequenceTheorems

\* Who may be where, of queue n holding q: sleepers of the lock are in
\* lock_acquire, each once; the lock has an owner, in wait (), exactly while it
\* is locked; whoever is to be woken is in wait () with nothing to do.
Placed(n, q, where) ==
  /\ \A i \in 1 .. Len(q.sleepers) : /\ q.sleepers[i] \in Threads
                                     /\ name(q.sleepers[i]) = n
                                     /\ where[q.sleepers[i]] = "lock"
  /\ \A i, j \in 1 .. Len(q.sleepers) : q.sleepers[i] = q.sleepers[j] => i = j
  /\ q.locked <=> \E t \in Threads : name(t) = n /\ where[t] = "wait"
  /\ \A t, u \in Threads : name(t) = n /\ name(u) = n /\ where[t] = "wait" /\ where[u] = "wait" => t = u
  /\ q.waiter # NULL => /\ q.waiter \in Threads /\ name(q.waiter) = n /\ where[q.waiter] = "wait"
                        /\ must_wait(q.waiter, q)

\* Whoever sleeps in lock_acquire sleeps behind an owner or a thread on its way.
Led(n, q, where) ==
  q.sleepers # <<>> => \/ q.locked
                       \/ \E u \in Threads : name(u) = n /\ where[u] = "lock" /\ ~ Contains(q.sleepers, u)

QueueInv(n, q, where) == Placed(n, q, where) /\ Led(n, q, where)

SerialInv == \A n \in Queues : QueueInv(n, intq[n], pc)

-----------------------------------------------------------------------------
(* Types *)

\* next stays inside the array.
LEMMA NextSlot == ASSUME NEW i \in Slots PROVE next(i) \in Slots
BY SerialAssumption DEF next, Slots

\* What intq.c does to a queue leaves a queue.
LEMMA QueueOps ==
  ASSUME NEW q \in QueueType
  PROVE  /\ signal(q) \in QueueType /\ get(q) \in QueueType /\ release(q) \in QueueType
         /\ next_byte(q) \in Bytes \cup {NULL}
         /\ \A b \in Bytes \cup {NULL} : put(q, b) \in QueueType
         /\ \A t \in Threads : acquire_wait(q, t) \in QueueType
<1>1. q.head \in Slots /\ q.tail \in Slots
  BY DEF QueueType
<1>2. next(q.head) \in Slots /\ next(q.tail) \in Slots
  BY <1>1, NextSlot
<1>3. signal(q) \in QueueType
  BY DEF QueueType, signal
<1>4. get(q) \in QueueType
  BY <1>1, <1>2 DEF QueueType, get
<1>5. release(q) \in QueueType
  <2>1. q.sleepers \in Seq(Threads)
    BY DEF QueueType
  <2>2. (IF q.sleepers = <<>> THEN <<>> ELSE Tail(q.sleepers)) \in Seq(Threads)
    BY <2>1
  <2> QED BY <2>2 DEF QueueType, release
<1>6. next_byte(q) \in Bytes \cup {NULL}
  BY <1>1 DEF QueueType, next_byte
<1>7. \A b \in Bytes \cup {NULL} : put(q, b) \in QueueType
  BY <1>1, <1>2 DEF QueueType, put
<1>8. \A t \in Threads : acquire_wait(q, t) \in QueueType
  <2> TAKE t \in Threads
  <2>1. Append(q.sleepers, t) \in Seq(Threads)
    BY DEF QueueType
  <2> QED BY <2>1 DEF QueueType, acquire_wait
<1> QED BY <1>3, <1>4, <1>5, <1>6, <1>7, <1>8

LEMMA NameIsQueue == \A t : name(t) \in Queues
BY DEF name, Queues

\* The end of input_getc and serial_putc keeps the types.
LEMMA LoopType ==
  ASSUME SerialTypeOK, NEW t \in Threads, NEW b \in Bytes \cup {NULL}, NEW q \in QueueType, loop(t, b, q)
  PROVE  SerialTypeOK'
<1>1. name(t) \in Queues /\ "rx" \in Queues /\ "tx" \in Queues
  BY NameIsQueue DEF Queues
<1>2. CASE suspend(t, b, q)
  <2>1. acquire_wait(q, t) \in QueueType
    BY QueueOps
  <2> QED BY <1>1, <1>2, <2>1 DEF SerialTypeOK, suspend, device
<1>3. CASE input_getc_returns(t, q)
  <2>1. get(q) \in QueueType /\ next_byte(q) \in Bytes \cup {NULL}
    BY QueueOps
  <2>2. ier' \subseteq {"XMIT", "RECV"}
    BY <1>3 DEF input_getc_returns, serial_notify, write_ier, SerialTypeOK
  <2> QED BY <1>1, <1>3, <2>1, <2>2 DEF SerialTypeOK, input_getc_returns, return, device
<1>4. CASE serial_putc_returns(t, b, q)
  <2>1. put(q, b) \in QueueType
    BY QueueOps
  <2>2. ier' \subseteq {"XMIT", "RECV"}
    BY <1>4 DEF serial_putc_returns, write_ier
  <2> QED BY <1>1, <1>4, <2>1, <2>2 DEF SerialTypeOK, serial_putc_returns, return, device
<1> QED BY <1>2, <1>3, <1>4 DEF loop

LEMMA TypeStep == SerialTypeOK /\ [Next]_vars => SerialTypeOK'
<1> SUFFICES ASSUME SerialTypeOK, [Next]_vars PROVE SerialTypeOK'
  OBVIOUS
<1> USE DEF Queues
<1>q. intq["rx"] \in QueueType /\ intq["tx"] \in QueueType /\ \A t : queue(t) \in QueueType
  BY NameIsQueue DEF SerialTypeOK, queue
<1>b. Keys \cup Line \cup Sent \cup Polled \subseteq Bytes
  BY DEF Bytes
<1>1. ASSUME NEW t \in Threads, input_getc(t) PROVE SerialTypeOK'
  BY <1>1, <1>q, LoopType DEF input_getc
<1>2. ASSUME NEW t \in Threads, serial_putc(t) PROVE SerialTypeOK'
  BY <1>2, <1>q, <1>b, LoopType DEF serial_putc
<1>3. ASSUME NEW t \in Threads, lock_acquired(t) PROVE SerialTypeOK'
  <2>1. CASE suspend(t, arg[t], queue(t))
    <3>1. acquire_wait(queue(t), t) \in QueueType /\ name(t) \in Queues
      BY <1>q, QueueOps, NameIsQueue
    <3> QED BY <2>1, <3>1 DEF SerialTypeOK, suspend, device
  <2>2. CASE panic' = TRUE /\ UNCHANGED <<intq, pc, arg, key, mode, ier, device, polls>>
    BY <2>2 DEF SerialTypeOK, device
  <2> QED BY <1>3, <2>1, <2>2 DEF lock_acquired
<1>4. ASSUME NEW t \in Threads, signalled(t) PROVE SerialTypeOK'
  <2>1. release(queue(t)) \in QueueType /\ arg[t] \in Bytes \cup {NULL}
    BY <1>q, QueueOps DEF SerialTypeOK
  <2> QED BY <1>4, <2>1, LoopType DEF signalled
<1>5. ASSUME serial_putc_off PROVE SerialTypeOK'
  <2>1. PICK c \in Polled :
          LET q     == intq["tx"]
              freed == IF Full(q) THEN signal(get(q)) ELSE q
          IN IF mode = "POLL"
             THEN putc_poll(c) /\ UNCHANGED <<intq, ier, polls>>
             ELSE /\ polls < MaxPolls
                  /\ polls' = polls + 1
                  /\ IF Full(q) THEN putc_poll(next_byte(q)) ELSE UNCHANGED device
                  /\ intq' = [intq EXCEPT !["tx"] = put(freed, c)]
                  /\ write_ier(intq')
    BY <1>5 DEF serial_putc_off
  <2>2. UNCHANGED <<pc, arg, key, mode, panic>>
    BY <1>5 DEF serial_putc_off
  <2>3. c \in Bytes /\ next_byte(intq["tx"]) \in Bytes \cup {NULL}
    BY <1>q, <1>b, QueueOps
  <2>4. CASE mode = "POLL"
    BY <2>1, <2>2, <2>3, <2>4 DEF SerialTypeOK, putc_poll
  <2>5. CASE mode # "POLL"
    <3> DEFINE freed == IF Full(intq["tx"]) THEN signal(get(intq["tx"])) ELSE intq["tx"]
    <3>1. freed \in QueueType
      BY <1>q, QueueOps
    <3>2. put(freed, c) \in QueueType
      BY <2>3, <3>1, QueueOps
    <3>3. intq' = [intq EXCEPT !["tx"] = put(freed, c)] /\ write_ier(intq')
      BY <2>1, <2>5
    <3>4. ier' \subseteq {"XMIT", "RECV"}
      BY <3>3 DEF write_ier
    <3>5. polls' \in 0 .. MaxPolls
      BY <2>1, <2>5, SerialAssumption DEF SerialTypeOK
    <3>6. thr' \in Bytes \cup {NULL} /\ thre' \in BOOLEAN /\ rbr' = rbr
      BY <2>1, <2>5, <2>3 DEF SerialTypeOK, putc_poll, device
    <3> HIDE DEF freed
    <3> QED BY <2>2, <3>2, <3>3, <3>4, <3>5, <3>6 DEF SerialTypeOK
  <2> QED BY <2>4, <2>5
<1>6. ASSUME serial_init_queue PROVE SerialTypeOK'
  BY <1>6 DEF SerialTypeOK, serial_init_queue, write_ier, device
<1>7. ASSUME serial_flush PROVE SerialTypeOK'
  <2>1. signal(get(intq["tx"])) \in QueueType /\ next_byte(intq["tx"]) \in Bytes \cup {NULL}
    BY <1>q, QueueOps
  <2> QED BY <1>7, <2>1 DEF SerialTypeOK, serial_flush, putc_poll, device
<1>8. ASSUME keyboard_interrupt PROVE SerialTypeOK'
  <2>1. PICK c \in Keys : intq' = input_putc(c)
    BY <1>8 DEF keyboard_interrupt
  <2>2. put(intq["rx"], c) \in QueueType
    BY <1>q, <1>b, QueueOps
  <2>3. signal(put(intq["rx"], c)) \in QueueType
    BY <2>2, QueueOps
  <2> QED BY <1>8, <2>1, <2>3
      DEF SerialTypeOK, keyboard_interrupt, input_putc, serial_notify, write_ier, device
<1>9. ASSUME serial_interrupt PROVE SerialTypeOK'
  <2> DEFINE receives  == ~ Full(intq["rx"]) /\ rbr # NULL
             received  == IF receives THEN input_putc(rbr) ELSE intq
             q         == intq["tx"]
             transmits == ~ Empty(q) /\ thre
  <2>1. rbr \in Bytes \cup {NULL} /\ intq \in [Queues -> QueueType]
    BY DEF SerialTypeOK
  <2>2. put(intq["rx"], rbr) \in QueueType
    BY <1>q, <2>1, QueueOps
  <2>3. received \in [Queues -> QueueType]
    <3>1. signal(put(intq["rx"], rbr)) \in QueueType
      BY <2>2, QueueOps
    <3> QED BY <2>1, <3>1 DEF input_putc
  <2>4. signal(get(q)) \in QueueType /\ next_byte(q) \in Bytes \cup {NULL}
    BY <1>q, QueueOps
  <2>5. /\ rbr' = IF receives THEN NULL ELSE rbr
        /\ intq' = IF transmits THEN [received EXCEPT !["tx"] = signal(get(q))] ELSE received
        /\ IF transmits THEN thr' = next_byte(q) /\ thre' = FALSE ELSE UNCHANGED <<thr, thre>>
        /\ write_ier(intq')
        /\ UNCHANGED <<pc, arg, key, mode, polls, panic>>
    BY <1>9 DEF serial_interrupt
  <2>6. ier' \subseteq {"XMIT", "RECV"}
    BY <2>5 DEF write_ier
  <2> HIDE DEF received, q, transmits, receives
  <2>7. intq' \in [Queues -> QueueType]
    BY <2>3, <2>4, <2>5
  <2> QED BY <2>1, <2>4, <2>5, <2>6, <2>7 DEF SerialTypeOK
<1>10. ASSUME byte_arrives \/ transmitter_ready PROVE SerialTypeOK'
  BY <1>10, <1>b DEF SerialTypeOK, byte_arrives, transmitter_ready, device
<1>11. CASE UNCHANGED vars
  BY <1>11 DEF SerialTypeOK, vars, device
<1> QED
  BY <1>1, <1>2, <1>3, <1>4, <1>5, <1>6, <1>7, <1>8, <1>9, <1>10, <1>11 DEF Next, wakes

LEMMA TypeInit == Init => SerialTypeOK
<1> SUFFICES ASSUME Init PROVE SerialTypeOK
  OBVIOUS
<1>1. 0 \in Slots /\ 0 \in 0 .. MaxPolls
  BY SerialAssumption DEF Slots
<1>2. EmptyQueue \in QueueType
  BY <1>1 DEF EmptyQueue, QueueType
<1> QED BY <1>1, <1>2 DEF Init, SerialTypeOK

\* Every variable of Serial keeps its type, the positions in the rings in
\* particular (next, intq.c:79), for any size of ring and any threads.
THEOREM SerialTypeCorrect == Spec => []SerialTypeOK
BY TypeInit, TypeStep, PTL DEF Spec

-----------------------------------------------------------------------------
(* The interrupt enable register *)

LEMMA WrittenIsArmed == write_ier(intq') => InterruptsArmed'
BY DEF write_ier, InterruptsArmed

\* Sleeping, waking and the lock do not move the positions.
LEMMA SamePositions ==
  ASSUME NEW q \in QueueType
  PROVE  /\ \A t : acquire_wait(q, t).head = q.head /\ acquire_wait(q, t).tail = q.tail
         /\ release(q).head = q.head /\ release(q).tail = q.tail
         /\ signal(q).head = q.head /\ signal(q).tail = q.tail
BY DEF QueueType, acquire_wait, release, signal

LEMMA SuspendArmed ==
  ASSUME SerialTypeOK, InterruptsArmed, NEW t \in Threads, NEW b, NEW q \in QueueType,
         q.head = queue(t).head, q.tail = queue(t).tail, suspend(t, b, q)
  PROVE  InterruptsArmed'
<1>1. name(t) \in Queues
  BY NameIsQueue
<1>2. intq' = [intq EXCEPT ![name(t)] = acquire_wait(q, t)] /\ UNCHANGED <<mode, ier>>
  BY DEF suspend
<1>3. intq \in [Queues -> QueueType]
  BY DEF SerialTypeOK
<1>4. \A n \in Queues : intq'[n].head = intq[n].head /\ intq'[n].tail = intq[n].tail
  BY <1>1, <1>2, <1>3, SamePositions DEF queue
<1>5. \A n \in Queues : (Empty(intq'[n]) <=> Empty(intq[n])) /\ (Full(intq'[n]) <=> Full(intq[n]))
  BY <1>4 DEF Empty, Full
<1> QED BY <1>2, <1>5 DEF InterruptsArmed, Queues

LEMMA LoopArmed ==
  ASSUME SerialTypeOK, InterruptsArmed, NEW t \in Threads, NEW b, NEW q \in QueueType,
         q.head = queue(t).head, q.tail = queue(t).tail, loop(t, b, q)
  PROVE  InterruptsArmed'
<1>1. CASE suspend(t, b, q)
  BY <1>1, SuspendArmed
<1>2. CASE input_getc_returns(t, q)
  <2>1. CASE mode = "QUEUE"
    BY <1>2, <2>1, WrittenIsArmed DEF input_getc_returns, serial_notify
  <2>2. CASE mode # "QUEUE"
    BY <1>2, <2>2 DEF input_getc_returns, InterruptsArmed
  <2> QED BY <2>1, <2>2
<1>3. CASE serial_putc_returns(t, b, q)
  BY <1>3, WrittenIsArmed DEF serial_putc_returns
<1> QED BY <1>1, <1>2, <1>3 DEF loop

LEMMA ArmedStep == SerialTypeOK /\ InterruptsArmed /\ [Next]_vars => InterruptsArmed'
<1> SUFFICES ASSUME SerialTypeOK, InterruptsArmed, [Next]_vars PROVE InterruptsArmed'
  OBVIOUS
<1>q. \A t : queue(t) \in QueueType
  BY NameIsQueue DEF SerialTypeOK, queue
<1>1. ASSUME NEW t \in Threads, input_getc(t) PROVE InterruptsArmed'
  BY <1>1, <1>q, LoopArmed DEF input_getc
<1>2. ASSUME NEW t \in Threads, serial_putc(t) PROVE InterruptsArmed'
  BY <1>2, <1>q, LoopArmed DEF serial_putc
<1>3. ASSUME NEW t \in Threads, lock_acquired(t) PROVE InterruptsArmed'
  <2>1. CASE suspend(t, arg[t], queue(t))
    BY <2>1, <1>q, SuspendArmed
  <2>2. CASE UNCHANGED <<intq, pc, arg, key, mode, ier, device, polls>>
    BY <2>2 DEF InterruptsArmed
  <2> QED BY <1>3, <2>1, <2>2 DEF lock_acquired
<1>4. ASSUME NEW t \in Threads, signalled(t) PROVE InterruptsArmed'
  <2>1. release(queue(t)) \in QueueType /\ release(queue(t)).head = queue(t).head
        /\ release(queue(t)).tail = queue(t).tail
    BY <1>q, QueueOps, SamePositions
  <2> QED BY <1>4, <2>1, LoopArmed DEF signalled
<1>5. ASSUME serial_putc_off PROVE InterruptsArmed'
  <2>1. CASE mode = "POLL"
    BY <1>5, <2>1 DEF serial_putc_off, InterruptsArmed
  <2>2. CASE mode # "POLL"
    BY <1>5, <2>2, WrittenIsArmed DEF serial_putc_off
  <2> QED BY <2>1, <2>2
<1>6. ASSUME serial_init_queue PROVE InterruptsArmed'
  <2>1. write_ier(intq')
    BY <1>6 DEF serial_init_queue, write_ier
  <2> QED BY <2>1, WrittenIsArmed
<1>7. ASSUME serial_flush PROVE InterruptsArmed'
  BY <1>7 DEF serial_flush, InterruptsArmed
<1>8. ASSUME keyboard_interrupt PROVE InterruptsArmed'
  <2>1. CASE mode = "QUEUE"
    BY <1>8, <2>1, WrittenIsArmed DEF keyboard_interrupt, serial_notify
  <2>2. CASE mode # "QUEUE"
    BY <1>8, <2>2 DEF keyboard_interrupt, InterruptsArmed
  <2> QED BY <2>1, <2>2
<1>9. ASSUME serial_interrupt PROVE InterruptsArmed'
  BY <1>9, WrittenIsArmed DEF serial_interrupt
<1>10. ASSUME byte_arrives \/ transmitter_ready PROVE InterruptsArmed'
  BY <1>10 DEF byte_arrives, transmitter_ready, InterruptsArmed
<1>11. CASE UNCHANGED vars
  BY <1>11 DEF vars, InterruptsArmed
<1> QED
  BY <1>1, <1>2, <1>3, <1>4, <1>5, <1>6, <1>7, <1>8, <1>9, <1>10, <1>11 DEF Next, wakes

\* Whoever moves a queue (input_getc, serial_putc, either handler, a poll), the
\* interrupt enable register follows: bytes to send are sent, and the line is
\* listened to exactly while there is room (write_ier, serial.c:177).
THEOREM RegisterFollowsQueues == Spec => []InterruptsArmed
<1>1. Init => InterruptsArmed
  BY DEF Init, InterruptsArmed
<1> QED BY <1>1, SerialTypeCorrect, ArmedStep, PTL DEF Spec

-----------------------------------------------------------------------------
(* Sleepers *)

Places == [Threads -> {"run", "lock", "wait"}]

\* Two threads of a queue wait for the same thing.
LEMMA SameWork ==
  ASSUME NEW t \in Threads, NEW u \in Threads, name(t) = name(u), NEW q
  PROVE  must_wait(t, q) <=> must_wait(u, q)
BY DEF name, must_wait

\* What is waited for depends on the positions only.
LEMMA SamePlaceSameWork ==
  ASSUME NEW t, NEW q, NEW r, r.head = q.head, r.tail = q.tail
  PROVE  must_wait(t, r) <=> must_wait(t, q)
BY DEF must_wait, Empty, Full

\* A queue changes for its own threads only.
LEMMA OtherQueue ==
  ASSUME NEW n, NEW q \in QueueType, NEW v, NEW w, QueueInv(n, q, v),
         \A u \in Threads : name(u) = n => w[u] = v[u]
  PROVE  QueueInv(n, q, w)
<1>1. Placed(n, q, w)
  BY DEF QueueInv, Placed
<1>2. Led(n, q, w)
  BY DEF QueueInv, Led
<1> QED BY <1>1, <1>2 DEF QueueInv

\* Bytes move and nobody is left to wake.
LEMMA Moved ==
  ASSUME NEW n, NEW q \in QueueType, NEW r \in QueueType, NEW w, QueueInv(n, q, w),
         r.waiter = NULL, r.locked = q.locked, r.sleepers = q.sleepers
  PROVE  QueueInv(n, r, w)
BY DEF QueueInv, Placed, Led

\* A thread that need not wait finds nobody to be woken.
LEMMA NobodyWaits ==
  ASSUME NEW n, NEW q \in QueueType, NEW w, Placed(n, q, w),
         NEW t \in Threads, name(t) = n, ~ must_wait(t, q)
  PROVE  q.waiter = NULL
BY SameWork DEF Placed

\* lock_acquire and wait ().
LEMMA AcquireInv ==
  ASSUME NEW n, NEW q \in QueueType, NEW w \in Places, Placed(n, q, w),
         NEW t \in Threads, name(t) = n, w[t] # "wait", ~ Contains(q.sleepers, t),
         q.locked \/ must_wait(t, q)
  PROVE  QueueInv(n, acquire_wait(q, t), [w EXCEPT ![t] = IF q.locked THEN "lock" ELSE "wait"])
<1> DEFINE r == acquire_wait(q, t)
           x == [w EXCEPT ![t] = IF q.locked THEN "lock" ELSE "wait"]
<1>0. q.sleepers \in Seq(Threads) /\ q.locked \in BOOLEAN
  BY DEF QueueType
<1>1. \A u \in Threads : u # t => x[u] = w[u]
  BY DEF Places
<1>2. \A u : must_wait(u, r) <=> must_wait(u, q)
  BY SamePositions, SamePlaceSameWork
<1>3. CASE q.locked
  <2>1. x[t] = "lock"
    BY <1>3 DEF Places
  <2>2. r.sleepers = Append(q.sleepers, t) /\ r.locked /\ r.waiter = q.waiter
    BY <1>3 DEF acquire_wait, QueueType
  <2>3. /\ Len(r.sleepers) = Len(q.sleepers) + 1 /\ r.sleepers[Len(q.sleepers) + 1] = t
        /\ \A i \in 1 .. Len(q.sleepers) : r.sleepers[i] = q.sleepers[i] /\ q.sleepers[i] # t
    BY <1>0, <2>2 DEF Contains
  <2>4. Len(q.sleepers) \in Nat
    BY <1>0
  <2> HIDE DEF r, x
  <2>5. \A i \in 1 .. Len(r.sleepers) : i = Len(q.sleepers) + 1 \/ i \in 1 .. Len(q.sleepers)
    BY <2>3, <2>4
  <2>6. \A i \in 1 .. Len(r.sleepers) : /\ r.sleepers[i] \in Threads
                                        /\ name(r.sleepers[i]) = n
                                        /\ x[r.sleepers[i]] = "lock"
    BY <1>1, <2>1, <2>3, <2>5 DEF Placed
  <2>7. \A i, j \in 1 .. Len(r.sleepers) : r.sleepers[i] = r.sleepers[j] => i = j
    BY <2>3, <2>5 DEF Placed
  <2>8. \A u \in Threads : x[u] = "wait" <=> w[u] = "wait"
    BY <1>1, <2>1
  <2>9. r.locked <=> \E u \in Threads : name(u) = n /\ x[u] = "wait"
    BY <1>3, <2>2, <2>8 DEF Placed
  <2>10. \A u, v \in Threads : name(u) = n /\ name(v) = n /\ x[u] = "wait" /\ x[v] = "wait" => u = v
    BY <2>8 DEF Placed
  <2>11. r.waiter # NULL => /\ r.waiter \in Threads /\ name(r.waiter) = n /\ x[r.waiter] = "wait"
                            /\ must_wait(r.waiter, r)
    BY <1>2, <2>2, <2>8 DEF Placed
  <2>12. Placed(n, r, x)
    BY <2>6, <2>7, <2>9, <2>10, <2>11 DEF Placed
  <2> QED BY <2>2, <2>12 DEF QueueInv, Led, r, x
<1>4. CASE ~ q.locked
  <2>1. x[t] = "wait"
    BY <1>4 DEF Places
  <2>2. r.sleepers = q.sleepers /\ r.locked /\ r.waiter = t
    BY <1>4 DEF acquire_wait, QueueType
  <2> HIDE DEF r, x
  <2>3. \A u \in Threads : name(u) = n => w[u] # "wait"
    BY <1>4 DEF Placed
  <2>4. \A i \in 1 .. Len(r.sleepers) : /\ r.sleepers[i] \in Threads
                                        /\ name(r.sleepers[i]) = n
                                        /\ x[r.sleepers[i]] = "lock"
    BY <1>1, <2>2 DEF Placed, Contains
  <2>5. \A i, j \in 1 .. Len(r.sleepers) : r.sleepers[i] = r.sleepers[j] => i = j
    BY <2>2 DEF Placed
  <2>6. must_wait(t, r)
    BY <1>2, <1>4
  <2>7. Placed(n, r, x)
    BY <1>1, <2>1, <2>2, <2>3, <2>4, <2>5, <2>6 DEF Placed
  <2> QED BY <2>2, <2>7 DEF QueueInv, Led, r, x
<1> QED BY <1>0, <1>3, <1>4

\* Out of wait () and lock_release: the first sleeper is on his way.
LEMMA ReleaseInv ==
  ASSUME NEW n, NEW q \in QueueType, NEW w \in Places, Placed(n, q, w),
         NEW t \in Threads, name(t) = n, w[t] = "wait", q.waiter # t
  PROVE  QueueInv(n, release(q), [w EXCEPT ![t] = "run"])
<1> DEFINE r == release(q)
           x == [w EXCEPT ![t] = "run"]
<1>0. q.sleepers \in Seq(Threads)
  BY DEF QueueType
<1>1. x[t] = "run" /\ \A u \in Threads : u # t => x[u] = w[u]
  BY DEF Places
<1>2. r.sleepers = (IF q.sleepers = <<>> THEN <<>> ELSE Tail(q.sleepers)) /\ ~ r.locked /\ r.waiter = q.waiter
  BY DEF release, QueueType
<1>3. r.waiter = NULL
  BY <1>2 DEF Placed
<1> HIDE DEF r, x
<1>4. \A u \in Threads : name(u) = n => x[u] # "wait"
  BY <1>1 DEF Placed
<1>5. \A i \in 1 .. Len(q.sleepers) : x[q.sleepers[i]] = "lock"
  BY <1>1 DEF Placed
<1>6. CASE q.sleepers = <<>>
  <2>1. r.sleepers = <<>> /\ Len(r.sleepers) = 0
    BY <1>2, <1>6
  <2> QED BY <1>2, <1>3, <1>4, <2>1 DEF QueueInv, Placed, Led, r, x
<1>7. CASE q.sleepers # <<>>
  <2>1. /\ Len(q.sleepers) \in Nat \ {0} /\ Len(r.sleepers) = Len(q.sleepers) - 1
        /\ \A i \in 1 .. Len(r.sleepers) : r.sleepers[i] = q.sleepers[i + 1]
    BY <1>0, <1>2, <1>7
  <2>2. \A i \in 1 .. Len(r.sleepers) : i + 1 \in 1 .. Len(q.sleepers) /\ i + 1 # 1
    BY <2>1
  <2>3. \A i \in 1 .. Len(r.sleepers) : /\ r.sleepers[i] \in Threads
                                        /\ name(r.sleepers[i]) = n
                                        /\ x[r.sleepers[i]] = "lock"
    BY <1>5, <2>1, <2>2 DEF Placed
  <2>4. \A i, j \in 1 .. Len(r.sleepers) : r.sleepers[i] = r.sleepers[j] => i = j
    <3> TAKE i, j \in 1 .. Len(r.sleepers)
    <3>1. r.sleepers[i] = r.sleepers[j] => i + 1 = j + 1
      BY <2>1, <2>2 DEF Placed
    <3> QED BY <2>1, <3>1
  <2>5. Placed(n, r, x)
    BY <1>2, <1>3, <1>4, <2>3, <2>4 DEF Placed
  <2>6. 1 \in 1 .. Len(q.sleepers)
    BY <2>1
  <2>7. q.sleepers[1] \in Threads /\ name(q.sleepers[1]) = n /\ x[q.sleepers[1]] = "lock"
    BY <1>5, <2>6 DEF Placed
  <2>8. ~ Contains(r.sleepers, q.sleepers[1])
    BY <2>1, <2>2, <2>6 DEF Contains, Placed
  <2>9. Led(n, r, x)
    BY <2>7, <2>8 DEF Led
  <2> QED BY <2>5, <2>9 DEF QueueInv, r, x
<1> QED BY <1>6, <1>7

\* Only queue n and its threads change.
LEMMA Frame ==
  ASSUME SerialTypeOK, SerialInv, NEW n \in Queues, NEW r, intq' = [intq EXCEPT ![n] = r],
         QueueInv(n, r, pc'), \A u \in Threads : name(u) # n => pc'[u] = pc[u]
  PROVE  SerialInv'
<1>1. intq \in [Queues -> QueueType]
  BY DEF SerialTypeOK
<1>2. intq'[n] = r /\ \A m \in Queues : m # n => intq'[m] = intq[m]
  BY <1>1
<1>3. ASSUME NEW m \in Queues, m # n PROVE QueueInv(m, intq'[m], pc')
  <2>1. intq[m] \in QueueType /\ QueueInv(m, intq[m], pc)
    BY <1>1 DEF SerialInv
  <2>2. \A u \in Threads : name(u) = m => pc'[u] = pc[u]
    BY <1>3
  <2>3. QueueInv(m, intq[m], pc')
    BY <2>1, <2>2, OtherQueue
  <2> QED BY <1>2, <1>3, <2>3
<1>4. \A m \in Queues : QueueInv(m, intq'[m], pc')
  BY <1>2, <1>3
<1> QED BY <1>4 DEF SerialInv

\* Going to sleep, from outside wait () and the sleepers.
LEMMA SuspendInv ==
  ASSUME SerialTypeOK, SerialInv, NEW t \in Threads, NEW b, NEW q \in QueueType,
         NEW w \in Places, \A u \in Threads : u # t => w[u] = pc[u],
         QueueInv(name(t), q, w), w[t] # "wait", ~ Contains(q.sleepers, t),
         q.locked \/ must_wait(t, q), suspend(t, b, q)
  PROVE  SerialInv'
<1> DEFINE x == [w EXCEPT ![t] = IF q.locked THEN "lock" ELSE "wait"]
<1>1. QueueInv(name(t), acquire_wait(q, t), x)
  BY AcquireInv DEF QueueInv
<1>2. pc \in Places
  BY DEF SerialTypeOK, Places
<1>3. pc' = x
  BY <1>2 DEF suspend, Places
<1>4. intq' = [intq EXCEPT ![name(t)] = acquire_wait(q, t)]
  BY DEF suspend
<1>5. \A u \in Threads : name(u) # name(t) => pc'[u] = pc[u]
  BY <1>2 DEF suspend, Places
<1> QED BY <1>1, <1>3, <1>4, <1>5, NameIsQueue, Frame

\* The loop of intq_getc and intq_putc, from a place where t holds nothing.
LEMMA LoopInv ==
  ASSUME SerialTypeOK, SerialInv, NEW t \in Threads, NEW b \in Bytes \cup {NULL}, NEW q \in QueueType,
         QueueInv(name(t), q, [pc EXCEPT ![t] = "run"]), loop(t, b, q)
  PROVE  SerialInv'
<1> DEFINE w == [pc EXCEPT ![t] = "run"]
<1>1. pc \in Places /\ w \in Places
  BY DEF SerialTypeOK, Places
<1>2. w[t] = "run" /\ \A u \in Threads : u # t => w[u] = pc[u]
  BY <1>1 DEF Places
<1>3. QueueInv(name(t), q, w)
  OBVIOUS
<1> HIDE DEF w
<1>4. CASE must_wait(t, q) /\ suspend(t, b, q)
  <2>1. ~ Contains(q.sleepers, t)
    BY <1>2, <1>3 DEF Contains, QueueInv, Placed
  <2> QED BY <1>1, <1>2, <1>3, <1>4, <2>1, SuspendInv
<1>5. ASSUME ~ must_wait(t, q), return(t), NEW r \in QueueType,
             r.waiter = q.waiter, r.locked = q.locked, r.sleepers = q.sleepers,
             intq' = [intq EXCEPT ![name(t)] = r]
      PROVE  SerialInv'
  <2>1. pc' = w
    BY <1>5 DEF return, w
  <2>2. r.waiter = NULL
    BY <1>3, <1>5, NobodyWaits DEF QueueInv
  <2>3. QueueInv(name(t), r, w)
    BY <1>3, <1>5, <2>2, Moved
  <2> QED BY <1>2, <1>5, <2>1, <2>3, NameIsQueue, Frame
<1>6. CASE ~ must_wait(t, q) /\ input_getc_returns(t, q)
  <2>1. /\ get(q) \in QueueType
        /\ get(q).waiter = q.waiter /\ get(q).locked = q.locked /\ get(q).sleepers = q.sleepers
    BY QueueOps DEF get, QueueType
  <2>2. return(t) /\ intq' = [intq EXCEPT ![name(t)] = get(q)]
    BY <1>6 DEF input_getc_returns, name
  <2> QED BY <1>5, <1>6, <2>1, <2>2
<1>7. CASE ~ must_wait(t, q) /\ serial_putc_returns(t, b, q)
  <2>1. /\ put(q, b) \in QueueType
        /\ put(q, b).waiter = q.waiter /\ put(q, b).locked = q.locked /\ put(q, b).sleepers = q.sleepers
    BY QueueOps DEF put, QueueType
  <2>2. return(t) /\ intq' = [intq EXCEPT ![name(t)] = put(q, b)]
    BY <1>7, SerialAssumption DEF serial_putc_returns, name
  <2> QED BY <1>5, <1>7, <2>1, <2>2
<1> QED BY <1>4, <1>6, <1>7 DEF loop

\* Bytes come and go, whoever waits for them is woken, and no thread runs.
LEMMA HandlerInv ==
  ASSUME SerialTypeOK, SerialTypeOK', SerialInv, UNCHANGED pc,
         \A n \in Queues : \/ intq'[n] = intq[n]
                           \/ /\ intq'[n].waiter = NULL
                              /\ intq'[n].locked = intq[n].locked
                              /\ intq'[n].sleepers = intq[n].sleepers
  PROVE  SerialInv'
<1>1. ASSUME NEW n \in Queues PROVE QueueInv(n, intq'[n], pc)
  <2>1. intq[n] \in QueueType /\ intq'[n] \in QueueType /\ QueueInv(n, intq[n], pc)
    BY DEF SerialTypeOK, SerialInv
  <2> QED BY <2>1, Moved
<1> QED BY <1>1 DEF SerialInv

\* Bytes move: put and get touch the buffer and the positions, signal the waiter.
LEMMA MovesBytes ==
  ASSUME NEW q \in QueueType, NEW b
  PROVE  /\ put(q, b).waiter = q.waiter /\ put(q, b).locked = q.locked /\ put(q, b).sleepers = q.sleepers
         /\ get(q).waiter = q.waiter /\ get(q).locked = q.locked /\ get(q).sleepers = q.sleepers
         /\ signal(q).waiter = NULL /\ signal(q).locked = q.locked /\ signal(q).sleepers = q.sleepers
BY DEF QueueType, put, get, signal

LEMMA SleepersStep == SerialTypeOK /\ SerialInv /\ [Next]_vars => SerialInv'
<1> SUFFICES ASSUME SerialTypeOK, SerialInv, [Next]_vars PROVE SerialInv'
  OBVIOUS
<1>t. SerialTypeOK'
  BY TypeStep
<1>q. "rx" \in Queues /\ "tx" \in Queues /\ intq["rx"] \in QueueType /\ intq["tx"] \in QueueType
      /\ intq \in [Queues -> QueueType] /\ pc \in Places
  BY DEF SerialTypeOK, Queues, Places
<1>n. \A t : queue(t) \in QueueType /\ QueueInv(name(t), queue(t), pc)
  BY NameIsQueue DEF SerialTypeOK, SerialInv, queue
<1>b. NULL \in Bytes \cup {NULL} /\ \A b \in Keys \cup Line \cup Sent \cup Polled : b \in Bytes \cup {NULL}
  BY DEF Bytes
<1>r. \A t \in Threads : pc[t] = "run" => [pc EXCEPT ![t] = "run"] = pc
  BY <1>q DEF Places
<1>1. ASSUME NEW t \in Threads, input_getc(t) PROVE SerialInv'
  <2>1. pc[t] = "run" /\ loop(t, NULL, queue(t))
    BY <1>1 DEF input_getc
  <2>2. QueueInv(name(t), queue(t), [pc EXCEPT ![t] = "run"])
    BY <1>n, <1>r, <2>1
  <2> QED BY <1>n, <1>b, <2>1, <2>2, LoopInv
<1>2. ASSUME NEW t \in Threads, serial_putc(t) PROVE SerialInv'
  <2>1. PICK b \in Sent : pc[t] = "run" /\ loop(t, b, queue(t))
    BY <1>2 DEF serial_putc
  <2>2. QueueInv(name(t), queue(t), [pc EXCEPT ![t] = "run"])
    BY <1>n, <1>r, <2>1
  <2> QED BY <1>n, <1>b, <2>1, <2>2, LoopInv
<1>3. ASSUME NEW t \in Threads, lock_acquired(t) PROVE SerialInv'
  <2>1. CASE (queue(t).locked \/ must_wait(t, queue(t))) /\ suspend(t, arg[t], queue(t))
    <3>1. pc[t] # "wait" /\ ~ Contains(queue(t).sleepers, t)
      BY <1>3 DEF lock_acquired
    <3> QED BY <1>n, <1>q, <2>1, <3>1, SuspendInv
  <2>2. CASE UNCHANGED <<intq, pc, arg, key, mode, ier, device, polls>>
    BY <2>2 DEF SerialInv
  <2> QED BY <1>3, <2>1, <2>2 DEF lock_acquired
<1>4. ASSUME NEW t \in Threads, signalled(t) PROVE SerialInv'
  <2>1. pc[t] = "wait" /\ queue(t).waiter # t /\ loop(t, arg[t], release(queue(t)))
    BY <1>4 DEF signalled
  <2>2. Placed(name(t), queue(t), pc)
    BY <1>n DEF QueueInv
  <2>3. QueueInv(name(t), release(queue(t)), [pc EXCEPT ![t] = "run"])
    BY <1>n, <1>q, <2>1, <2>2, ReleaseInv
  <2>4. release(queue(t)) \in QueueType /\ arg[t] \in Bytes \cup {NULL}
    BY <1>n, QueueOps DEF SerialTypeOK
  <2> QED BY <2>1, <2>3, <2>4, LoopInv
<1>5. ASSUME serial_putc_off PROVE SerialInv'
  <2>1. CASE mode = "POLL"
    <3>1. UNCHANGED <<intq, pc>>
      BY <1>5, <2>1 DEF serial_putc_off
    <3> QED BY <3>1 DEF SerialInv
  <2>2. CASE mode # "POLL"
    <3> DEFINE q     == intq["tx"]
               freed == IF Full(q) THEN signal(get(q)) ELSE q
    <3>1. UNCHANGED pc /\ \E b \in Polled : intq' = [intq EXCEPT !["tx"] = put(freed, b)]
      BY <1>5, <2>2 DEF serial_putc_off
    <3>2. PICK b \in Polled : intq' = [intq EXCEPT !["tx"] = put(freed, b)]
      BY <3>1
    <3>3. freed \in QueueType /\ freed.waiter = NULL /\ freed.locked = q.locked /\ freed.sleepers = q.sleepers
      <4>1. CASE Full(q)
        BY <1>q, <4>1, QueueOps, MovesBytes
      <4>2. CASE ~ Full(q)
        <5>1. QueueInv("tx", q, pc)
          BY <1>q DEF SerialInv
        <5>2. q.waiter # NULL => q.waiter \in Threads /\ name(q.waiter) = "tx" /\ must_wait(q.waiter, q)
          BY <5>1 DEF QueueInv, Placed
        <5>3. q.waiter = NULL
          BY <4>2, <5>2 DEF name, must_wait
        <5> QED BY <1>q, <4>2, <5>3
      <4> QED BY <4>1, <4>2
    <3> HIDE DEF freed
    <3>4. put(freed, b).waiter = NULL /\ put(freed, b).locked = q.locked /\ put(freed, b).sleepers = q.sleepers
      BY <3>3, MovesBytes
    <3>5. intq'["tx"] = put(freed, b) /\ \A n \in Queues : n # "tx" => intq'[n] = intq[n]
      BY <1>q, <3>2
    <3> QED BY <1>t, <3>1, <3>4, <3>5, HandlerInv
  <2> QED BY <2>1, <2>2
<1>6. ASSUME serial_flush PROVE SerialInv'
  <2> DEFINE r == signal(get(intq["tx"]))
  <2>1. r.waiter = NULL /\ r.locked = intq["tx"].locked /\ r.sleepers = intq["tx"].sleepers
    BY <1>q, QueueOps, MovesBytes
  <2>2. UNCHANGED pc /\ (intq' = intq \/ intq' = [intq EXCEPT !["tx"] = r])
    BY <1>6 DEF serial_flush
  <2> HIDE DEF r
  <2> QED BY <1>q, <1>t, <2>1, <2>2, HandlerInv
<1>7. ASSUME NEW b \in Bytes \cup {NULL}
      PROVE  /\ input_putc(b) \in [Queues -> QueueType]
             /\ input_putc(b)["tx"] = intq["tx"]
             /\ input_putc(b)["rx"].waiter = NULL
             /\ input_putc(b)["rx"].locked = intq["rx"].locked
             /\ input_putc(b)["rx"].sleepers = intq["rx"].sleepers
  <2> DEFINE r == signal(put(intq["rx"], b))
  <2>1. put(intq["rx"], b) \in QueueType
    BY <1>q, QueueOps
  <2>2. /\ r \in QueueType
        /\ r.waiter = NULL /\ r.locked = intq["rx"].locked /\ r.sleepers = intq["rx"].sleepers
    BY <1>q, <2>1, QueueOps, MovesBytes
  <2>3. input_putc(b) = [intq EXCEPT !["rx"] = r]
    BY DEF input_putc
  <2> HIDE DEF r
  <2> QED BY <1>q, <2>2, <2>3
<1>8. ASSUME keyboard_interrupt PROVE SerialInv'
  <2>1. UNCHANGED pc /\ \E b \in Keys : intq' = input_putc(b)
    BY <1>8 DEF keyboard_interrupt
  <2>2. PICK b \in Keys : intq' = input_putc(b)
    BY <2>1
  <2>3. b \in Bytes \cup {NULL}
    BY <1>b
  <2>4. \A n \in Queues : n = "rx" \/ n = "tx"
    BY DEF Queues
  <2> QED BY <1>7, <1>t, <2>1, <2>2, <2>3, <2>4, HandlerInv
<1>9. ASSUME serial_interrupt PROVE SerialInv'
  <2> DEFINE receives  == ~ Full(intq["rx"]) /\ rbr # NULL
             received  == IF receives THEN input_putc(rbr) ELSE intq
             r         == signal(get(intq["tx"]))
             transmits == ~ Empty(intq["tx"]) /\ thre
  <2>1. UNCHANGED pc /\ intq' = IF transmits THEN [received EXCEPT !["tx"] = r] ELSE received
    BY <1>9 DEF serial_interrupt
  <2>2. rbr \in Bytes \cup {NULL}
    BY DEF SerialTypeOK
  <2>3. /\ received \in [Queues -> QueueType]
        /\ received["tx"] = intq["tx"]
        /\ received["rx"] = intq["rx"]
           \/ /\ received["rx"].waiter = NULL
              /\ received["rx"].locked = intq["rx"].locked
              /\ received["rx"].sleepers = intq["rx"].sleepers
    BY <1>q, <1>7, <2>2
  <2>4. r.waiter = NULL /\ r.locked = intq["tx"].locked /\ r.sleepers = intq["tx"].sleepers
    BY <1>q, QueueOps, MovesBytes
  <2> HIDE DEF receives, received, r, transmits
  <2>5. intq'["rx"] = received["rx"] /\ (intq'["tx"] = r \/ intq'["tx"] = received["tx"])
    BY <1>q, <2>1, <2>3
  <2>6. \A n \in Queues : n = "rx" \/ n = "tx"
    BY DEF Queues
  <2> QED BY <1>t, <2>1, <2>3, <2>4, <2>5, <2>6, HandlerInv
<1>10. ASSUME serial_init_queue \/ byte_arrives \/ transmitter_ready \/ UNCHANGED vars PROVE SerialInv'
  <2>1. UNCHANGED <<intq, pc>>
    BY <1>10 DEF serial_init_queue, byte_arrives, transmitter_ready, vars
  <2> QED BY <2>1 DEF SerialInv
<1> QED
  BY <1>1, <1>2, <1>3, <1>4, <1>5, <1>6, <1>8, <1>9, <1>10 DEF Next, wakes

LEMMA SleepersInit == Init => SerialInv
<1> SUFFICES ASSUME Init, NEW n \in Queues PROVE QueueInv(n, intq[n], pc)
  BY DEF SerialInv
<1>1. intq[n] = EmptyQueue /\ \A t \in Threads : pc[t] = "run"
  BY DEF Init
<1>2. EmptyQueue.sleepers = <<>> /\ Len(<<>>) = 0 /\ EmptyQueue.waiter = NULL /\ EmptyQueue.locked = FALSE
  BY DEF EmptyQueue
<1> QED BY <1>1, <1>2 DEF QueueInv, Placed, Led

LEMMA SleepersHaveNoWork == SerialTypeOK /\ SerialInv => NobodySleepsOnWork
<1> SUFFICES ASSUME SerialTypeOK, SerialInv, NEW t \in Threads
             PROVE  /\ pc[t] = "wait" => /\ queue(t).locked
                                         /\ queue(t).waiter = t => must_wait(t, queue(t))
                    /\ Contains(queue(t).sleepers, t) =>
                         \E u \in Threads : /\ name(u) = name(t) /\ u # t
                                            /\ \/ pc[u] = "wait"
                                               \/ pc[u] = "lock" /\ ~ Contains(queue(t).sleepers, u)
  BY DEF NobodySleepsOnWork
<1>1. Placed(name(t), queue(t), pc) /\ Led(name(t), queue(t), pc)
  BY NameIsQueue DEF SerialInv, QueueInv, queue
<1>2. pc[t] = "wait" => queue(t).locked
  BY <1>1 DEF Placed
<1>3. t # NULL
  BY SerialAssumption DEF Threads
<1>4. queue(t).waiter = t => must_wait(t, queue(t))
  BY <1>1, <1>3 DEF Placed
<1>5. ASSUME Contains(queue(t).sleepers, t)
      PROVE  \E u \in Threads : /\ name(u) = name(t) /\ u # t
                                /\ \/ pc[u] = "wait"
                                   \/ pc[u] = "lock" /\ ~ Contains(queue(t).sleepers, u)
  <2>1. PICK i \in 1 .. Len(queue(t).sleepers) : queue(t).sleepers[i] = t
    BY <1>5 DEF Contains
  <2>2. pc[t] = "lock"
    BY <1>1, <2>1 DEF Placed
  <2>3. queue(t).sleepers # <<>>
    BY <2>1
  <2>4. CASE queue(t).locked
    BY <1>1, <2>2, <2>4 DEF Placed
  <2>5. CASE \E u \in Threads : name(u) = name(t) /\ pc[u] = "lock" /\ ~ Contains(queue(t).sleepers, u)
    BY <1>5, <2>5
  <2> QED BY <1>1, <2>3, <2>4, <2>5 DEF Led
<1> QED BY <1>2, <1>4, <1>5

\* For any number of readers and writers: whoever is in wait () of intq_getc or
\* intq_putc holds the queue's lock and, unless he has been signalled, has
\* nothing to do; whoever sleeps in lock_acquire sleeps behind such a thread.
THEOREM NoSleepBesideWork == Spec => []NobodySleepsOnWork
BY SerialTypeCorrect, SleepersInit, SleepersStep, SleepersHaveNoWork, PTL DEF Spec

-----------------------------------------------------------------------------
(* The queues are first in, first out *)

\* Positions run up to twice the size of the ring before they wrap around.
LEMMA Wrap ==
  \A n \in Nat : n < BufSize + BufSize => n % BufSize = IF n < BufSize THEN n ELSE n - BufSize
<1>1. BufSize \in Nat /\ BufSize > 1
  BY SerialAssumption
<1> TAKE n \in Nat
<1>2. CASE n < BufSize
  BY <1>1, <1>2
<1>3. CASE n >= BufSize
  BY <1>1, <1>3
<1> QED BY <1>1, <1>2, <1>3

\* The number of bytes between tail and head.
size(q) == (q.head + BufSize - q.tail) % BufSize

LEMMA SizeOf ==
  ASSUME NEW q \in QueueType
  PROVE  /\ size(q) = IF q.head >= q.tail THEN q.head - q.tail ELSE q.head + BufSize - q.tail
         /\ size(q) \in 0 .. BufSize - 1
         /\ Empty(q) <=> size(q) = 0
         /\ Full(q) <=> size(q) = BufSize - 1
         /\ size(q) = BufSize - 1 => size(q) # 0
<1>1. q.head \in 0 .. BufSize - 1 /\ q.tail \in 0 .. BufSize - 1 /\ BufSize \in Nat /\ BufSize > 1
  BY SerialAssumption DEF QueueType, Slots
<1>2. size(q) = IF q.head >= q.tail THEN q.head - q.tail ELSE q.head + BufSize - q.tail
  <2>1. q.head + BufSize - q.tail \in Nat /\ q.head + BufSize - q.tail < BufSize + BufSize
    BY <1>1
  <2>2. size(q) = IF q.head + BufSize - q.tail < BufSize THEN q.head + BufSize - q.tail
                  ELSE q.head + BufSize - q.tail - BufSize
    BY <1>1, <2>1, Wrap DEF size
  <2> QED BY <1>1, <2>2
<1>3. next(q.head) = IF q.head + 1 < BufSize THEN q.head + 1 ELSE q.head + 1 - BufSize
  <2>1. q.head + 1 \in Nat /\ q.head + 1 < BufSize + BufSize
    BY <1>1
  <2> QED BY <1>1, <2>1, Wrap DEF next
<1>4. size(q) \in 0 .. BufSize - 1
  BY <1>1, <1>2
<1>5. Empty(q) <=> size(q) = 0
  BY <1>1, <1>2 DEF Empty
<1>6. Full(q) <=> size(q) = BufSize - 1
  BY <1>1, <1>2, <1>3 DEF Full
<1> QED BY <1>1, <1>2, <1>4, <1>5, <1>6

LEMMA ContentsOf ==
  ASSUME NEW q \in QueueType
  PROVE  /\ contents(q) \in Seq(Bytes \cup {NULL})
         /\ Len(contents(q)) = size(q)
         /\ \A i \in 1 .. size(q) : contents(q)[i] = q.buf[(q.tail + i - 1) % BufSize]
<1>1. size(q) \in Nat /\ size(q) < BufSize
  BY SizeOf, SerialAssumption
<1>2. \A i \in 1 .. size(q) : q.buf[(q.tail + i - 1) % BufSize] \in Bytes \cup {NULL}
  <2> TAKE i \in 1 .. size(q)
  <2>1. q.tail \in 0 .. BufSize - 1 /\ BufSize \in Nat /\ BufSize > 1
    BY SerialAssumption DEF QueueType, Slots
  <2>2. q.tail + i - 1 \in Nat
    BY <1>1, <2>1
  <2>3. (q.tail + i - 1) % BufSize \in Slots
    BY <2>1, <2>2 DEF Slots
  <2>4. q.buf \in [Slots -> Bytes \cup {NULL}]
    BY DEF QueueType
  <2> QED BY <2>3, <2>4
<1>3. contents(q) = [i \in 1 .. size(q) |-> q.buf[(q.tail + i - 1) % BufSize]]
  BY DEF contents, size
<1>4. contents(q) \in [1 .. size(q) -> Bytes \cup {NULL}]
  BY <1>2, <1>3
<1>5. contents(q) \in Seq(Bytes \cup {NULL})
  BY <1>1, <1>4
<1>6. Len(contents(q)) = size(q)
  BY <1>1, <1>4, <1>5
<1> QED BY <1>3, <1>5, <1>6

\* put appends the byte, unless the queue is full.
LEMMA PutAppends ==
  ASSUME NEW q \in QueueType, NEW b \in Bytes \cup {NULL}, ~ Full(q), put(q, b) \in QueueType
  PROVE  /\ contents(put(q, b)) = Append(contents(q), b)
         /\ Len(contents(q)) < BufSize - 1
<1> DEFINE p == put(q, b)
           m == size(q)
<1>1. q.head \in 0 .. BufSize - 1 /\ q.tail \in 0 .. BufSize - 1 /\ BufSize \in Nat /\ BufSize > 1
  BY SerialAssumption DEF QueueType, Slots
<1>2. q.buf \in [Slots -> Bytes \cup {NULL}]
  BY DEF QueueType
<1>3. p.buf = [q.buf EXCEPT ![q.head] = b] /\ p.tail = q.tail /\ p.head = next(q.head)
  BY DEF put, QueueType
<1>4. m \in 0 .. BufSize - 2
  BY <1>1, SizeOf
<1>5. m = IF q.head >= q.tail THEN q.head - q.tail ELSE q.head + BufSize - q.tail
  BY SizeOf
<1>6. p.head = IF q.head + 1 < BufSize THEN q.head + 1 ELSE 0
  <2>1. q.head + 1 \in Nat /\ q.head + 1 < BufSize + BufSize
    BY <1>1
  <2> QED BY <1>1, <1>3, <2>1, Wrap DEF next
<1>7. size(p) = m + 1
  <2>1. size(p) = IF p.head >= p.tail THEN p.head - p.tail ELSE p.head + BufSize - p.tail
    BY SizeOf
  <2> HIDE DEF p, m
  <2> QED BY <1>1, <1>3, <1>4, <1>5, <1>6, <2>1
<1>8. /\ contents(q) \in Seq(Bytes \cup {NULL}) /\ Len(contents(q)) = m
      /\ \A i \in 1 .. m : contents(q)[i] = q.buf[(q.tail + i - 1) % BufSize]
  BY ContentsOf
<1>9. /\ contents(p) \in Seq(Bytes \cup {NULL}) /\ Len(contents(p)) = m + 1
      /\ \A i \in 1 .. m + 1 : contents(p)[i] = p.buf[(q.tail + i - 1) % BufSize]
  BY <1>3, <1>7, ContentsOf
<1> HIDE DEF p, m
<1>10. ASSUME NEW i \in 1 .. m + 1
       PROVE  contents(p)[i] = Append(contents(q), b)[i]
  <2>1. (q.tail + i - 1) % BufSize = IF q.tail + i - 1 < BufSize THEN q.tail + i - 1 ELSE q.tail + i - 1 - BufSize
    <3>1. q.tail + i - 1 \in Nat /\ q.tail + i - 1 < BufSize + BufSize
      BY <1>1, <1>4
    <3> QED BY <1>1, <3>1, Wrap
  <2>2. (q.tail + i - 1) % BufSize \in Slots
    BY <1>1, <1>4, <2>1 DEF Slots
  <2>3. CASE i = m + 1
    <3>1. (q.tail + i - 1) % BufSize = q.head
      BY <1>1, <1>4, <1>5, <2>1, <2>3
    <3>2. contents(p)[i] = b
      BY <1>2, <1>3, <1>9, <2>2, <3>1
    <3>3. Append(contents(q), b)[i] = b
      BY <1>8, <2>3
    <3> QED BY <3>2, <3>3
  <2>4. CASE i # m + 1
    <3>1. i \in 1 .. m
      BY <1>4, <2>4
    <3>2. (q.tail + i - 1) % BufSize # q.head
      BY <1>1, <1>4, <1>5, <2>1, <3>1
    <3>3. contents(p)[i] = contents(q)[i]
      BY <1>2, <1>3, <1>8, <1>9, <2>2, <3>1, <3>2
    <3>4. Append(contents(q), b)[i] = contents(q)[i]
      BY <1>8, <3>1
    <3> QED BY <3>3, <3>4
  <2> QED BY <2>3, <2>4
<1>11. Append(contents(q), b) \in Seq(Bytes \cup {NULL}) /\ Len(Append(contents(q), b)) = m + 1
  BY <1>8
<1>12. contents(p) = Append(contents(q), b)
  BY <1>9, <1>10, <1>11, SeqEqual
<1> QED BY <1>1, <1>4, <1>8, <1>12 DEF p

\* get takes the first byte, unless the queue is empty.
LEMMA GetTakesFirst ==
  ASSUME NEW q \in QueueType, ~ Empty(q), get(q) \in QueueType
  PROVE  /\ contents(q) # <<>>
         /\ next_byte(q) = Head(contents(q))
         /\ contents(get(q)) = Tail(contents(q))
<1> DEFINE p == get(q)
           m == size(q)
<1>1. q.head \in 0 .. BufSize - 1 /\ q.tail \in 0 .. BufSize - 1 /\ BufSize \in Nat /\ BufSize > 1
  BY SerialAssumption DEF QueueType, Slots
<1>2. q.buf \in [Slots -> Bytes \cup {NULL}]
  BY DEF QueueType
<1>3. p.buf = [q.buf EXCEPT ![q.tail] = NULL] /\ p.head = q.head /\ p.tail = next(q.tail)
  BY DEF get, QueueType
<1>4. m \in 1 .. BufSize - 1
  BY <1>1, SizeOf
<1>5. m = IF q.head >= q.tail THEN q.head - q.tail ELSE q.head + BufSize - q.tail
  BY SizeOf
<1>6. p.tail = IF q.tail + 1 < BufSize THEN q.tail + 1 ELSE 0
  <2>1. q.tail + 1 \in Nat /\ q.tail + 1 < BufSize + BufSize
    BY <1>1
  <2> QED BY <1>1, <1>3, <2>1, Wrap DEF next
<1>7. size(p) = m - 1
  <2>1. size(p) = IF p.head >= p.tail THEN p.head - p.tail ELSE p.head + BufSize - p.tail
    BY SizeOf
  <2>2. p.head = q.head
    BY <1>3
  <2> HIDE DEF p, m
  <2>3. CASE q.tail + 1 < BufSize
    BY <1>1, <1>4, <1>5, <1>6, <2>1, <2>2, <2>3
  <2>4. CASE q.tail + 1 = BufSize
    BY <1>1, <1>4, <1>5, <1>6, <2>1, <2>2, <2>4
  <2> QED BY <1>1, <2>3, <2>4
<1>8. /\ contents(q) \in Seq(Bytes \cup {NULL}) /\ Len(contents(q)) = m
      /\ \A i \in 1 .. m : contents(q)[i] = q.buf[(q.tail + i - 1) % BufSize]
  BY ContentsOf
<1>9. /\ contents(p) \in Seq(Bytes \cup {NULL}) /\ Len(contents(p)) = m - 1
      /\ \A i \in 1 .. m - 1 : contents(p)[i] = p.buf[(p.tail + i - 1) % BufSize]
  BY <1>7, ContentsOf
<1>10. contents(q) # <<>>
  BY <1>4, <1>8
<1>11. next_byte(q) = Head(contents(q))
  <2>1. Head(contents(q)) = contents(q)[1]
    BY <1>8, <1>10
  <2>2. contents(q)[1] = q.buf[(q.tail + 1 - 1) % BufSize]
    BY <1>4, <1>8
  <2>3. (q.tail + 1 - 1) % BufSize = q.tail
    BY <1>1
  <2> QED BY <2>1, <2>2, <2>3 DEF next_byte
<1>12. Tail(contents(q)) \in Seq(Bytes \cup {NULL}) /\ Len(Tail(contents(q))) = m - 1
  BY <1>4, <1>8, <1>10, HeadTailProperties
<1> HIDE DEF p, m
<1>13. ASSUME NEW i \in 1 .. m - 1
       PROVE  contents(p)[i] = Tail(contents(q))[i]
  <2>1. Tail(contents(q))[i] = contents(q)[i + 1]
    BY <1>8, <1>10, <1>12, HeadTailProperties
  <2>2. i + 1 \in 1 .. m
    BY <1>4
  <2>3. contents(q)[i + 1] = q.buf[(q.tail + (i + 1) - 1) % BufSize]
    BY <1>8, <2>2
  <2>4. q.tail + (i + 1) - 1 = q.tail + i
    BY <1>1, <1>4
  <2>5. (q.tail + i) % BufSize = IF q.tail + i < BufSize THEN q.tail + i ELSE q.tail + i - BufSize
    <3>1. q.tail + i \in Nat /\ q.tail + i < BufSize + BufSize
      BY <1>1, <1>4
    <3> QED BY <1>1, <3>1, Wrap
  <2>6. (p.tail + i - 1) % BufSize = IF p.tail + i - 1 < BufSize THEN p.tail + i - 1 ELSE p.tail + i - 1 - BufSize
    <3>1. p.tail + i - 1 \in Nat /\ p.tail + i - 1 < BufSize + BufSize
      BY <1>1, <1>4, <1>6
    <3> QED BY <1>1, <1>4, <1>6, <3>1, Wrap
  <2>7. (p.tail + i - 1) % BufSize = (q.tail + i) % BufSize
    BY <1>1, <1>4, <1>6, <2>5, <2>6
  <2>8. (q.tail + i) % BufSize \in Slots /\ (q.tail + i) % BufSize # q.tail
    BY <1>1, <1>4, <2>5 DEF Slots
  <2>9. contents(p)[i] = q.buf[(q.tail + i) % BufSize]
    BY <1>2, <1>3, <1>9, <2>7, <2>8
  <2> QED BY <2>1, <2>3, <2>4, <2>9
<1>14. contents(p) = Tail(contents(q))
  BY <1>9, <1>12, <1>13, SeqEqual
<1> QED BY <1>10, <1>11, <1>14 DEF p

\* Bytes are where the buffer and the positions say; sleepers and the lock are
\* not among them.
LEMMA SameContents ==
  ASSUME NEW q, NEW r, r.buf = q.buf, r.head = q.head, r.tail = q.tail
  PROVE  contents(r) = contents(q)
BY DEF contents

-----------------------------------------------------------------------------
(* What Serial does, ByteQueue allows *)

\* Before serial_init_queue the transmit queue is not in use: it is empty and
\* nobody is in intq_putc; a thread in intq_putc has a byte to send.
SendInv ==
  /\ mode = "POLL" => Empty(intq["tx"]) /\ \A t \in Writers : pc[t] = "run"
  /\ \A t \in Writers : pc[t] # "run" => arg[t] \in Bytes

rxFifo == <<contents(intq["rx"]), key>>
txFifo == <<contents(intq["tx"]), thr>>

\* A queue that holds the same bytes, whoever sleeps on it.
SameBytes(q, r) == r.buf = q.buf /\ r.head = q.head /\ r.tail = q.tail

LEMMA SameBytesOf ==
  ASSUME NEW q \in QueueType
  PROVE  /\ SameBytes(q, signal(q)) /\ SameBytes(q, release(q))
         /\ \A t : SameBytes(q, acquire_wait(q, t))
BY DEF SameBytes, signal, release, acquire_wait, QueueType

\* A queue with the bytes of q gains and loses what q would.
LEMMA SameBytesMoved ==
  ASSUME NEW q \in QueueType, NEW r \in QueueType, SameBytes(q, r)
  PROVE  /\ contents(r) = contents(q) /\ next_byte(r) = next_byte(q)
         /\ Empty(r) <=> Empty(q)
         /\ Full(r) <=> Full(q)
         /\ SameBytes(get(q), get(r))
         /\ \A b : SameBytes(put(q, b), put(r, b))
BY DEF SameBytes, contents, next_byte, Empty, Full, get, put, QueueType

\* A byte goes into the queue n that intq'[n] replaces.
LEMMA Puts ==
  ASSUME NEW q \in QueueType, NEW r \in QueueType, NEW b \in Bytes, ~ Full(q), SameBytes(put(q, b), r)
  PROVE  Len(contents(q)) < BufSize - 1 /\ contents(r) = Append(contents(q), b)
<1>1. b \in Bytes \cup {NULL} /\ put(q, b) \in QueueType
  BY QueueOps
<1>2. contents(r) = contents(put(q, b))
  BY <1>1, SameBytesMoved
<1> QED BY <1>1, <1>2, PutAppends

\* A byte comes out of it.
LEMMA Gets ==
  ASSUME NEW q \in QueueType, NEW r \in QueueType, ~ Empty(q), SameBytes(get(q), r)
  PROVE  contents(q) # <<>> /\ next_byte(q) = Head(contents(q)) /\ contents(r) = Tail(contents(q))
<1>1. get(q) \in QueueType
  BY QueueOps
<1>2. contents(r) = contents(get(q))
  BY <1>1, SameBytesMoved
<1> QED BY <1>1, <1>2, GetTakesFirst

\* A full queue has room once its oldest byte is out.
LEMMA Shifts ==
  ASSUME NEW q \in QueueType, NEW r \in QueueType, NEW b \in Bytes, Full(q), SameBytes(put(get(q), b), r)
  PROVE  /\ Len(contents(q)) = BufSize - 1
         /\ next_byte(q) = Head(contents(q))
         /\ contents(r) = Append(Tail(contents(q)), b)
<1>1. get(q) \in QueueType
  BY QueueOps
<1>2. Len(contents(q)) = BufSize - 1 /\ ~ Empty(q)
  BY ContentsOf, SizeOf, SerialAssumption
<1>3. contents(q) # <<>> /\ next_byte(q) = Head(contents(q)) /\ contents(get(q)) = Tail(contents(q))
  BY <1>1, <1>2, GetTakesFirst
<1>4. Len(contents(get(q))) = BufSize - 2
  <2>1. contents(q) \in Seq(Bytes \cup {NULL})
    BY ContentsOf
  <2> QED BY <1>2, <1>3, <2>1, HeadTailProperties, SerialAssumption
<1>5. ~ Full(get(q))
  BY <1>1, <1>4, ContentsOf, SizeOf, SerialAssumption
<1>6. contents(r) = Append(contents(get(q)), b)
  BY <1>1, <1>5, Puts
<1> QED BY <1>2, <1>3, <1>6

\* The loop of intq_getc takes a byte out of rx, the loop of intq_putc puts one
\* into tx; both may sleep instead, which moves no byte.
LEMMA LoopFifo ==
  ASSUME SerialTypeOK, NEW t \in Threads, NEW b \in Bytes \cup {NULL},
         NEW q \in QueueType, SameBytes(queue(t), q),
         t \in Writers => b \in Bytes, loop(t, b, q)
  PROVE  [Rx!Next]_rxFifo /\ [Tx!Next]_txFifo
<1>1. intq["rx"] \in QueueType /\ intq["tx"] \in QueueType /\ DOMAIN intq = Queues
  BY DEF SerialTypeOK, Queues
<1>2. "rx" \in Queues /\ "tx" \in Queues /\ queue(t) = intq[name(t)] /\ name(t) \in Queues
  BY DEF Queues, queue, name
<1>3. queue(t) \in QueueType
  BY <1>2 DEF SerialTypeOK
<1>4. CASE suspend(t, b, q)
  <2>1. UNCHANGED <<key, thr>> /\ intq' = [intq EXCEPT ![name(t)] = acquire_wait(q, t)]
    BY <1>4 DEF suspend, device
  <2>2. acquire_wait(q, t) \in QueueType /\ SameBytes(q, acquire_wait(q, t))
    BY QueueOps, SameBytesOf
  <2>3. contents(acquire_wait(q, t)) = contents(intq[name(t)])
    BY <1>2, <1>3, <2>2, SameBytesMoved
  <2>4. contents(intq'["rx"]) = contents(intq["rx"]) /\ contents(intq'["tx"]) = contents(intq["tx"])
    BY <1>1, <1>2, <2>1, <2>3
  <2> QED BY <2>1, <2>4 DEF rxFifo, txFifo
<1>5. CASE ~ must_wait(t, q) /\ input_getc_returns(t, q)
  <2>1. /\ t \in Readers /\ key' = next_byte(q) /\ UNCHANGED thr
        /\ intq' = [intq EXCEPT !["rx"] = get(q)]
    BY <1>5 DEF input_getc_returns, device
  <2>2. ~ Empty(q) /\ queue(t) = intq["rx"]
    BY <1>5, <2>1 DEF must_wait, queue, name
  <2>3. next_byte(q) = next_byte(intq["rx"]) /\ ~ Empty(intq["rx"]) /\ SameBytes(get(intq["rx"]), get(q))
    BY <1>1, <2>2, SameBytesMoved
  <2>4. get(q) \in QueueType
    BY QueueOps
  <2>5. intq'["rx"] = get(q) /\ intq'["tx"] = intq["tx"]
    BY <1>1, <1>2, <2>1
  <2>6. /\ contents(intq["rx"]) # <<>> /\ key' = Head(contents(intq["rx"]))
        /\ contents(intq'["rx"]) = Tail(contents(intq["rx"]))
    BY <1>1, <2>1, <2>3, <2>4, <2>5, Gets
  <2>7. Rx!Get
    BY <2>6 DEF Rx!Get
  <2> QED BY <2>1, <2>5, <2>7 DEF Rx!Next, txFifo
<1>6. CASE ~ must_wait(t, q) /\ serial_putc_returns(t, b, q)
  <2>1. /\ t \in Writers /\ UNCHANGED <<key, thr>>
        /\ intq' = [intq EXCEPT !["tx"] = put(q, b)]
    BY <1>6 DEF serial_putc_returns, device
  <2>2. ~ Full(q) /\ queue(t) = intq["tx"]
    BY <1>6, <2>1, SerialAssumption DEF must_wait, queue, name
  <2>3. ~ Full(intq["tx"]) /\ SameBytes(put(intq["tx"], b), put(q, b))
    BY <1>1, <2>2, SameBytesMoved
  <2>4. b \in Bytes /\ put(q, b) \in QueueType
    BY <2>1, QueueOps
  <2>5. intq'["tx"] = put(q, b) /\ intq'["rx"] = intq["rx"]
    BY <1>1, <1>2, <2>1
  <2>6. /\ Len(contents(intq["tx"])) < BufSize - 1
        /\ contents(intq'["tx"]) = Append(contents(intq["tx"]), b)
    BY <1>1, <2>3, <2>4, <2>5, Puts
  <2>7. Tx!Put(b)
    BY <2>1, <2>6 DEF Tx!Put
  <2> QED BY <2>1, <2>4, <2>5, <2>7 DEF Tx!Next, rxFifo
<1> QED BY <1>4, <1>5, <1>6 DEF loop

\* SendInv is kept: nobody enters intq_putc before serial_init_queue, and what a
\* thread carries through lock_acquire and wait () is the byte it came with.
LEMMA SendInit == Init => SendInv
<1>1. Init => \A n \in Queues : intq[n] = EmptyQueue
  BY DEF Init
<1>2. Empty(EmptyQueue)
  BY DEF Empty, EmptyQueue
<1> QED BY <1>1, <1>2 DEF Init, SendInv, Queues, Threads

LEMMA LoopSend ==
  ASSUME SerialTypeOK, SendInv, NEW t \in Threads, NEW b, NEW q, mode = "POLL" => t \in Readers,
         t \in Writers => b \in Bytes, loop(t, b, q)
  PROVE  SendInv'
<1>1. mode' = mode /\ pc \in [Threads -> {"run", "lock", "wait"}] /\ DOMAIN arg = Threads
  BY DEF loop, suspend, input_getc_returns, serial_putc_returns, SerialTypeOK
<1>2. \A w \in Writers \ {t} : pc'[w] = pc[w] /\ arg'[w] = arg[w]
  BY <1>1 DEF loop, suspend, input_getc_returns, serial_putc_returns, return, Threads
<1>3. pc'[t] = "run" \/ arg'[t] = b
  BY <1>1 DEF loop, suspend, input_getc_returns, serial_putc_returns, return
<1>4. mode = "POLL" => intq'["tx"] = intq["tx"]
  <2> SUFFICES ASSUME mode = "POLL" PROVE intq'["tx"] = intq["tx"]
    OBVIOUS
  <2>1. t \in Readers /\ t \notin Writers /\ name(t) = "rx" /\ DOMAIN intq = Queues
    BY SerialAssumption DEF name, SerialTypeOK
  <2> QED BY <2>1 DEF loop, suspend, input_getc_returns, serial_putc_returns, Queues
<1>5. mode = "POLL" => t \notin Writers
  BY SerialAssumption
<1>6. ASSUME mode = "POLL" PROVE Empty(intq'["tx"]) /\ \A w \in Writers : pc'[w] = "run"
  BY <1>2, <1>4, <1>5, <1>6 DEF SendInv
<1>7. \A w \in Writers : pc'[w] # "run" => arg'[w] \in Bytes
  BY <1>2, <1>3 DEF SendInv
<1> QED BY <1>1, <1>6, <1>7 DEF SendInv

LEMMA SendStep == SerialTypeOK /\ SendInv /\ [Next]_vars => SendInv'
<1> SUFFICES ASSUME SerialTypeOK, SendInv, [Next]_vars PROVE SendInv'
  OBVIOUS
<1>q. intq \in [Queues -> QueueType] /\ "rx" \in Queues /\ "tx" \in Queues
  BY DEF SerialTypeOK, Queues
<1>w. \A t \in Threads : (t \in Readers /\ t \notin Writers) \/ (t \in Writers /\ t \notin Readers)
  BY SerialAssumption DEF Threads
<1>1. ASSUME NEW t \in Threads, input_getc(t) PROVE SendInv'
  BY <1>1, <1>w, LoopSend DEF input_getc
<1>2. ASSUME NEW t \in Threads, serial_putc(t) PROVE SendInv'
  <2>1. mode = "QUEUE" /\ \E b \in Sent : loop(t, b, queue(t))
    BY <1>2 DEF serial_putc
  <2> QED BY <2>1, LoopSend DEF Bytes
<1>3. ASSUME NEW t \in Threads, lock_acquired(t) PROVE SendInv'
  <2>1. pc[t] = "lock"
    BY <1>3 DEF lock_acquired
  <2>2. (mode = "POLL" => t \in Readers) /\ (t \in Writers => arg[t] \in Bytes)
    BY <2>1, <1>w DEF SendInv
  <2>3. CASE (queue(t).locked \/ must_wait(t, queue(t))) /\ suspend(t, arg[t], queue(t))
    <3>1. CASE must_wait(t, queue(t))
      BY <2>2, <2>3, <3>1, LoopSend DEF loop
    <3>2. CASE ~ must_wait(t, queue(t))
      <4>1. mode' = mode /\ pc \in [Threads -> {"run", "lock", "wait"}] /\ DOMAIN arg = Threads
        BY <2>3 DEF suspend, SerialTypeOK
      <4>2. \A w \in Writers : pc'[w] # "run" => pc[w] # "run" /\ arg'[w] = arg[w]
        BY <2>1, <2>3, <4>1 DEF suspend, Threads
      <4>3. mode = "POLL" => intq'["tx"] = intq["tx"] /\ t \notin Writers
        BY <1>w, <1>q, <2>2, <2>3 DEF suspend, name
      <4> QED BY <4>1, <4>2, <4>3 DEF SendInv
    <3> QED BY <3>1, <3>2
  <2>4. CASE UNCHANGED <<intq, pc, arg, mode>>
    BY <2>4 DEF SendInv
  <2> QED BY <1>3, <2>3, <2>4 DEF lock_acquired
<1>4. ASSUME NEW t \in Threads, signalled(t) PROVE SendInv'
  <2>1. pc[t] # "run" /\ loop(t, arg[t], release(queue(t)))
    BY <1>4 DEF signalled
  <2>2. (mode = "POLL" => t \in Readers) /\ (t \in Writers => arg[t] \in Bytes)
    BY <2>1, <1>w DEF SendInv
  <2> QED BY <2>1, <2>2, LoopSend
<1>5. ASSUME serial_putc_off PROVE SendInv'
  <2>1. UNCHANGED <<pc, arg, mode>> /\ (mode = "POLL" => UNCHANGED intq)
    BY <1>5 DEF serial_putc_off
  <2> QED BY <2>1 DEF SendInv
<1>6. ASSUME serial_flush \/ serial_init_queue PROVE SendInv'
  <2>1. UNCHANGED <<pc, arg>> /\ mode' # "POLL"
    BY <1>6 DEF serial_flush, serial_init_queue
  <2> QED BY <2>1 DEF SendInv
<1>7. ASSUME keyboard_interrupt PROVE SendInv'
  <2>1. UNCHANGED <<pc, arg, mode>> /\ intq'["tx"] = intq["tx"]
    BY <1>7, <1>q DEF keyboard_interrupt, input_putc
  <2> QED BY <2>1 DEF SendInv
<1>8. ASSUME serial_interrupt PROVE SendInv'
  <2>1. UNCHANGED <<pc, arg, mode>> /\ mode = "QUEUE"
    BY <1>8 DEF serial_interrupt
  <2> QED BY <2>1 DEF SendInv
<1>9. ASSUME byte_arrives \/ transmitter_ready \/ UNCHANGED vars PROVE SendInv'
  <2>1. UNCHANGED <<intq, pc, arg, mode>>
    BY <1>9 DEF byte_arrives, transmitter_ready, vars
  <2> QED BY <2>1 DEF SendInv
<1> QED
  BY <1>1, <1>2, <1>3, <1>4, <1>5, <1>6, <1>7, <1>8, <1>9 DEF Next, wakes

\* Every step of Serial moves each queue as ByteQueue allows, or not at all.
LEMMA FifoStep == SerialTypeOK /\ SerialTypeOK' /\ SendInv /\ [Next]_vars => [Rx!Next]_rxFifo /\ [Tx!Next]_txFifo
<1> SUFFICES ASSUME SerialTypeOK, SerialTypeOK', SendInv, [Next]_vars
             PROVE  [Rx!Next]_rxFifo /\ [Tx!Next]_txFifo
  OBVIOUS
<1>q. /\ intq \in [Queues -> QueueType] /\ intq' \in [Queues -> QueueType] /\ "rx" \in Queues /\ "tx" \in Queues
      /\ intq["rx"] \in QueueType /\ intq["tx"] \in QueueType
      /\ intq'["rx"] \in QueueType /\ intq'["tx"] \in QueueType
  BY DEF SerialTypeOK, Queues
<1>t. \A t \in Threads : queue(t) \in QueueType /\ SameBytes(queue(t), queue(t))
  BY <1>q, NameIsQueue DEF queue, SameBytes
<1>a. arg \in [Threads -> Bytes \cup {NULL}]
  BY DEF SerialTypeOK
<1>1. ASSUME NEW t \in Threads, input_getc(t) PROVE [Rx!Next]_rxFifo /\ [Tx!Next]_txFifo
  <2>1. loop(t, NULL, queue(t)) /\ t \notin Writers
    BY <1>1, SerialAssumption DEF input_getc
  <2> QED BY <2>1, <1>t, LoopFifo
<1>2. ASSUME NEW t \in Threads, serial_putc(t) PROVE [Rx!Next]_rxFifo /\ [Tx!Next]_txFifo
  <2>1. PICK b \in Sent : loop(t, b, queue(t))
    BY <1>2 DEF serial_putc
  <2>2. b \in Bytes
    BY DEF Bytes
  <2> QED BY <2>1, <2>2, <1>t, LoopFifo
<1>3. ASSUME NEW t \in Threads, lock_acquired(t) PROVE [Rx!Next]_rxFifo /\ [Tx!Next]_txFifo
  <2>1. CASE suspend(t, arg[t], queue(t))
    <3>1. UNCHANGED <<key, thr>> /\ intq' = [intq EXCEPT ![name(t)] = acquire_wait(queue(t), t)]
      BY <2>1 DEF suspend, device
    <3>2. acquire_wait(queue(t), t) \in QueueType /\ SameBytes(queue(t), acquire_wait(queue(t), t))
      BY <1>t, QueueOps, SameBytesOf
    <3>3. contents(acquire_wait(queue(t), t)) = contents(intq[name(t)])
      BY <1>t, <3>2, SameBytesMoved DEF queue
    <3>4. contents(intq'["rx"]) = contents(intq["rx"]) /\ contents(intq'["tx"]) = contents(intq["tx"])
      BY <1>q, <3>1, <3>3
    <3> QED BY <3>1, <3>4 DEF rxFifo, txFifo
  <2>2. CASE UNCHANGED <<intq, key, device>>
    BY <2>2 DEF rxFifo, txFifo, device
  <2> QED BY <1>3, <2>1, <2>2 DEF lock_acquired
<1>4. ASSUME NEW t \in Threads, signalled(t) PROVE [Rx!Next]_rxFifo /\ [Tx!Next]_txFifo
  <2>1. pc[t] # "run" /\ loop(t, arg[t], release(queue(t)))
    BY <1>4 DEF signalled
  <2>2. release(queue(t)) \in QueueType /\ SameBytes(queue(t), release(queue(t)))
    BY <1>t, QueueOps, SameBytesOf
  <2>3. t \in Writers => arg[t] \in Bytes
    BY <2>1 DEF SendInv
  <2> QED BY <1>a, <2>1, <2>2, <2>3, LoopFifo
<1>5. ASSUME serial_putc_off PROVE [Rx!Next]_rxFifo /\ [Tx!Next]_txFifo
  <2>1. PICK b \in Polled :
          LET q     == intq["tx"]
              freed == IF Full(q) THEN signal(get(q)) ELSE q
          IN IF mode = "POLL"
             THEN putc_poll(b) /\ UNCHANGED <<intq, ier, polls>>
             ELSE /\ polls < MaxPolls
                  /\ polls' = polls + 1
                  /\ IF Full(q) THEN putc_poll(next_byte(q)) ELSE UNCHANGED device
                  /\ intq' = [intq EXCEPT !["tx"] = put(freed, b)]
                  /\ write_ier(intq')
    BY <1>5 DEF serial_putc_off
  <2>2. b \in Bytes /\ UNCHANGED key
    BY <1>5 DEF serial_putc_off, Bytes
  <2>3. intq'["rx"] = intq["rx"]
    BY <1>q, <2>1
  <2>4. CASE mode = "POLL"
    <3>1. thr' = b /\ intq' = intq
      BY <2>1, <2>4 DEF putc_poll
    <3>2. contents(intq["tx"]) = <<>>
      <4>1. Empty(intq["tx"])
        BY <2>4 DEF SendInv
      <4>2. size(intq["tx"]) = 0
        BY <1>q, <4>1, SizeOf
      <4>3. contents(intq["tx"]) \in Seq(Bytes \cup {NULL}) /\ Len(contents(intq["tx"])) = 0
        BY <1>q, <4>2, ContentsOf
      <4> QED BY <4>3
    <3>3. Tx!Pass(b)
      BY <2>4, <3>1, <3>2 DEF Tx!Pass
    <3> QED BY <2>2, <3>1, <3>3 DEF Tx!Next, rxFifo
  <2>5. CASE mode # "POLL" /\ Full(intq["tx"])
    <3>1. thr' = next_byte(intq["tx"]) /\ intq'["tx"] = put(signal(get(intq["tx"])), b)
      BY <1>q, <2>1, <2>5 DEF putc_poll
    <3>2. SameBytes(put(get(intq["tx"]), b), intq'["tx"])
      BY <1>q, <3>1, QueueOps, SameBytesOf, SameBytesMoved
    <3>3. Tx!Shift(b)
      BY <1>q, <2>2, <2>5, <3>1, <3>2, Shifts DEF Tx!Shift
    <3> QED BY <2>2, <2>3, <3>3 DEF Tx!Next, rxFifo
  <2>6. CASE mode # "POLL" /\ ~ Full(intq["tx"])
    <3>1. UNCHANGED thr /\ intq'["tx"] = put(intq["tx"], b)
      BY <1>q, <2>1, <2>6 DEF device
    <3>2. SameBytes(put(intq["tx"], b), intq'["tx"])
      BY <3>1 DEF SameBytes
    <3>3. Tx!Put(b)
      BY <1>q, <2>2, <2>6, <3>1, <3>2, Puts DEF Tx!Put
    <3> QED BY <2>2, <2>3, <3>3 DEF Tx!Next, rxFifo
  <2> QED BY <2>4, <2>5, <2>6
<1>6. ASSUME serial_flush PROVE [Rx!Next]_rxFifo /\ [Tx!Next]_txFifo
  <2>1. CASE Empty(intq["tx"])
    BY <1>6, <2>1 DEF serial_flush, rxFifo, txFifo, device
  <2>2. CASE ~ Empty(intq["tx"])
    <3>1. /\ thr' = next_byte(intq["tx"]) /\ UNCHANGED key
          /\ intq' = [intq EXCEPT !["tx"] = signal(get(intq["tx"]))]
      BY <1>6, <2>2 DEF serial_flush, putc_poll
    <3>2. intq'["rx"] = intq["rx"] /\ SameBytes(get(intq["tx"]), intq'["tx"])
      BY <1>q, <3>1, QueueOps, SameBytesOf
    <3>3. Tx!Get
      BY <1>q, <2>2, <3>1, <3>2, Gets DEF Tx!Get
    <3> QED BY <3>1, <3>2, <3>3 DEF Tx!Next, rxFifo
  <2> QED BY <2>1, <2>2
<1>7. ASSUME NEW b \in Bytes, ~ Full(intq["rx"])
      PROVE  /\ input_putc(b)["tx"] = intq["tx"] /\ DOMAIN input_putc(b) = Queues
             /\ SameBytes(put(intq["rx"], b), input_putc(b)["rx"])
  <2>1. put(intq["rx"], b) \in QueueType
    BY <1>q, QueueOps
  <2> QED BY <1>q, <2>1, SameBytesOf DEF input_putc
<1>8. ASSUME keyboard_interrupt PROVE [Rx!Next]_rxFifo /\ [Tx!Next]_txFifo
  <2>1. PICK b \in Keys : intq' = input_putc(b)
    BY <1>8 DEF keyboard_interrupt
  <2>2. b \in Bytes /\ UNCHANGED <<key, thr>> /\ ~ Full(intq["rx"])
    BY <1>8 DEF keyboard_interrupt, Bytes, device
  <2>3. intq'["tx"] = intq["tx"] /\ SameBytes(put(intq["rx"], b), intq'["rx"])
    BY <2>1, <2>2, <1>7
  <2>4. Rx!Put(b)
    BY <1>q, <2>2, <2>3, Puts DEF Rx!Put
  <2> QED BY <2>2, <2>3, <2>4 DEF Rx!Next, txFifo
<1>9. ASSUME serial_interrupt PROVE [Rx!Next]_rxFifo /\ [Tx!Next]_txFifo
  <2> DEFINE receives  == ~ Full(intq["rx"]) /\ rbr # NULL
             received  == IF receives THEN input_putc(rbr) ELSE intq
             r         == signal(get(intq["tx"]))
             transmits == ~ Empty(intq["tx"]) /\ thre
  <2>1. /\ intq' = IF transmits THEN [received EXCEPT !["tx"] = r] ELSE received
        /\ IF transmits THEN thr' = next_byte(intq["tx"]) ELSE UNCHANGED thr
        /\ UNCHANGED key
    BY <1>9 DEF serial_interrupt
  <2>2. receives => rbr \in Bytes
    BY DEF SerialTypeOK
  <2>3. /\ DOMAIN received = Queues /\ received["tx"] = intq["tx"]
        /\ IF receives THEN SameBytes(put(intq["rx"], rbr), received["rx"]) ELSE received["rx"] = intq["rx"]
    BY <1>q, <1>7, <2>2
  <2>4. SameBytes(get(intq["tx"]), r)
    BY <1>q, QueueOps, SameBytesOf
  <2>5. receives => ~ Full(intq["rx"])
    OBVIOUS
  <2>6. transmits => ~ Empty(intq["tx"])
    OBVIOUS
  <2> HIDE DEF receives, received, r, transmits
  <2>7. intq'["rx"] = received["rx"] /\ intq'["tx"] = IF transmits THEN r ELSE intq["tx"]
    BY <1>q, <2>1, <2>3
  <2>8. [Rx!Next]_rxFifo
    <3>1. CASE receives
      <4>1. Rx!Put(rbr)
        BY <1>q, <2>1, <2>2, <2>3, <2>5, <2>7, <3>1, Puts DEF Rx!Put
      <4> QED BY <2>2, <3>1, <4>1 DEF Rx!Next
    <3>2. CASE ~ receives
      BY <2>1, <2>3, <2>7, <3>2 DEF rxFifo
    <3> QED BY <3>1, <3>2
  <2>9. [Tx!Next]_txFifo
    <3>1. CASE transmits
      <4>1. Tx!Get
        BY <1>q, <2>1, <2>4, <2>6, <2>7, <3>1, Gets DEF Tx!Get
      <4> QED BY <4>1 DEF Tx!Next
    <3>2. CASE ~ transmits
      BY <2>1, <2>7, <3>2 DEF txFifo
    <3> QED BY <3>1, <3>2
  <2> QED BY <2>8, <2>9
<1>10. ASSUME serial_init_queue \/ byte_arrives \/ transmitter_ready \/ UNCHANGED vars
       PROVE  [Rx!Next]_rxFifo /\ [Tx!Next]_txFifo
  <2>1. UNCHANGED <<intq, key, thr>>
    BY <1>10 DEF serial_init_queue, byte_arrives, transmitter_ready, vars, device
  <2> QED BY <2>1 DEF rxFifo, txFifo
<1> QED
  BY <1>1, <1>2, <1>3, <1>4, <1>5, <1>6, <1>8, <1>9, <1>10 DEF Next, wakes

LEMMA FifoInit == Init => Rx!Init /\ Tx!Init
<1> SUFFICES ASSUME Init PROVE Rx!Init /\ Tx!Init
  OBVIOUS
<1>1. intq["rx"] = EmptyQueue /\ intq["tx"] = EmptyQueue /\ key = NULL /\ thr = NULL
  BY DEF Init, Queues, device
<1>2. EmptyQueue \in QueueType
  BY TypeInit, <1>1 DEF SerialTypeOK, Queues
<1>3. size(EmptyQueue) = 0
  BY <1>2, SizeOf DEF Empty, EmptyQueue
<1>4. contents(EmptyQueue) \in Seq(Bytes \cup {NULL}) /\ Len(contents(EmptyQueue)) = 0
  BY <1>2, <1>3, ContentsOf
<1>5. contents(EmptyQueue) = <<>>
  BY <1>4
<1> QED BY <1>1, <1>5 DEF Rx!Init, Tx!Init

\* No byte bypasses the transmit queue once serial_init_queue has run: nothing
\* goes back to polling.
LEMMA StaysOpen == [Next]_vars => [(mode # "POLL")']_(mode # "POLL")
<1> SUFFICES ASSUME [Next]_vars PROVE (mode # "POLL")' \/ mode' = mode
  OBVIOUS
<1>1. ASSUME NEW t \in Threads, input_getc(t) \/ serial_putc(t) \/ lock_acquired(t) \/ signalled(t)
      PROVE  mode' = mode
  BY <1>1 DEF input_getc, serial_putc, lock_acquired, signalled, loop, suspend,
              input_getc_returns, serial_putc_returns
<1>2. CASE serial_putc_off \/ keyboard_interrupt \/ serial_interrupt \/ byte_arrives \/ transmitter_ready
  BY <1>2 DEF serial_putc_off, keyboard_interrupt, serial_interrupt, byte_arrives, transmitter_ready
<1>3. CASE serial_init_queue \/ serial_flush
  BY <1>3 DEF serial_init_queue, serial_flush
<1>4. CASE UNCHANGED vars
  BY <1>4 DEF vars
<1> QED
  BY <1>1, <1>2, <1>3, <1>4 DEF Next, wakes

\* The input buffer is a first-in first-out queue, for any size of ring and any
\* readers: input_getc returns each byte that the keyboard or the line put there,
\* once and in order (intq_getc and intq_putc, intq.c:38).
THEOREM InputIsFifo == Spec => InputInOrder
<1>1. Init /\ SerialTypeOK => Rx!Init
  BY FifoInit
<1>2. SerialTypeOK /\ SerialTypeOK' /\ SendInv /\ [Next]_vars => [Rx!Next]_rxFifo
  BY FifoStep
<1> QED
  BY <1>1, <1>2, SerialTypeCorrect, SendInit, SendStep, PTL DEF Spec, InputInOrder, Rx!Spec, rxFifo

\* So is the transmit queue, whoever takes a byte out (the handler, a poll when
\* the queue is full, the last flush) and whatever the mode it was sent in.
THEOREM OutputIsFifo == Spec => OutputInOrder
<1>1. Init /\ SerialTypeOK => Tx!Init
  BY FifoInit
<1>2. SerialTypeOK /\ SerialTypeOK' /\ SendInv /\ [Next]_vars => [Tx!Next]_txFifo
  BY FifoStep
<1> QED
  BY <1>1, <1>2, SerialTypeCorrect, SendInit, SendStep, StaysOpen, PTL DEF Spec, OutputInOrder, Tx!Spec, txFifo

=============================================================================
