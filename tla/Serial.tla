------------------------------- MODULE Serial -------------------------------
(***************************************************************************)
(* The interrupt queues (devices/intq.c) between threads and interrupt     *)
(* handlers, in their two uses: rx, the input buffer that the keyboard and *)
(* serial handlers fill and input_getc empties (devices/input.c), and tx,  *)
(* the transmit queue that serial_putc fills and the serial handler        *)
(* empties (devices/serial.c), with the interrupt enable register that     *)
(* must follow both.                                                       *)
(*                                                                         *)
(* Threads run these functions with interrupts off: one action is what     *)
(* runs until the thread returns, or sleeps in lock_acquire or wait ().    *)
(* Only readers wait on rx (not_empty) and only writers on tx (not_full):  *)
(* the field waiter of a queue is that one of its two pointers.            *)
(***************************************************************************)
EXTENDS Naturals, Sequences, FiniteSets, SequencesExt

CONSTANTS
  Readers,    \* threads that may call input_getc at the same time
  Writers,    \* threads that may call serial_putc, interrupts on, at the same time
  Keys, Line, \* the bytes that may come from the keyboard, and from the line
  Sent, Polled, \* the bytes threads send, with interrupts on and off
  BufSize,    \* INTQ_BUFSIZE
  NULL,
  MaxPolls    \* bound: bytes sent with interrupts off once the queue is in use

ASSUME SerialAssumption ==
  /\ Readers \cap Writers = {}
  /\ NULL \notin Readers \cup Writers \cup Keys \cup Line \cup Sent \cup Polled
  /\ BufSize \in Nat \ {0, 1}
  /\ MaxPolls \in Nat

Bytes   == Keys \cup Line \cup Sent \cup Polled
Threads == Readers \cup Writers
Queues  == {"rx", "tx"}
Slots   == 0 .. BufSize - 1

VARIABLES
  intq,     \* the two queues
  pc, arg,  \* where each thread is; the byte a writer is sending
  key,      \* the byte input_getc returned last
  mode,     \* POLL, QUEUE, and FLUSH once serial_flush has been called to stop the machine
  ier,      \* interrupt enable register: a subset of {"XMIT", "RECV"}
  rbr,      \* the byte received and not read yet, or NULL
  thre,     \* the transmitter is ready for a byte
  thr,      \* the last byte transmitted
  polls,
  panic

device == <<rbr, thre, thr>>
vars   == <<intq, pc, arg, key, mode, ier, device, polls, panic>>

\* Mutant: the position does not wrap around.
next_unwrapped(pos) == pos + 1

next(pos) == (pos + 1) % BufSize
Empty(q)  == q.head = q.tail
Full(q)   == next(q.head) = q.tail

EmptyQueue ==
  [buf |-> [i \in Slots |-> NULL], head |-> 0, tail |-> 0,
   waiter |-> NULL, locked |-> FALSE, sleepers |-> <<>>]

Init ==
  /\ intq = [n \in Queues |-> EmptyQueue]
  /\ pc = [t \in Threads |-> "run"]
  /\ arg = [t \in Threads |-> NULL]
  /\ key = NULL
  /\ mode = "POLL"
  /\ ier = {}
  /\ rbr = NULL
  /\ thre = TRUE
  /\ thr = NULL
  /\ polls = 0
  /\ panic = FALSE

-----------------------------------------------------------------------------
(* intq.c *)

\* signal (), where a thread may be waiting for what just became true.
signal(q) == [q EXCEPT !.waiter = NULL]

\* Mutant: head and tail confused.
put_at_tail(q, b) == [q EXCEPT !.buf[q.tail] = b, !.head = next(q.head)]

put(q, b) == [q EXCEPT !.buf[q.head] = b, !.head = next(q.head)]
\* The slot is cleared, which the code does not do: a byte read again would show.
get(q) == [q EXCEPT !.buf[q.tail] = NULL, !.tail = next(q.tail)]
\* Mutant: the newest byte.
next_byte_newest(q) == q.buf[(q.head + BufSize - 1) % BufSize]

next_byte(q) == q.buf[q.tail]

\* lock_acquire and, once the lock is had, wait ().
acquire_wait(q, t) ==
  IF q.locked THEN [q EXCEPT !.sleepers = Append(@, t)]
              ELSE [q EXCEPT !.locked = TRUE, !.waiter = t]

\* Mutant: the lock is given up and nobody woken.
release_silent(q) == [q EXCEPT !.locked = FALSE]

release(q) ==
  [q EXCEPT !.locked = FALSE, !.sleepers = IF @ = <<>> THEN <<>> ELSE Tail(@)]

name(t)    == IF t \in Readers THEN "rx" ELSE "tx"
queue(t)   == intq[name(t)]
must_wait(t, q) == IF t \in Readers THEN Empty(q) ELSE Full(q)

\* The thread sleeps.
suspend(t, b, q) ==
  /\ arg' = [arg EXCEPT ![t] = b]
  /\ intq' = [intq EXCEPT ![name(t)] = acquire_wait(q, t)]
  /\ pc' = [pc EXCEPT ![t] = IF q.locked THEN "lock" ELSE "wait"]
  /\ UNCHANGED <<key, mode, ier, device, polls, panic>>

-----------------------------------------------------------------------------
(* serial.c, input.c *)

write_ier(queues) ==
  ier' = {i \in {"XMIT", "RECV"} :
            IF i = "XMIT" THEN ~ Empty(queues["tx"]) ELSE ~ Full(queues["rx"])}

\* Mutant: the register is not reassessed.
serial_notify_none(queues) == UNCHANGED ier

serial_notify(queues) ==
  IF mode = "QUEUE" THEN write_ier(queues) ELSE UNCHANGED ier

return(t) == pc' = [pc EXCEPT ![t] = "run"] /\ arg' = [arg EXCEPT ![t] = NULL]

\* The rest of input_getc and serial_putc once the loop of intq_getc and
\* intq_putc is over, on queue q.
input_getc_returns(t, q) ==
  LET queues == [intq EXCEPT !["rx"] = get(q)] IN
  /\ t \in Readers
  /\ intq' = queues
  /\ key' = next_byte(q)
  /\ serial_notify(queues)
  /\ return(t)
  /\ UNCHANGED <<mode, device, polls, panic>>

serial_putc_returns(t, b, q) ==
  LET queues == [intq EXCEPT !["tx"] = put(q, b)] IN
  /\ t \in Writers
  /\ intq' = queues
  /\ write_ier(queues)
  /\ return(t)
  /\ UNCHANGED <<key, mode, device, polls, panic>>

\* The loop of intq_getc and intq_putc, from its test.
loop(t, b, q) ==
  \/ must_wait(t, q) /\ suspend(t, b, q)
  \/ ~ must_wait(t, q) /\ (input_getc_returns(t, q) \/ serial_putc_returns(t, b, q))

running == mode # "FLUSH" /\ ~ panic

input_getc(t) ==
  /\ running
  /\ t \in Readers /\ pc[t] = "run"
  /\ loop(t, NULL, queue(t))

serial_putc(t) ==
  /\ running
  /\ mode = "QUEUE"
  /\ t \in Writers /\ pc[t] = "run"
  /\ \E b \in Sent : loop(t, b, queue(t))

\* The thread comes out of lock_acquire, or sleeps there again; wait ()
\* asserts what the loop tested before it slept.
lock_acquired(t) ==
  /\ running
  /\ pc[t] = "lock" /\ ~ Contains(queue(t).sleepers, t)
  /\ \/ /\ queue(t).locked \/ must_wait(t, queue(t))
        /\ suspend(t, arg[t], queue(t))
     \/ ~ queue(t).locked /\ ~ must_wait(t, queue(t))
        /\ panic' = TRUE
        /\ UNCHANGED <<intq, pc, arg, key, mode, ier, device, polls>>

\* The thread comes out of wait () and gives the lock up.
signalled(t) ==
  /\ running
  /\ pc[t] = "wait" /\ queue(t).waiter # t
  /\ loop(t, arg[t], release(queue(t)))

\* putc_poll spins until the transmitter is ready.
putc_poll(b) == thr' = b /\ thre' = FALSE /\ UNCHANGED rbr

\* serial_putc with interrupts off, by a thread or by a handler that prints.
serial_putc_off ==
  /\ running
  /\ \E b \in Polled :
       LET q     == intq["tx"]
           freed == IF Full(q) THEN signal(get(q)) ELSE q
       IN IF mode = "POLL"
          THEN putc_poll(b) /\ UNCHANGED <<intq, ier, polls>>
          ELSE /\ polls < MaxPolls
               /\ polls' = polls + 1
               /\ IF Full(q) THEN putc_poll(next_byte(q)) ELSE UNCHANGED device
               /\ intq' = [intq EXCEPT !["tx"] = put(freed, b)]
               /\ write_ier(intq')
  /\ UNCHANGED <<pc, arg, key, mode, panic>>

serial_init_queue ==
  /\ running
  /\ mode = "POLL"
  /\ mode' = "QUEUE"
  /\ write_ier(intq)
  /\ UNCHANGED <<intq, pc, arg, key, device, polls, panic>>

\* serial_flush, called before the machine is powered off and after a panic
\* with interrupts off: nothing else runs any more.
serial_flush ==
  /\ mode' = "FLUSH"
  /\ LET q == intq["tx"] IN
     IF Empty(q)
     THEN mode # "FLUSH" /\ UNCHANGED <<intq, device>>
     ELSE /\ intq' = [intq EXCEPT !["tx"] = signal(get(q))]
          /\ putc_poll(next_byte(q))
  /\ UNCHANGED <<pc, arg, key, ier, polls, panic>>

\* Mutant: the reader is not woken.
input_putc_silent(b) == [intq EXCEPT !["rx"] = put(intq["rx"], b)]

\* input_putc, the queue not full.
input_putc(b) == [intq EXCEPT !["rx"] = signal(put(intq["rx"], b))]

\* keyboard_interrupt, for a key that stands for a character.
keyboard_interrupt ==
  /\ running
  /\ ~ Full(intq["rx"])
  /\ \E b \in Keys : intq' = input_putc(b)
  /\ serial_notify(intq')
  /\ UNCHANGED <<pc, arg, key, mode, device, polls, panic>>

\* The UART holds one byte in each direction: FCR_REG disables its FIFO.
serial_interrupt ==
  LET receives  == ~ Full(intq["rx"]) /\ rbr # NULL
      received  == IF receives THEN input_putc(rbr) ELSE intq
      q         == intq["tx"]
      transmits == ~ Empty(q) /\ thre
  IN
  /\ running
  /\ mode = "QUEUE"
  /\ ("RECV" \in ier /\ rbr # NULL) \/ ("XMIT" \in ier /\ thre)
  /\ rbr' = IF receives THEN NULL ELSE rbr
  /\ intq' = IF transmits THEN [received EXCEPT !["tx"] = signal(get(q))] ELSE received
  /\ IF transmits THEN thr' = next_byte(q) /\ thre' = FALSE ELSE UNCHANGED <<thr, thre>>
  /\ write_ier(intq')
  /\ UNCHANGED <<pc, arg, key, mode, polls, panic>>

\* The UART: a byte arrives; the byte written to it has left.
byte_arrives == running /\ rbr = NULL /\ rbr' \in Line
                /\ UNCHANGED <<intq, pc, arg, key, mode, ier, thre, thr, polls, panic>>
transmitter_ready == running /\ ~ thre /\ thre' = TRUE
                     /\ UNCHANGED <<intq, pc, arg, key, mode, ier, rbr, thr, polls, panic>>

wakes(t) == lock_acquired(t) \/ signalled(t)

Next ==
  \/ \E t \in Threads : input_getc(t) \/ serial_putc(t) \/ wakes(t)
  \/ serial_putc_off
  \/ serial_init_queue
  \/ serial_flush
  \/ keyboard_interrupt
  \/ serial_interrupt
  \/ byte_arrives
  \/ transmitter_ready

Spec == Init /\ [][Next]_vars

\* A thread made ready runs (Scheduler), an interrupt that is enabled is
\* taken, and the line moves.
FairSpec == /\ Spec
            /\ \A t \in Threads : WF_vars(wakes(t))
            /\ WF_vars(serial_interrupt)
            /\ WF_vars(transmitter_ready)

-----------------------------------------------------------------------------
(* Properties *)

QueueType ==
  [buf : [Slots -> Bytes \cup {NULL}], head : Slots, tail : Slots,
   waiter : Threads \cup {NULL}, locked : BOOLEAN, sleepers : Seq(Threads)]

\* Every variable has its type.
SerialTypeOK ==
  /\ intq \in [Queues -> QueueType]
  /\ pc \in [Threads -> {"run", "lock", "wait"}]
  /\ arg \in [Threads -> Bytes \cup {NULL}]
  /\ key \in Bytes \cup {NULL}
  /\ mode \in {"POLL", "QUEUE", "FLUSH"}
  /\ ier \subseteq {"XMIT", "RECV"}
  /\ rbr \in Bytes \cup {NULL}
  /\ thre \in BOOLEAN
  /\ thr \in Bytes \cup {NULL}
  /\ polls \in 0 .. MaxPolls
  /\ panic \in BOOLEAN

\* While nobody runs serial.c's code, the interrupt enable register follows
\* the queues, whichever of the keyboard, the line, readers and writers moved
\* them last: bytes to send have the transmit interrupt on, and the line is
\* listened to exactly while there is room.
InterruptsArmed ==
  mode = "QUEUE" => /\ "XMIT" \in ier <=> ~ Empty(intq["tx"])
                    /\ "RECV" \in ier <=> ~ Full(intq["rx"])

\* A thread asleep in wait () has nothing it could do: a reader sleeps on an
\* empty queue and a writer on a full one.  One who sleeps in lock_acquire
\* sleeps behind a thread in wait (), or behind one that is being woken.
NobodySleepsOnWork ==
  \A t \in Threads :
    /\ pc[t] = "wait" => /\ queue(t).locked
                         /\ queue(t).waiter = t => must_wait(t, queue(t))
    /\ Contains(queue(t).sleepers, t) =>
         \E u \in Threads : /\ name(u) = name(t) /\ u # t
                            /\ \/ pc[u] = "wait"
                               \/ pc[u] = "lock" /\ ~ Contains(queue(t).sleepers, u)

\* The bytes between tail and head, oldest first.
contents(q) ==
  [i \in 1 .. (q.head + BufSize - q.tail) % BufSize |-> q.buf[(q.tail + i - 1) % BufSize]]

Rx == INSTANCE ByteQueue WITH fifo <- contents(intq["rx"]), out <- key, open <- TRUE,
                               Capacity <- BufSize - 1
Tx == INSTANCE ByteQueue WITH fifo <- contents(intq["tx"]), out <- thr, open <- mode # "POLL",
                               Capacity <- BufSize - 1

\* The bytes readers get are the bytes that the keyboard and the line put in
\* the buffer, in order, none lost or twice.
InputInOrder == Rx!Spec

\* The bytes that go out on the line are those serial_putc was given, in
\* order, whether the handler, a poll or the final flush sends them.
OutputInOrder == Tx!Spec

\* Nobody sleeps for ever beside work: a writer that waits for room in the
\* transmit queue returns, and the input buffer does not stay non-empty beside a
\* sleeping reader (he, or another that came first, takes what is there).
SleepersServed ==
  \A n \in Queues :
    (\E t \in Threads : name(t) = n /\ pc[t] # "run" /\ (n = "rx" => ~ Empty(intq["rx"])))
      ~> (n = "rx" /\ Empty(intq["rx"])) \/ (\A t \in Threads : name(t) = n => pc[t] = "run")
         \/ ~ running

=============================================================================
