----------------------------- MODULE FileStore -----------------------------
(***************************************************************************)
(* What the file system calls promise: files are sequences of bytes, each  *)
(* changed by writes to it alone; a write beyond the end fills the gap     *)
(* with zeros; a file that is removed lives on until its last opener       *)
(* closes it; a call that fails changes nothing.                           *)
(***************************************************************************)
EXTENDS Naturals, Sequences

CONSTANTS Names, Ids, Procs, Value, MaxLength

NoId == 0

VARIABLES
  named,   \* the file each name stands for, or NoId
  opened,  \* <<process, file>> for each file a process has open
  bytes    \* what is in each file that has a name or is open

Live(f) == f # NoId /\ (f \in {named[n] : n \in Names} \/ \E p \in Procs : <<p, f>> \in opened)

\* Only the files named or open after the step have contents.
Keep(f, content) ==
  bytes' = [g \in Ids |-> IF ~ Live(g)' THEN <<>> ELSE IF g = f THEN content ELSE bytes[g]]

Create(n, f, len) ==
  /\ named[n] = NoId /\ ~ Live(f)
  /\ named' = [named EXCEPT ![n] = f]
  /\ UNCHANGED opened
  /\ Keep(f, [i \in 1 .. len |-> 0])

Remove(n) ==
  /\ named[n] # NoId
  /\ named' = [named EXCEPT ![n] = NoId]
  /\ UNCHANGED opened
  /\ Keep(NoId, <<>>)

Open(p, n) ==
  /\ named[n] # NoId
  /\ opened' = opened \cup {<<p, named[n]>>}
  /\ UNCHANGED <<named, bytes>>

Close(p, f) ==
  /\ <<p, f>> \in opened
  /\ opened' = opened \ {<<p, f>>}
  /\ UNCHANGED named
  /\ Keep(NoId, <<>>)

Write(p, f, off, size) ==
  LET old == bytes[f]
      len == IF off + size > Len(old) THEN off + size ELSE Len(old)
  IN
  /\ <<p, f>> \in opened
  /\ UNCHANGED <<named, opened>>
  /\ Keep(f, [i \in 1 .. len |-> IF i \in off + 1 .. off + size THEN Value
                                 ELSE IF i <= Len(old) THEN old[i] ELSE 0])

Init == named = [n \in Names |-> NoId] /\ opened = {} /\ bytes = [f \in Ids |-> <<>>]

Next ==
  \/ \E n \in Names : Remove(n) \/ \E f \in Ids : \E len \in 0 .. MaxLength : Create(n, f, len)
  \/ \E p \in Procs : \/ \E n \in Names : Open(p, n)
                      \/ \E f \in Ids : \/ Close(p, f)
                                        \/ \E off, size \in 0 .. MaxLength : Write(p, f, off, size)

Spec == Init /\ [][Next]_<<named, opened, bytes>>

=============================================================================
