----------------------------- MODULE ByteQueue -----------------------------
(***************************************************************************)
(* What a ring buffer of PIF promises to its one writer and its one reader: *)
(* a queue of bytes, a put session that stays hidden until it is committed, *)
(* and bytes handed out to the reader in place, which stay where they are.  *)
(***************************************************************************)
EXTENDS Naturals, Sequences

CONSTANTS
  Byte,
  Capacity   \* bytes that can be held, one fewer than the size of the buffer

VARIABLES
  queue,     \* the bytes the reader may take
  session,   \* the bytes of the put session
  open,      \* a put session is open
  claim      \* bytes at the front of the queue the reader holds

vars == <<queue, session, open, claim>>

TypeOK ==
  /\ queue \in Seq(Byte) /\ session \in Seq(Byte)
  /\ Len(queue) + Len(session) <= Capacity
  /\ open \in BOOLEAN
  /\ claim \in 0 .. Len(queue)

Init == queue = <<>> /\ session = <<>> /\ ~open /\ claim = 0

Rest(n) == SubSeq(queue, n + 1, Len(queue))

Put(b) ==
  /\ Len(queue) + Len(session) < Capacity
  /\ IF open
     THEN session' = Append(session, b) /\ UNCHANGED queue
     ELSE queue' = Append(queue, b) /\ UNCHANGED session
  /\ UNCHANGED <<open, claim>>

Begin == session' = <<>> /\ open' /\ UNCHANGED <<queue, claim>>
Commit == queue' = queue \o session /\ session' = <<>> /\ ~open' /\ UNCHANGED claim
Rollback == session' = <<>> /\ ~open' /\ UNCHANGED <<queue, claim>>

\* Old bytes are dropped to make room, never under the hands of the reader.
Drop(n) == claim = 0 /\ queue' = Rest(n) /\ UNCHANGED <<session, open, claim>>

\* The reader takes bytes from the front, held or not.
Take(n) ==
  /\ queue' = Rest(n)
  /\ claim' = IF claim > n THEN claim - n ELSE 0
  /\ UNCHANGED <<session, open>>

\* The reader is handed bytes in place, and gives all of them back.
Claim(n) == claim' = n /\ n >= claim /\ UNCHANGED <<queue, session, open>>
Release(n) == queue' = Rest(n) /\ claim' = 0 /\ UNCHANGED <<session, open>>

Next ==
  \/ \E b \in Byte : Put(b)
  \/ Begin \/ Commit \/ Rollback
  \/ \E n \in 1 .. Len(queue) : Drop(n) \/ Take(n) \/ Claim(n)
  \/ \E n \in 0 .. Len(queue) : Release(n)

Spec == Init /\ [][Next]_vars
=============================================================================
