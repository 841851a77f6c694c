------------------------------- MODULE Queues -------------------------------
(***************************************************************************)
(* The lists of the loop, deps/libuv/src/queue.h and the closing list, as  *)
(* sequences of what is linked in them.                                    *)
(***************************************************************************)
EXTENDS Integers, Sequences

In(s, r) == \E i \in DOMAIN s : s[i] = r

Once(s) == \A i, j \in DOMAIN s : s[i] = s[j] => i = j

\* QUEUE_REMOVE: the list without r, which is in it once at most.
Without(s, r) ==
  IF \A i \in DOMAIN s : s[i] # r THEN s
  ELSE LET k == CHOOSE i \in DOMAIN s : s[i] = r
       IN  [i \in 1 .. Len(s) - 1 |-> IF i < k THEN s[i] ELSE s[i + 1]]

\* The list with r linked behind the first n.
Spliced(s, n, r) == SubSeq(s, 1, n) \o <<r>> \o SubSeq(s, n + 1, Len(s))
=============================================================================
