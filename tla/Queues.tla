------------------------------- MODULE Queues -------------------------------
(***************************************************************************)
(* First-in first-out queues that members may leave from the middle: the   *)
(* deques of admission.rs and the waiters of a tokio mutex.                *)
(***************************************************************************)
EXTENDS Naturals, Sequences

Elems(s) == {s[i] : i \in 1..Len(s)}
Distinct(s) == \A i, j \in 1..Len(s) : s[i] = s[j] => i = j

(* VecDeque::remove(index); retain(|x| x != e) on a queue that holds e at   *)
(* most once.                                                               *)
RemoveIndex(s, i) == [j \in 1..Len(s) - 1 |-> IF j < i THEN s[j] ELSE s[j + 1]]

Without(s, e) ==
  IF \E i \in 1..Len(s) : s[i] = e
  THEN RemoveIndex(s, CHOOSE i \in 1..Len(s) : s[i] = e)
  ELSE s

=============================================================================
