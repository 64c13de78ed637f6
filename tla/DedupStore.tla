----------------------------- MODULE DedupStore -----------------------------
(***************************************************************************)
(* What the chunk server promises the clients that put chunks into it,     *)
(* without chunk files, offsets or a hash database.  Every put that was    *)
(* answered with success is counted once, and its data can be read from    *)
(* then on.  After a fault a count may be too low and a key may be gone,   *)
(* but no count is ever too high and no read returns another key's data.   *)
(***************************************************************************)
EXTENDS Integers

CONSTANT Key

VARIABLES acked,   \* puts answered with success, per key
          refs,    \* the reference count kept, per key
          answer,  \* what a read of a key gives: its "data" or "none"
          exact    \* nothing has failed so far

vars == <<acked, refs, answer, exact>>

Init == /\ acked = [k \in Key |-> 0]
        /\ refs = [k \in Key |-> 0]
        /\ answer = [k \in Key |-> "none"]
        /\ exact = TRUE

Put(k) == /\ acked' = [acked EXCEPT ![k] = @ + 1]
          /\ \/ refs' = [refs EXCEPT ![k] = @ + 1]
             \/ ~exact /\ refs' = [refs EXCEPT ![k] = 1]
          /\ \/ answer' = [answer EXCEPT ![k] = "data"]
             \/ ~exact /\ answer' = answer
          /\ UNCHANGED exact

Fault == /\ exact' = FALSE
         /\ UNCHANGED acked
         /\ DOMAIN refs' = Key
         /\ \A k \in Key : refs'[k] \in 0 .. acked[k]
         /\ DOMAIN answer' = Key
         /\ \A k \in Key : \/ answer'[k] = "none"
                           \/ answer'[k] = "data" /\ refs'[k] > 0

Next == Fault \/ \E k \in Key : Put(k)

Spec == Init /\ [][Next]_vars
=============================================================================
