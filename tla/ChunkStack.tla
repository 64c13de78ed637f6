----------------------------- MODULE ChunkStack -----------------------------
(***************************************************************************)
(* What a free-chunk list promises to the chunk store, without pages, list *)
(* files or headers: a last-in first-out stack of chunk numbers that an    *)
(* orderly stop saves and the next start brings back.  Only a step in      *)
(* which a system call failed or the process died may lose a list; a list  *)
(* that lost part of itself is Unknown and promises nothing until an       *)
(* undamaged save is loaded.                                               *)
(***************************************************************************)
EXTENDS Integers, Sequences

CONSTANTS Offset,      \* chunk numbers
          Unknown,     \* a list that promises nothing
          NoChunk      \* the answer of a Pop that has nothing to give

VARIABLES stack,       \* the list in memory: a sequence, or Unknown
          saved,       \* the list on disk: a sequence, or Unknown
          up,          \* the process holds a list in memory
          ret,         \* what the last Pop answered
          fault        \* the last step suffered a failure

vars == <<stack, saved, up, ret, fault>>

Init == /\ stack = <<>> /\ saved = <<>>
        /\ up = FALSE /\ fault = FALSE
        /\ ret = NoChunk

Push(x) == /\ up /\ stack # Unknown
           /\ stack' = Append(stack, x)
           /\ fault' = FALSE
           /\ UNCHANGED <<saved, up, ret>>

Pop == /\ up /\ stack # Unknown /\ stack # <<>>
       /\ ret' = stack[Len(stack)]
       /\ stack' = SubSeq(stack, 1, Len(stack) - 1)
       /\ fault' = FALSE
       /\ UNCHANGED <<saved, up>>

PopEmpty == /\ up /\ stack = <<>>
            /\ ret' = NoChunk
            /\ fault' = FALSE
            /\ UNCHANGED <<stack, saved, up>>

(* A list that promises nothing takes anything and answers anything. *)
UseUnknown == /\ up /\ stack = Unknown
              /\ fault' = FALSE
              /\ UNCHANGED <<stack, saved, up>>

Stop == /\ up /\ up' = FALSE
        /\ saved' = stack /\ stack' = <<>>
        /\ fault' = FALSE
        /\ UNCHANGED ret

Start == /\ ~up /\ up' = TRUE
         /\ stack' = saved
         /\ fault' = FALSE
         /\ UNCHANGED <<saved, ret>>

(* No memory for a new entry. *)
Lose == /\ up /\ stack' = Unknown
        /\ fault' = TRUE
        /\ UNCHANGED <<saved, up, ret>>

(* The process dies, or cannot write its list: the previous save stays,    *)
(* unless it died half-way through saving.                                 *)
Die == /\ up /\ up' = FALSE
       /\ stack' = <<>>
       /\ saved' \in {saved, <<>>, stack, Unknown}
       /\ fault' = TRUE
       /\ UNCHANGED ret

(* The save cannot be opened, or memory runs out while it is loaded. *)
StartFails == /\ ~up /\ up' = TRUE
              /\ stack' \in {<<>>, Unknown}
              /\ fault' = TRUE
              /\ UNCHANGED <<saved, ret>>

Next == \/ \E x \in Offset : Push(x)
        \/ Pop \/ PopEmpty \/ UseUnknown \/ Stop \/ Start
        \/ Lose \/ Die \/ StartFails

Spec == Init /\ [][Next]_vars
=============================================================================
