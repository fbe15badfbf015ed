----------------------------- MODULE DmDirectory -----------------------------
(***************************************************************************)
(* What POST /api/dms promises: two users have at most one direct-message  *)
(* channel, it stays, and whoever asks for it is told its id.  A pair that *)
(* is asked for under several keys (spellings of the two ids) may get one  *)
(* channel under each, but only when the keys cross before it has any.     *)
(* DirectMessages.tla, the handler as it is written, implements this.      *)
(***************************************************************************)
CONSTANTS Pairs, Keys, Ids

VARIABLES dm,       \* the channels: id, pair, and the key it was made under
          split,    \* the pairs whose keys crossed
          answered  \* answered[p]: the ids callers were told for p

vars == <<dm, split, answered>>

Of(p) == {d \in dm : d.pair = p}

Init == /\ dm = {}
        /\ split = {}
        /\ answered = [p \in Pairs |-> {}]

Split(p) == /\ Of(p) = {}
            /\ split' = split \union {p}
            /\ UNCHANGED <<dm, answered>>

Create(p, k, i) == /\ \A d \in dm : d.id # i
                   /\ \A d \in Of(p) : p \in split /\ d.key # k
                   /\ dm' = dm \union {[id |-> i, pair |-> p, key |-> k]}
                   /\ UNCHANGED <<split, answered>>

Answer(p) == /\ \E d \in Of(p) : answered' = [answered EXCEPT ![p] = @ \union {d.id}]
             /\ UNCHANGED <<dm, split>>

Next == \/ \E p \in Pairs : Split(p) \/ Answer(p)
        \/ \E p \in Pairs, k \in Keys, i \in Ids : Create(p, k, i)

Spec == Init /\ [][Next]_vars
=============================================================================
