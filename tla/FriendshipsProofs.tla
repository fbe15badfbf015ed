-------------------------- MODULE FriendshipsProofs --------------------------
(***************************************************************************)
(* Proofs about the friend routes, for any users and any number of         *)
(* handlers, of either backend or of both at once.                         *)
(***************************************************************************)
EXTENDS RustFriendships, TLAPS

(***************************************************************************)
(* The argument: what a handler carries over its await stays true of the   *)
(* histories, which only grow, while the row it read may be gone.          *)
(***************************************************************************)
RowInv(f) == /\ f.by \subseteq f.pair
             /\ f.by \subseteq wanted[f.pair]
             /\ f.actor \in f.by
             /\ f.id <= rows
             /\ f.status = "accepted" => wanted[f.pair] = f.pair

(* An id names one row. *)
IdsUnique == \A f, g \in friendships : f.id = g.id => f = g

AgreeInv(q) == q.next = "agree" => wanted[q.pair] = q.pair

(* The row an accept will write is of the pair it was checked for, and all  *)
(* it lacks is the will of the user who accepts.                            *)
AcceptInv(q) == q.next = "accept" =>
                   /\ wanted[q.pair] = q.pair
                   /\ q.id \in 1..rows
                   /\ \A f \in friendships : f.id = q.id =>
                        f.pair = q.pair /\ f.pair \subseteq f.by \union {q.user}

ReqInv(q) == q.next # "idle" => /\ q.user \in q.pair
                                /\ q.next = "insert" => q.user \in wanted[q.pair]
                                /\ AgreeInv(q)
                                /\ AcceptInv(q)

IInv == /\ TypeOK
        /\ \A p \in Pairs : wanted[p] \subseteq p
        /\ \A f \in friendships : RowInv(f)
        /\ IdsUnique
        /\ \A r \in Reqs : ReqInv(req[r])

(* Two different members of a pair are all of it. *)
LEMMA PairOfTwo == \A p \in Pairs : \A a, b \in p : a # b => p = {a, b}
  BY DEF Pairs

LEMMA InitIInv == Init => IInv
  BY RowsAssumption DEF Init, IInv, TypeOK, IdsUnique, ReqInv, Idle, Pending

(***************************************************************************)
(* Every step lets the histories grow and keeps the pair of an id.         *)
(***************************************************************************)
Evolves == /\ rows <= rows'
           /\ \A x \in Pairs : wanted[x] \subseteq wanted'[x] /\ wanted'[x] \subseteq x
           /\ \A f \in friendships' : f.id <= rows =>
                 \E g \in friendships : g.id = f.id /\ g.pair = f.pair /\ g.by \subseteq f.by

(* What a handler carries stays true while others take their steps. *)
LEMMA ReqStays == ASSUME TypeOK, TypeOK', Evolves, NEW q \in Pending, ReqInv(q)
                  PROVE  ReqInv(q)'
<1>1. q.pair \in Pairs
  BY DEF Pending
<1>2. wanted[q.pair] \subseteq wanted'[q.pair] /\ wanted'[q.pair] \subseteq q.pair
  BY <1>1 DEF Evolves
<1>3. ASSUME AcceptInv(q) PROVE AcceptInv(q)'
  <2> SUFFICES ASSUME q.next = "accept" PROVE AcceptInv(q)'
    BY DEF AcceptInv
  <2>1. wanted'[q.pair] = q.pair
    BY <1>2, <1>3 DEF AcceptInv
  <2>2. q.id \in 1..rows /\ q.id \in 1..rows'
    BY <1>3 DEF AcceptInv, Evolves, TypeOK
  <2>3. \A f \in friendships' : f.id = q.id => f.pair = q.pair /\ f.pair \subseteq f.by \union {q.user}
    BY <1>3, <2>2 DEF AcceptInv, Evolves
  <2> QED
    BY <2>1, <2>2, <2>3 DEF AcceptInv
<1>4. ASSUME AgreeInv(q) PROVE AgreeInv(q)'
  BY <1>2, <1>4 DEF AgreeInv
<1> QED
  BY <1>2, <1>3, <1>4 DEF ReqInv

(* So do all handlers but the one that takes a step. *)
LEMMA OthersStay ==
    ASSUME IInv, TypeOK', Evolves, NEW r \in Reqs, NEW s \in Reqs, s # r, req'[s] = req[s]
    PROVE  ReqInv(req[s])'
<1>1. PICK q : q = req[s]
  OBVIOUS
<1>2. ReqInv(q)
  BY <1>1 DEF IInv
<1>3. ReqInv(q)'
  <2>1. CASE q \in Pending
    BY <1>2, <2>1, ReqStays DEF IInv
  <2>2. CASE q = Idle
    BY <2>2 DEF ReqInv, Idle
  <2> QED
    BY <1>1, <2>1, <2>2 DEF IInv, TypeOK
<1> QED
  BY <1>1, <1>3

(* Rows that a step leaves alone keep their part of the invariant. *)
LEMMA RowStays == ASSUME TypeOK, TypeOK', Evolves, NEW f \in friendships, RowInv(f)
                  PROVE  RowInv(f)'
<1>1. f.pair \in Pairs /\ f.id \in 1..MaxRows
  BY DEF TypeOK, Row
<1>2. wanted[f.pair] \subseteq wanted'[f.pair] /\ wanted'[f.pair] \subseteq f.pair
  BY <1>1 DEF Evolves
<1>3. f.id <= rows => f.id <= rows'
  BY <1>1, RowsAssumption DEF Evolves, TypeOK
<1> QED
  BY <1>2, <1>3 DEF RowInv

(* The first step of a request: what it is about to write is an INSERT, or  *)
(* the UPDATE of the row the other user's request is in.                    *)
LEMMA AskKeeps ==
    ASSUME IInv, NEW r \in Reqs, NEW u \in Users, NEW p \in Pairs, u \in p,
           NEW n \in {"insert", "agree"},
           n = "agree" => \E f \in Of(p) : f.actor # u,
           req' = [req EXCEPT ![r] = [next |-> n, user |-> u, pair |-> p, id |-> 0]],
           wanted' = [wanted EXCEPT ![p] = @ \union {u}],
           UNCHANGED <<friendships, rows>>
    PROVE  IInv'
<1> DEFINE q == [next |-> n, user |-> u, pair |-> p, id |-> 0]
<1>1. p \in Pairs /\ u \in p
  OBVIOUS
<1>2. q \in Pending
  BY <1>1, RowsAssumption DEF Pending
<1>3. req' = [req EXCEPT ![r] = q] /\ wanted' = [wanted EXCEPT ![p] = @ \union {u}]
      /\ UNCHANGED <<friendships, rows>>
  OBVIOUS
<1>4. TypeOK'
  BY <1>1, <1>2, <1>3 DEF IInv, TypeOK
<1>5. \A x \in Pairs : wanted[x] \subseteq wanted'[x] /\ wanted'[x] \subseteq x
  BY <1>1, <1>3 DEF IInv, TypeOK
<1>e. Evolves
  <2>1. rows <= rows'
    BY <1>3 DEF IInv, TypeOK
  <2> QED
    BY <1>3, <1>5, <2>1 DEF Evolves
<1>6. \A f \in friendships : RowInv(f)'
  BY <1>4, <1>e, RowStays DEF IInv
<1>7. ReqInv(q)'
  <2>1. u \in wanted'[p]
    BY <1>1, <1>3 DEF IInv, TypeOK
  <2>2. ASSUME n = "agree" PROVE wanted'[p] = p
    <3>1. PICK f \in friendships : f.pair = p /\ f.actor # u
      BY <2>2 DEF Of
    <3>2. f.actor \in wanted[p] /\ f.actor \in p
      BY <3>1 DEF IInv, RowInv
    <3>3. p = {u, f.actor}
      BY <3>1, <3>2, PairOfTwo
    <3>4. f.actor \in wanted'[p] /\ wanted'[p] \subseteq p
      BY <1>5, <3>2
    <3> QED
      BY <2>1, <3>3, <3>4
  <2> QED
    BY <1>1, <2>1, <2>2 DEF ReqInv, AgreeInv, AcceptInv
<1>8. \A s \in Reqs : ReqInv(req[s])'
  <2> TAKE s \in Reqs
  <2>1. CASE s = r
    <3>1. req'[s] = q
      BY <1>3, <2>1 DEF IInv, TypeOK
    <3> HIDE DEF q
    <3> QED
      BY <1>7, <3>1 DEF ReqInv, AgreeInv, AcceptInv
  <2>2. CASE s # r
    <3>1. req'[s] = req[s]
      BY <1>3, <2>2 DEF IInv, TypeOK
    <3> QED
      BY <1>4, <1>e, <2>2, <3>1, OthersStay
  <2> QED
    BY <2>1, <2>2
<1> QED
  BY <1>3, <1>4, <1>5, <1>6, <1>8 DEF IInv, IdsUnique

LEMMA RespondKeeps ==
    ASSUME IInv, NEW r \in Reqs, NEW u \in Users, NEW f \in friendships,
           NEW a \in {"accept", "decline"}, Respond(r, u, f, a)
    PROVE  IInv'
<1> DEFINE q == [next |-> a, user |-> u, pair |-> f.pair, id |-> f.id]
<1>1. f \in Row /\ f.pair \in Pairs /\ u \in f.pair /\ RowInv(f)
  BY DEF IInv, TypeOK, Row, Respond
<1>2. q \in Pending
  BY <1>1, RowsAssumption DEF Pending, Row
<1>3. req' = [req EXCEPT ![r] = q] /\ UNCHANGED <<friendships, rows>>
      /\ wanted' = IF a = "accept" THEN [wanted EXCEPT ![f.pair] = @ \union {u}] ELSE wanted
  BY DEF Respond
<1>4. TypeOK'
  BY <1>1, <1>2, <1>3 DEF IInv, TypeOK
<1>5. \A x \in Pairs : wanted[x] \subseteq wanted'[x] /\ wanted'[x] \subseteq x
  BY <1>1, <1>3 DEF IInv, TypeOK
<1>e. Evolves
  <2>1. rows <= rows'
    BY <1>3 DEF IInv, TypeOK
  <2> QED
    BY <1>3, <1>5, <2>1 DEF Evolves
<1>6. \A g \in friendships : RowInv(g)'
  BY <1>4, <1>e, RowStays DEF IInv
<1>7. ReqInv(q)'
  <2>1. ASSUME a = "accept" PROVE AcceptInv(q)'
    <3>1. u \in wanted'[f.pair]
      BY <1>1, <1>3, <2>1 DEF IInv, TypeOK
    <3>2. f.actor # u /\ f.actor \in wanted[f.pair] /\ f.actor \in f.by /\ f.actor \in f.pair
      BY <1>1, <2>1 DEF Respond, RowInv
    <3>3. wanted'[f.pair] = f.pair /\ f.pair \subseteq f.by \union {u}
      BY <1>1, <1>5, <3>1, <3>2, PairOfTwo
    <3>4. \A g \in friendships : g.id = f.id => g = f
      BY DEF IInv, IdsUnique
    <3>5. f.id \in 1..rows
      BY <1>1 DEF RowInv, Row, IInv, TypeOK
    <3> QED
      BY <1>3, <3>3, <3>4, <3>5 DEF AcceptInv
  <2> QED
    BY <1>1, <2>1 DEF ReqInv, AgreeInv, AcceptInv
<1>8. \A s \in Reqs : ReqInv(req[s])'
  <2> TAKE s \in Reqs
  <2>1. CASE s = r
    <3>1. req'[s] = q
      BY <1>3, <2>1 DEF IInv, TypeOK
    <3> HIDE DEF q
    <3> QED
      BY <1>7, <3>1 DEF ReqInv, AgreeInv, AcceptInv
  <2>2. CASE s # r
    <3>1. req'[s] = req[s]
      BY <1>3, <2>2 DEF IInv, TypeOK
    <3> QED
      BY <1>4, <1>e, <2>2, <3>1, OthersStay
  <2> QED
    BY <2>1, <2>2
<1> QED
  BY <1>3, <1>4, <1>5, <1>6, <1>8 DEF IInv, IdsUnique

(* A handler that finished its write is idle. *)
LEMMA WriterIdle ==
    ASSUME IInv, TypeOK', Evolves, NEW r \in Reqs, req' = [req EXCEPT ![r] = Idle]
    PROVE  \A s \in Reqs : ReqInv(req[s])'
<1> TAKE s \in Reqs
<1>1. CASE s = r
  <2>1. req'[s] = Idle
    BY <1>1 DEF IInv, TypeOK
  <2> QED
    BY <2>1 DEF ReqInv, Idle
<1>2. CASE s # r
  <2>1. req'[s] = req[s]
    BY <1>2 DEF IInv, TypeOK
  <2> QED
    BY <1>2, <2>1, OthersStay
<1> QED
  BY <1>1, <1>2

LEMMA InsertKeeps == ASSUME IInv, NEW r \in Reqs, Insert(r) PROVE IInv'
<1>1. PICK q : q = req[r]
  OBVIOUS
<1>2. q \in Pending /\ q.pair \in Pairs /\ q.user \in Users /\ q.next = "insert" /\ ReqInv(q)
  BY <1>1 DEF Insert, IInv, TypeOK, Idle, Pending
<1>3. req' = [req EXCEPT ![r] = Idle] /\ wanted' = wanted
  BY DEF Insert
<1>4. CASE Of(q.pair) = {}
  <2>0. PICK i : i = rows + 1
    OBVIOUS
  <2> DEFINE n == [id |-> i, pair |-> q.pair, status |-> "pending",
                   actor |-> q.user, by |-> {q.user}]
  <2>1. rows < MaxRows /\ rows' = i /\ i = rows + 1 /\ i \in Nat /\ friendships' = friendships \union {n}
    BY <1>1, <1>4, <2>0 DEF Insert, IInv, TypeOK
  <2>2. n \in Row
    BY <1>2, <2>1, RowsAssumption DEF Row, IInv, TypeOK
  <2>3. TypeOK'
    <3>1. friendships' \in SUBSET Row
      BY <2>1, <2>2 DEF IInv, TypeOK
    <3>2. rows' \in 0..MaxRows
      BY <2>1, RowsAssumption DEF IInv, TypeOK
    <3>3. req' \in [Reqs -> Pending \union {Idle}]
      BY <1>3 DEF IInv, TypeOK
    <3> QED
      BY <1>3, <3>1, <3>2, <3>3 DEF IInv, TypeOK
  <2>4. Evolves
    BY <1>3, <2>1 DEF Evolves, IInv, TypeOK
  <2>5. RowInv(n)'
    <3>1. q.user \in q.pair /\ q.user \in wanted'[q.pair]
      BY <1>2, <1>3 DEF ReqInv
    <3>2. i <= rows'
      BY <2>1
    <3> QED
      BY <3>1, <3>2 DEF RowInv
  <2>6. \A f \in friendships' : RowInv(f)'
    <3>1. \A f \in friendships : RowInv(f)'
      BY <2>3, <2>4, RowStays DEF IInv
    <3> HIDE DEF n
    <3> QED
      BY <2>1, <2>5, <3>1
  <2>7. IdsUnique'
    <3>1. \A f \in friendships : f.id # n.id
      BY <2>1 DEF IInv, RowInv, TypeOK, Row
    <3> QED
      BY <2>1, <3>1 DEF IInv, IdsUnique
  <2> QED
    BY <1>3, <2>3, <2>4, <2>6, <2>7, WriterIdle DEF IInv, Evolves
<1>5. CASE Of(q.pair) # {}
  <2>1. UNCHANGED <<rows, friendships>>
    BY <1>1, <1>5 DEF Insert
  <2>2. TypeOK' /\ Evolves /\ IdsUnique'
    BY <1>3, <2>1 DEF IInv, TypeOK, Evolves, IdsUnique
  <2>3. \A f \in friendships' : RowInv(f)'
    BY <2>1, <2>2, RowStays DEF IInv
  <2> QED
    BY <1>3, <2>2, <2>3, WriterIdle DEF IInv, Evolves
<1> QED
  BY <1>4, <1>5

(***************************************************************************)
(* The two UPDATEs: the rows in R are accepted by u, who is in their pair  *)
(* whose users both wanted it.                                             *)
(***************************************************************************)
LEMMA UpdateKeeps ==
    ASSUME IInv, NEW r \in Reqs, NEW u \in Users, NEW R \in SUBSET friendships,
           \A f \in R : u \in f.pair /\ wanted[f.pair] = f.pair,
           friendships' = (friendships \ R) \union Accepted(R, u),
           req' = [req EXCEPT ![r] = Idle],
           UNCHANGED <<rows, wanted>>
    PROVE  IInv'
<1> DEFINE upd(f) == [f EXCEPT !.status = "accepted", !.actor = u, !.by = @ \union {u}]
<1>1. \A f \in R : upd(f) \in Row /\ upd(f).id = f.id /\ upd(f).pair = f.pair
                   /\ upd(f).by = f.by \union {u} /\ upd(f).actor = u
                   /\ upd(f).status = "accepted"
  <2> TAKE f \in R
  <2>1. f \in Row
    BY DEF IInv, TypeOK
  <2> QED
    BY <2>1 DEF Row
<1>2. Accepted(R, u) = {upd(f) : f \in R}
  BY DEF Accepted
<1> HIDE DEF upd
<1>3. \A x \in friendships' : x \in friendships \/ \E f \in R : x = upd(f)
  BY <1>2
<1>4. TypeOK'
  BY <1>1, <1>2 DEF IInv, TypeOK, Idle
<1>5. Evolves
  <2>1. \A x \in friendships' :
          \E g \in friendships : g.id = x.id /\ g.pair = x.pair /\ g.by \subseteq x.by
    BY <1>1, <1>3
  <2> QED
    BY <2>1 DEF Evolves, IInv, TypeOK
<1>6. \A x \in friendships' : RowInv(x)'
  <2>1. \A x \in friendships : RowInv(x)'
    BY <1>4, <1>5, RowStays DEF IInv
  <2>2. \A f \in R : RowInv(upd(f))'
    <3> TAKE f \in R
    <3>1. RowInv(f)
      BY DEF IInv
    <3> QED
      BY <1>1, <3>1 DEF RowInv
  <2> QED
    BY <1>3, <2>1, <2>2
<1>7. IdsUnique'
  <2>1. \A f \in R : \A g \in R : upd(f).id = upd(g).id => upd(f) = upd(g)
    BY <1>1 DEF IInv, IdsUnique
  <2>2. \A f \in R : \A g \in friendships \ R : upd(f).id # g.id
    BY <1>1 DEF IInv, IdsUnique
  <2> QED
    BY <1>2, <2>1, <2>2 DEF IInv, IdsUnique
<1> QED
  BY <1>4, <1>5, <1>6, <1>7, WriterIdle DEF IInv, Evolves

(* The DELETEs. *)
LEMMA DeleteKeeps ==
    ASSUME IInv, TypeOK', friendships' \subseteq friendships, UNCHANGED <<rows, wanted>>
    PROVE  /\ \A p \in Pairs : wanted'[p] \subseteq p
           /\ \A f \in friendships' : RowInv(f)'
           /\ IdsUnique'
           /\ Evolves
<1>1. Evolves
  BY DEF Evolves, IInv, TypeOK
<1> QED
  BY <1>1, RowStays DEF IInv, IdsUnique

LEMMA StepKeeps == IInv /\ [Next]_vars => IInv'
<1> SUFFICES ASSUME IInv, [Next]_vars PROVE IInv'
  OBVIOUS
<1>1. ASSUME NEW r \in Reqs, NEW u \in Users, NEW v \in Users, Ask(r, u, v) PROVE IInv'
  <2>0. PICK p \in Pairs : p = {u, v}
    BY <1>1 DEF Ask, Pairs
  <2>1. PICK n \in {"insert", "agree"} : n = IF Of(p) = {} THEN "insert" ELSE "agree"
    OBVIOUS
  <2>2. n = "agree" => \E f \in Of(p) : f.actor # u
    BY <1>1, <2>0, <2>1 DEF Ask
  <2>3. /\ u \in p
        /\ req' = [req EXCEPT ![r] = [next |-> n, user |-> u, pair |-> p, id |-> 0]]
        /\ wanted' = [wanted EXCEPT ![p] = @ \union {u}]
        /\ UNCHANGED <<friendships, rows>>
    BY <1>1, <2>0, <2>1 DEF Ask
  <2> QED
    BY <2>2, <2>3, AskKeeps
<1>2. ASSUME NEW r \in Reqs, NEW u \in Users, NEW f \in friendships,
             NEW a \in {"accept", "decline"}, Respond(r, u, f, a)
      PROVE IInv'
  BY <1>2, RespondKeeps
<1>3. ASSUME NEW r \in Reqs, Insert(r) PROVE IInv'
  BY <1>3, InsertKeeps
<1>4. ASSUME NEW r \in Reqs, Agree(r) PROVE IInv'
  <2>1. PICK q : q = req[r]
    OBVIOUS
  <2>2. q \in Pending /\ q.user \in Users /\ q.user \in q.pair /\ wanted[q.pair] = q.pair
    BY <1>4, <2>1 DEF Agree, IInv, TypeOK, Idle, Pending, ReqInv, AgreeInv
  <2> DEFINE R == Of(q.pair)
  <2>3. R \in SUBSET friendships /\ \A f \in R : q.user \in f.pair /\ wanted[f.pair] = f.pair
    BY <2>2 DEF Of
  <2>4. friendships' = (friendships \ R) \union Accepted(R, q.user)
        /\ req' = [req EXCEPT ![r] = Idle] /\ UNCHANGED <<rows, wanted>>
    BY <1>4, <2>1 DEF Agree
  <2> HIDE DEF R
  <2> QED
    BY <2>2, <2>3, <2>4, UpdateKeeps
<1>5. ASSUME NEW r \in Reqs, RespondAccept(r) PROVE IInv'
  <2>1. PICK q : q = req[r]
    OBVIOUS
  <2>2. q \in Pending /\ q.user \in Users /\ q.user \in q.pair /\ AcceptInv(q)
        /\ q.next = "accept"
    BY <1>5, <2>1 DEF RespondAccept, IInv, TypeOK, Idle, Pending, ReqInv
  <2> DEFINE R == WithId(q.id)
  <2>3. R \in SUBSET friendships /\ \A f \in R : q.user \in f.pair /\ wanted[f.pair] = f.pair
    BY <2>2 DEF WithId, AcceptInv
  <2>4. friendships' = (friendships \ R) \union Accepted(R, q.user)
        /\ req' = [req EXCEPT ![r] = Idle] /\ UNCHANGED <<rows, wanted>>
    BY <1>5, <2>1 DEF RespondAccept
  <2> HIDE DEF R
  <2> QED
    BY <2>2, <2>3, <2>4, UpdateKeeps
<1>6. ASSUME NEW r \in Reqs, RespondDecline(r) PROVE IInv'
  <2>1. friendships' \subseteq friendships /\ UNCHANGED <<rows, wanted>>
        /\ req' = [req EXCEPT ![r] = Idle]
    BY <1>6 DEF RespondDecline
  <2>2. TypeOK'
    BY <2>1 DEF IInv, TypeOK
  <2> QED
    BY <2>1, <2>2, DeleteKeeps, WriterIdle DEF IInv
<1>7. ASSUME NEW p \in Pairs, Remove(p) PROVE IInv'
  <2>1. friendships' \subseteq friendships /\ UNCHANGED <<rows, wanted, req>>
    BY <1>7 DEF Remove
  <2>0. TypeOK'
    BY <2>1 DEF IInv, TypeOK
  <2>2. TypeOK' /\ Evolves
    BY <2>0, <2>1, DeleteKeeps
  <2>3. \A s \in Reqs : ReqInv(req[s])'
    <3> TAKE s \in Reqs
    <3>1. PICK q : q = req[s] /\ q = req'[s]
      BY <2>1
    <3>2. CASE q \in Pending
      <4>1. ReqInv(q)'
        BY <2>2, <3>1, <3>2, ReqStays DEF IInv
      <4> QED
        BY <3>1, <4>1
    <3>3. CASE q = Idle
      BY <3>1, <3>3 DEF ReqInv, Idle
    <3> QED
      BY <3>1, <3>2, <3>3 DEF IInv, TypeOK
  <2> QED
    BY <2>1, <2>2, <2>3, DeleteKeeps DEF IInv
<1>8. CASE UNCHANGED vars
  <2>1. friendships' = friendships /\ UNCHANGED <<rows, wanted, req>>
    BY <1>8 DEF vars
  <2> QED
    BY <2>1 DEF IInv, TypeOK, RowInv, IdsUnique, ReqInv, AgreeInv, AcceptInv
<1> QED
  BY <1>1, <1>2, <1>3, <1>4, <1>5, <1>6, <1>7, <1>8 DEF Next

(* A lookup of the Rust port that fails is the only step of its own. *)
LEMMA BothStepKeeps == IInv /\ [BothNext]_vars => IInv'
<1> SUFFICES ASSUME IInv, [BothNext]_vars PROVE IInv'
  OBVIOUS
<1>1. ASSUME NEW r \in Reqs, NEW u \in Users, NEW v \in Users, send_friend_request(r, u, v)
      PROVE  IInv'
  <2>1. CASE Ask(r, u, v)
    BY <2>1, StepKeeps DEF Next
  <2>2. CASE ~Ask(r, u, v)
    <3>0. PICK p \in Pairs : p = {u, v}
      BY <1>1, <2>2 DEF send_friend_request, Pairs
    <3>1. PICK n \in {"insert", "agree"} : n = "insert"
      OBVIOUS
    <3>2. /\ u \in p
          /\ req' = [req EXCEPT ![r] = [next |-> n, user |-> u, pair |-> p, id |-> 0]]
          /\ wanted' = [wanted EXCEPT ![p] = @ \union {u}]
          /\ UNCHANGED <<friendships, rows>>
      BY <1>1, <2>2, <3>0, <3>1 DEF send_friend_request
    <3> QED
      BY <3>1, <3>2, AskKeeps
  <2> QED
    BY <2>1, <2>2
<1>2. CASE [Next]_vars
  BY <1>2, StepKeeps
<1> QED
  BY <1>1, <1>2 DEF BothNext, RustNext, Next, send_update, send_insert,
     respond_friend_request, respond_accept, respond_decline, remove_friend

THEOREM Invariance == BothSpec => []IInv
  BY InitIInv, BothStepKeeps, PTL DEF BothSpec

(* Every reachable state of the friend routes is type correct. *)
THEOREM TypeCorrect == BothSpec => []TypeOK
<1>1. IInv => TypeOK
  BY DEF IInv
<1> QED
  BY <1>1, Invariance, PTL

(* Nobody is anybody's friend without having asked or accepted once, for   *)
(* any number of handlers running at once (friends.ts 90-117, 134-147).    *)
THEOREM ConsentEver == BothSpec => []EverWanted
<1>1. IInv => EverWanted
  BY DEF IInv, RowInv, EverWanted
<1> QED
  BY <1>1, Invariance, PTL

(* The accept of the requests route always finds the other's request.      *)
THEOREM RespondSafe == BothSpec => AcceptedByOther
<1> DEFINE A == \A r \in Reqs : RespondAccept(r) =>
                  \A f \in friendships' :
                     f.id = req[r].id \/ f \notin friendships => f.by = f.pair
<1>1. IInv /\ IInv' /\ [BothNext]_vars => A
  <2> SUFFICES ASSUME IInv, IInv', NEW r \in Reqs, RespondAccept(r),
                      NEW x \in friendships', x.id = req[r].id \/ x \notin friendships
               PROVE  x.by = x.pair
    OBVIOUS
  <2>1. PICK q : q = req[r]
    OBVIOUS
  <2>2. q \in Pending /\ AcceptInv(q) /\ q.next = "accept"
    BY <2>1 DEF RespondAccept, IInv, TypeOK, Idle, Pending, ReqInv
  <2>3. x \in Accepted(WithId(q.id), q.user)
    BY <2>1 DEF RespondAccept, WithId
  <2>4. PICK f \in WithId(q.id) : f \in Row /\ x.by = f.by \union {q.user} /\ x.pair = f.pair
    BY <2>3 DEF Accepted, WithId, IInv, TypeOK, Row
  <2>5. x.pair \subseteq x.by
    BY <2>2, <2>4 DEF AcceptInv, WithId
  <2>6. x.by \subseteq x.pair
    BY DEF IInv, RowInv
  <2> QED
    BY <2>5, <2>6
<1>2. IInv /\ IInv' /\ [BothNext]_vars => [A]_vars
  BY <1>1
<1> QED
  BY <1>2, Invariance, PTL DEF BothSpec, AcceptedByOther
=============================================================================
