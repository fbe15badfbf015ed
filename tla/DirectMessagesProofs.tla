------------------------ MODULE DirectMessagesProofs ------------------------
(* Proofs about POST /api/dms, for any users, handlers, ids and pool.       *)
EXTENDS DirectMessages, FiniteSetTheorems, TLAPS

(***************************************************************************)
(* The argument: between its lock and its COMMIT a handler is alone under  *)
(* its lock, so what the second lookup saw (no channel) is still true when *)
(* it inserts, unless handlers under another lock of the same pair went    *)
(* past theirs meanwhile: those pairs are the crossed ones.  An id in      *)
(* flight is nobody else's.                                                *)
(***************************************************************************)
LockTaken == \A r \in Reqs : req[r].next \in WithLock => req[r].key \in locks

Exclusive == \A r, s \in Reqs : /\ req[r].next \in WithLock
                                /\ req[s].next \in WithLock
                                /\ req[r].key = req[s].key
                                => r = s

LockOwned == \A k \in locks : \E r \in Reqs : req[r].next \in WithLock /\ req[r].key = k

StillNone == \A r \in Reqs : req[r].next \in {"insert", "commit"} =>
                \A d \in dms : d.pair = req[r].pair => /\ d.pair \in crossed
                                                      /\ d.key # req[r].key

AloneOrCrossed == \A r, s \in Reqs : /\ req[r].next \in {"insert", "commit"}
                                     /\ req[s].next \in {"insert", "commit"}
                                     /\ req[r].pair = req[s].pair
                                     /\ req[r].pair \in Pairs
                                     => r = s \/ req[r].pair \in crossed

IdFresh == \A r \in Reqs : req[r].next = "commit" =>
              /\ req[r].pair \in Pairs
              /\ \E i \in Ids : /\ req[r].channel = {i}
                               /\ \A d \in dms : d.id # i

IdsDistinct == \A r, s \in Reqs : /\ req[r].next = "commit"
                                  /\ req[s].next = "commit"
                                  /\ req[r].channel \intersect req[s].channel # {}
                                  => r = s

ReplyKnown == \A r \in Reqs : req[r].next = "reply" =>
                 \E i \in Ids : /\ req[r].channel = {i}
                                /\ i \in ChannelsOf(req[r].pair)

IInv == /\ TypeOK
        /\ LockTaken /\ Exclusive /\ LockOwned
        /\ StillNone /\ AloneOrCrossed /\ IdFresh /\ IdsDistinct /\ ReplyKnown
        /\ OneDmPerPair
        /\ AnswersCommitted

HandlerInv == LockTaken /\ Exclusive /\ LockOwned /\ StillNone
                /\ AloneOrCrossed /\ IdFresh /\ IdsDistinct /\ ReplyKnown

(* A pair's channel is one of exactly its two members. *)
LEMMA InChannelsOf ==
    ASSUME TypeOK, NEW p \in Pairs, NEW d \in dms
    PROVE  p \subseteq d.pair <=> d.pair = p
<1>1. d.pair \in Pairs
  BY DEF TypeOK, Dm
<1>2. PICK a, b \in Users : a # b /\ p = {a, b}
  BY DEF Pairs
<1>3. PICK x, y \in Users : x # y /\ d.pair = {x, y}
  BY <1>1 DEF Pairs
<1> QED
  BY <1>2, <1>3

LEMMA InitIInv == Init => IInv
<1> SUFFICES ASSUME Init PROVE IInv
  OBVIOUS
<1>1. \A r \in Reqs : req[r].next = "idle"
  BY DEF Init, Idle
<1>2. TypeOK
  BY PoolAssumption DEF Init, TypeOK
<1> QED
  BY <1>1, <1>2 DEF Init, IInv, LockTaken, Exclusive, LockOwned, StillNone, AloneOrCrossed,
       IdFresh, IdsDistinct, ReplyKnown, OneDmPerPair, AnswersCommitted, WithLock

(* A handler that is not idle carries its four fields. *)
LEMMA RunningHandler == ASSUME TypeOK, NEW r \in Reqs, req[r].next # "idle"
                        PROVE  req[r] \in Running
  BY DEF TypeOK, Idle

(***************************************************************************)
(* A step of handler r outside the locked part: nothing committed, no lock *)
(* taken or given back.                                                    *)
(***************************************************************************)
LEMMA QuietStep ==
    ASSUME IInv, NEW r \in Reqs, NEW x,
           req[r].next \notin WithLock,
           x.next \notin WithLock \union {"reply"},
           req' = [req EXCEPT ![r] = x],
           UNCHANGED <<dms, locks, crossed>>
    PROVE  HandlerInv'
<1>1. \A s \in Reqs : req'[s] = IF s = r THEN x ELSE req[s]
  BY DEF IInv, TypeOK
<1>2. "insert" \in WithLock /\ "commit" \in WithLock
  BY DEF WithLock
<1> HIDE DEF WithLock
<1>3. LockTaken' /\ Exclusive' /\ LockOwned'
  BY <1>1 DEF IInv, LockTaken, Exclusive, LockOwned
<1>4. StillNone' /\ AloneOrCrossed'
  BY <1>1, <1>2 DEF IInv, StillNone, AloneOrCrossed
<1>5. IdFresh'
  BY <1>1, <1>2 DEF IInv, IdFresh
<1>6. IdsDistinct'
  BY <1>1, <1>2 DEF IInv, IdsDistinct
<1>7. ReplyKnown'
  BY <1>1 DEF IInv, ReplyKnown, ChannelsOf
<1> QED
  BY <1>3, <1>4, <1>5, <1>6, <1>7 DEF HandlerInv

(* Handler r ends, from any point, and gives back the lock it holds. *)
LEMMA EndStep ==
    ASSUME IInv, NEW r \in Reqs,
           req' = [req EXCEPT ![r] = Idle],
           locks' = IF req[r].next \in WithLock THEN locks \ {req[r].key} ELSE locks,
           dms' = dms, crossed' = crossed
    PROVE  HandlerInv'
<1>1. \A s \in Reqs : req'[s] = IF s = r THEN Idle ELSE req[s]
  BY DEF IInv, TypeOK
<1>2. Idle.next \notin WithLock /\ Idle.next # "reply" /\ Idle.next # "commit"
      /\ Idle.next # "insert"
  BY DEF WithLock, Idle
<1> HIDE DEF Idle, WithLock
<1>3. LockTaken'
  BY <1>1, <1>2 DEF IInv, LockTaken, Exclusive
<1>4. Exclusive' /\ LockOwned'
  BY <1>1, <1>2 DEF IInv, Exclusive, LockOwned
<1>5. StillNone' /\ AloneOrCrossed'
  BY <1>1, <1>2 DEF IInv, StillNone, AloneOrCrossed
<1>6. IdFresh'
  BY <1>1, <1>2 DEF IInv, IdFresh
<1>7. IdsDistinct'
  BY <1>1, <1>2 DEF IInv, IdsDistinct
<1>8. ReplyKnown'
  BY <1>1, <1>2 DEF IInv, ReplyKnown, ChannelsOf
<1> QED
  BY <1>3, <1>4, <1>5, <1>6, <1>7, <1>8 DEF HandlerInv

(* [req[r] EXCEPT !.next = step] and its fields. *)
LEMMA GotoFields ==
    ASSUME TypeOK, NEW r \in Reqs, req[r].next # "idle", NEW step \in Steps, Goto(r, step)
    PROVE  \E x \in Running : /\ req' = [req EXCEPT ![r] = x]
                              /\ x.next = step
                              /\ x.pair = req[r].pair
                              /\ x.key = req[r].key
                              /\ x.channel = req[r].channel
<1>1. req[r] \in Running
  BY RunningHandler
<1> DEFINE x == [req[r] EXCEPT !.next = step]
<1>2. x \in Running /\ x.next = step /\ x.pair = req[r].pair /\ x.key = req[r].key
      /\ x.channel = req[r].channel
  BY <1>1 DEF Running
<1>3. req' = [req EXCEPT ![r] = x]
  BY DEF Goto
<1> QED
  BY <1>2, <1>3

(* Steps that only move handler r on, outside the locked part. *)
LEMMA QuietGoto ==
    ASSUME IInv, NEW r \in Reqs, req[r].next \notin WithLock \union {"idle"},
           NEW step \in Steps, step \notin WithLock \union {"reply"}, Goto(r, step),
           UNCHANGED <<dms, locks, answered, crossed>>, free' \in Nat
    PROVE  IInv'
<1>1. PICK x \in Running : /\ req' = [req EXCEPT ![r] = x]
                          /\ x.next = step
  BY GotoFields DEF IInv
<1>2. HandlerInv'
  BY <1>1, QuietStep
<1>3. TypeOK'
  BY <1>1 DEF IInv, TypeOK
<1>4. OneDmPerPair' /\ AnswersCommitted'
  BY DEF IInv, OneDmPerPair, AnswersCommitted, ChannelsOf
<1> QED
  BY <1>2, <1>3, <1>4 DEF IInv, HandlerInv

(* Handler r ends with the answer C, {} for an error. *)
LEMMA EndKeeps ==
    ASSUME IInv, NEW r \in Reqs, NEW C \in SUBSET Ids,
           C # {} => req[r].next # "idle" /\ C \subseteq ChannelsOf(req[r].pair),
           req' = [req EXCEPT ![r] = Idle],
           answered' = IF C = {} THEN answered
                       ELSE Told(r, C),
           locks' = IF req[r].next \in WithLock THEN locks \ {req[r].key} ELSE locks,
           dms' = dms, crossed' = crossed, free' \in Nat
    PROVE  IInv'
<1>1. HandlerInv'
  BY EndStep
<1>2. \A p \in Pairs : answered'[p] \subseteq answered[p] \union {i \in C : p = req[r].pair}
  BY DEF Told
<1>3. TypeOK'
  <2>1. answered' \in [Pairs -> SUBSET Ids]
    BY DEF IInv, TypeOK, Told
  <2> QED
    BY <2>1 DEF IInv, TypeOK
<1>4. \A p \in Pairs : ChannelsOf(p)' = ChannelsOf(p)
  BY DEF ChannelsOf
<1>5. AnswersCommitted'
  <2> SUFFICES ASSUME NEW p \in Pairs PROVE answered'[p] \subseteq ChannelsOf(p)
    BY <1>4 DEF AnswersCommitted
  <2>1. answered[p] \subseteq ChannelsOf(p)
    BY DEF IInv, AnswersCommitted
  <2> QED
    BY <1>2, <2>1
<1>6. OneDmPerPair'
  BY DEF IInv, OneDmPerPair
<1> QED
  BY <1>1, <1>3, <1>5, <1>6 DEF IInv, HandlerInv

(* Handler r ends with an error. *)
LEMMA ErrorKeeps ==
    ASSUME IInv, NEW r \in Reqs, req' = [req EXCEPT ![r] = Idle],
           locks' = IF req[r].next \in WithLock THEN locks \ {req[r].key} ELSE locks,
           UNCHANGED <<dms, crossed, answered>>, free' \in Nat
    PROVE  IInv'
<1>1. PICK C \in SUBSET Ids : C = {}
  OBVIOUS
<1>2. answered' = IF C = {} THEN answered ELSE Told(r, C)
  BY <1>1
<1>3. C # {} => req[r].next # "idle" /\ C \subseteq ChannelsOf(req[r].pair)
  BY <1>1
<1>4. dms' = dms /\ crossed' = crossed
  OBVIOUS
<1> QED
  BY <1>2, <1>3, <1>4, EndKeeps

LEMMA CallKeeps == ASSUME IInv, NEW r \in Reqs, NEW u \in Users, NEW t \in Texts, Call(r, u, t)
                   PROVE  IInv'
<1> DEFINE x == [next |-> "lookup", pair |-> {u, t.user}, key |-> {Own(u), t}, channel |-> {}]
<1>1. x \in Running
  <2>1. {u, t.user} \in Asked /\ {Own(u), t} \in Keys
    BY TextsAssumption DEF Asked, Keys
  <2> QED
    BY <2>1 DEF Running, Steps
<1>2. req' = [req EXCEPT ![r] = x] /\ UNCHANGED <<dms, crossed, locks, free, answered>>
      /\ req[r].next = "idle"
  BY DEF Call, At
<1>3. HandlerInv'
  <2>1. x.next \notin WithLock \union {"reply"} /\ req[r].next \notin WithLock
    BY <1>2 DEF WithLock
  <2> HIDE DEF x
  <2> QED
    BY <1>2, <2>1, QuietStep
<1>4. TypeOK'
  BY <1>1, <1>2 DEF IInv, TypeOK
<1>5. OneDmPerPair' /\ AnswersCommitted'
  BY <1>2 DEF IInv, OneDmPerPair, AnswersCommitted, ChannelsOf
<1> QED
  BY <1>3, <1>4, <1>5 DEF IInv, HandlerInv

LEMMA LockKeeps == ASSUME IInv, NEW r \in Reqs, Lock(r) PROVE IInv'
<1>1. req[r].next = "lock" /\ req[r].next # "idle" /\ "recheck" \in Steps /\ Goto(r, "recheck")
      /\ req[r].key \notin locks /\ locks' = locks \union {req[r].key}
      /\ UNCHANGED <<dms, crossed, free, answered>>
  BY DEF Lock, At, Steps
<1>2. PICK x \in Running : /\ req' = [req EXCEPT ![r] = x]
                          /\ x.next = "recheck" /\ x.pair = req[r].pair /\ x.key = req[r].key
  BY <1>1, GotoFields DEF IInv
<1>3. \A s \in Reqs : req'[s] = IF s = r THEN x ELSE req[s]
  BY <1>2 DEF IInv, TypeOK
<1>4. TypeOK'
  BY <1>1, <1>2, RunningHandler DEF IInv, TypeOK, Running
<1>5. "recheck" \in WithLock /\ "lock" \notin WithLock
  BY DEF WithLock
<1> HIDE DEF WithLock
<1>6. LockTaken'
  BY <1>1, <1>2, <1>3 DEF IInv, LockTaken
<1>7. Exclusive'
  BY <1>1, <1>2, <1>3 DEF IInv, Exclusive, LockTaken
<1>8. LockOwned'
  BY <1>1, <1>2, <1>3, <1>5 DEF IInv, LockOwned
<1>9. StillNone' /\ AloneOrCrossed' /\ IdFresh'
  BY <1>1, <1>2, <1>3 DEF IInv, StillNone, AloneOrCrossed, IdFresh
<1>10. IdsDistinct'
  BY <1>1, <1>2, <1>3 DEF IInv, IdsDistinct
<1>11. ReplyKnown'
  BY <1>1, <1>2, <1>3 DEF IInv, ReplyKnown, ChannelsOf
<1>12. OneDmPerPair' /\ AnswersCommitted'
  BY <1>1 DEF IInv, OneDmPerPair, AnswersCommitted, ChannelsOf
<1> QED
  BY <1>4, <1>6, <1>7, <1>8, <1>9, <1>10, <1>11, <1>12 DEF IInv

LEMMA RecheckKeeps == ASSUME IInv, NEW r \in Reqs, Recheck(r) PROVE IInv'
<1>1. /\ req[r].next = "recheck" /\ req[r] \in Running /\ req[r].pair \in Asked
      /\ req[r].key \in Keys
      /\ UNCHANGED <<dms, free, answered>>
  BY RunningHandler DEF Recheck, At, IInv, Running
<1>2. "recheck" \in WithLock /\ "insert" \in WithLock /\ "commit" \in WithLock
      /\ "reply" \notin WithLock
  BY DEF WithLock
<1>3. AnswersCommitted'
  BY <1>1 DEF IInv, AnswersCommitted, ChannelsOf
<1>4. CASE ChannelsOf(req[r].pair) = {}
  <2>1. Goto(r, "insert") /\ locks' = locks /\ "insert" \in Steps
        /\ crossed' = crossed \union {p \in Pairs : p = req[r].pair /\ Beside(r)}
    BY <1>4 DEF Recheck, Steps
  <2>2. PICK x \in Running : /\ req' = [req EXCEPT ![r] = x]
                            /\ x.next = "insert" /\ x.pair = req[r].pair /\ x.key = req[r].key
    BY <1>1, <2>1, GotoFields DEF IInv
  <2>3. \A s \in Reqs : req'[s] = IF s = r THEN x ELSE req[s]
    BY <2>2 DEF IInv, TypeOK
  <2>4. TypeOK'
    BY <1>1, <2>1, <2>2 DEF IInv, TypeOK
  <2>5. \A d \in dms : d.pair # req[r].pair
    BY <1>4 DEF ChannelsOf
  <2> HIDE DEF WithLock
  <2>6. LockTaken' /\ Exclusive' /\ LockOwned'
    BY <1>1, <1>2, <2>1, <2>2, <2>3 DEF IInv, LockTaken, Exclusive, LockOwned
  <2>7. StillNone' /\ IdFresh'
    BY <1>1, <2>1, <2>2, <2>3, <2>5 DEF IInv, StillNone, IdFresh
  <2>8. AloneOrCrossed'
    <3>1. ASSUME NEW s \in Reqs, s # r, req[s].next \in {"insert", "commit"},
                 req[s].pair = req[r].pair, req[r].pair \in Pairs
          PROVE  req[r].pair \in crossed'
      <4>1. req[s].key # req[r].key
        BY <1>1, <1>2, <3>1 DEF IInv, Exclusive
      <4> QED
        BY <2>1, <3>1, <4>1 DEF Beside
    <3> SUFFICES ASSUME NEW s \in Reqs, NEW t \in Reqs, s # t,
                        req'[s].next \in {"insert", "commit"},
                        req'[t].next \in {"insert", "commit"},
                        req'[s].pair = req'[t].pair, req'[s].pair \in Pairs
                 PROVE  req'[s].pair \in crossed'
      BY DEF AloneOrCrossed
    <3>2. CASE s = r
      BY <2>2, <2>3, <3>1, <3>2
    <3>3. CASE t = r
      BY <2>2, <2>3, <3>1, <3>3
    <3>4. CASE s # r /\ t # r
      BY <2>1, <2>3, <3>4 DEF IInv, AloneOrCrossed
    <3> QED
      BY <3>2, <3>3, <3>4
  <2>9. IdsDistinct'
    BY <1>1, <2>2, <2>3 DEF IInv, IdsDistinct
  <2>10. ReplyKnown' /\ OneDmPerPair'
    BY <1>1, <2>1, <2>2, <2>3 DEF IInv, ReplyKnown, OneDmPerPair, ChannelsOf
  <2> QED
    BY <1>3, <2>4, <2>6, <2>7, <2>8, <2>9, <2>10 DEF IInv
<1>5. CASE ChannelsOf(req[r].pair) # {}
  <2>1. PICK i \in ChannelsOf(req[r].pair) :
              req' = [req EXCEPT ![r].next = "reply", ![r].channel = {i}]
    BY <1>5 DEF Recheck
  <2>2. locks' = locks \ {req[r].key} /\ crossed' = crossed
    BY <1>5 DEF Recheck
  <2>3. i \in Ids
    BY DEF IInv, TypeOK, ChannelsOf, Dm
  <2> DEFINE x == [req[r] EXCEPT !.next = "reply", !.channel = {i}]
  <2>4. x \in Running /\ x.next = "reply" /\ x.pair = req[r].pair /\ x.key = req[r].key
        /\ x.channel = {i}
    BY <1>1, <2>3 DEF Running, Steps
  <2>5. PICK y \in Running : y = x
    BY <2>4
  <2>6. req' = [req EXCEPT ![r] = y]
    BY <2>1, <2>5 DEF IInv, TypeOK
  <2> HIDE DEF x
  <2>7. y.next = "reply" /\ y.pair = req[r].pair /\ y.key = req[r].key /\ y.channel = {i}
    BY <2>4, <2>5
  <2>8. \A s \in Reqs : req'[s] = IF s = r THEN y ELSE req[s]
    BY <2>6 DEF IInv, TypeOK
  <2>9. TypeOK'
    BY <1>1, <2>2, <2>6 DEF IInv, TypeOK
  <2> HIDE DEF WithLock
  <2>10. LockTaken' /\ Exclusive' /\ LockOwned'
    BY <1>1, <1>2, <2>2, <2>7, <2>8 DEF IInv, LockTaken, Exclusive, LockOwned
  <2>11. StillNone' /\ AloneOrCrossed' /\ IdFresh'
    BY <1>1, <2>2, <2>7, <2>8 DEF IInv, StillNone, AloneOrCrossed, IdFresh
  <2>12. IdsDistinct'
    BY <1>1, <2>7, <2>8 DEF IInv, IdsDistinct
  <2>13. ReplyKnown' /\ OneDmPerPair'
    BY <1>1, <2>2, <2>3, <2>7, <2>8 DEF IInv, ReplyKnown, OneDmPerPair, ChannelsOf
  <2> QED
    BY <1>3, <2>9, <2>10, <2>11, <2>12, <2>13 DEF IInv
<1> QED
  BY <1>4, <1>5

LEMMA InsertKeeps == ASSUME IInv, NEW r \in Reqs, Insert(r) PROVE IInv'
<1>1. /\ req[r].next = "insert" /\ req[r] \in Running /\ req[r].pair \in Pairs
      /\ UNCHANGED <<dms, crossed, locks, free, answered>>
  BY RunningHandler DEF Insert, At, IInv
<1>2. PICK i \in Ids \ Used : req' = [req EXCEPT ![r].next = "commit", ![r].channel = {i}]
  BY DEF Insert, Fresh
<1>3. /\ \A d \in dms : d.id # i
      /\ \A s \in Reqs : req[s].next # "idle" => i \notin req[s].channel
  <2>1. \A d \in dms : d.id \in Used
    BY DEF Used
  <2>2. \A s \in Reqs : req[s].next # "idle" => \A j \in req[s].channel : j \in Used
    <3> TAKE s \in Reqs
    <3> HAVE req[s].next # "idle"
    <3>1. s \in {t \in Reqs : ~At(t, "idle")}
      BY DEF At
    <3>2. req[s].channel \in {req[t].channel : t \in {v \in Reqs : ~At(v, "idle")}}
      BY <3>1
    <3>3. \A j \in req[s].channel :
             j \in UNION {req[t].channel : t \in {v \in Reqs : ~At(v, "idle")}}
      BY <3>2, Zenon
    <3> QED
      BY <3>3, Zenon DEF Used
  <2> QED
    BY <1>2, <2>1, <2>2
<1> DEFINE x == [req[r] EXCEPT !.next = "commit", !.channel = {i}]
<1>4. x \in Running /\ x.next = "commit" /\ x.pair = req[r].pair /\ x.key = req[r].key
      /\ x.channel = {i}
  BY <1>1 DEF Running, Steps
<1>5. PICK y \in Running : y = x
  BY <1>4
<1>6. req' = [req EXCEPT ![r] = y]
  BY <1>2, <1>5 DEF IInv, TypeOK
<1> HIDE DEF x
<1>7. y.next = "commit" /\ y.pair = req[r].pair /\ y.key = req[r].key
      /\ y.channel = {i}
  BY <1>4, <1>5
<1>8. \A s \in Reqs : req'[s] = IF s = r THEN y ELSE req[s]
  BY <1>6 DEF IInv, TypeOK
<1>9. TypeOK'
  BY <1>1, <1>6 DEF IInv, TypeOK
<1>10. "insert" \in WithLock /\ "commit" \in WithLock
  BY DEF WithLock
<1> HIDE DEF WithLock
<1>11. LockTaken' /\ Exclusive' /\ LockOwned'
  BY <1>1, <1>7, <1>8, <1>10 DEF IInv, LockTaken, Exclusive, LockOwned
<1>12. StillNone' /\ AloneOrCrossed'
  BY <1>1, <1>7, <1>8 DEF IInv, StillNone, AloneOrCrossed
<1>13. IdFresh'
  BY <1>1, <1>3, <1>7, <1>8 DEF IInv, IdFresh
<1>14. IdsDistinct'
  <2> SUFFICES ASSUME NEW s \in Reqs, NEW t \in Reqs, req'[s].next = "commit",
                      req'[t].next = "commit",
                      req'[s].channel \intersect req'[t].channel # {}
               PROVE  s = t
    BY DEF IdsDistinct
  <2>1. \A v \in Reqs : v # r /\ req'[v].next = "commit" => i \notin req'[v].channel
    BY <1>3, <1>8
  <2>2. CASE s = r \/ t = r
    BY <1>7, <1>8, <2>1, <2>2
  <2>3. CASE s # r /\ t # r
    BY <1>8, <2>3 DEF IInv, IdsDistinct
  <2> QED
    BY <2>2, <2>3
<1>15. ReplyKnown'
  BY <1>1, <1>7, <1>8 DEF IInv, ReplyKnown, ChannelsOf
<1>16. OneDmPerPair' /\ AnswersCommitted'
  BY <1>1 DEF IInv, OneDmPerPair, AnswersCommitted, ChannelsOf
<1> QED
  BY <1>9, <1>11, <1>12, <1>13, <1>14, <1>15, <1>16 DEF IInv

LEMMA CommitKeeps ==
    ASSUME IInv, NEW r \in Reqs, Commit(r)
    PROVE  /\ IInv'
           /\ req[r].pair \in Pairs /\ req[r].key \in Keys
           /\ \E i \in Ids :
                /\ dms' = dms \union {[id |-> i, pair |-> req[r].pair, key |-> req[r].key]}
                /\ \A d \in dms : d.id # i
                /\ \A d \in dms : d.pair = req[r].pair => d.pair \in crossed /\ d.key # req[r].key
<1>1. /\ req[r].next = "commit" /\ req[r] \in Running
      /\ req[r].key \in Keys
      /\ UNCHANGED <<free, answered, crossed>>
      /\ locks' = locks \ {req[r].key}
      /\ Goto(r, "reply") /\ "reply" \in Steps
  BY RunningHandler DEF Commit, At, IInv, Running, Steps
<1>2. PICK i \in Ids : req[r].channel = {i} /\ \A d \in dms : d.id # i
  BY <1>1 DEF IInv, IdFresh
<1>p. req[r].pair \in Pairs
  BY <1>1 DEF IInv, IdFresh
<1>3. PICK n : n = [id |-> i, pair |-> req[r].pair, key |-> req[r].key]
  OBVIOUS
<1>4. dms' = dms \union {n} /\ n \in Dm /\ n.id = i /\ n.pair = req[r].pair /\ n.key = req[r].key
  BY <1>1, <1>2, <1>p, <1>3 DEF Commit, Dm
<1>5. \A d \in dms : d.pair = n.pair => d.pair \in crossed /\ d.key # n.key
  BY <1>1, <1>4 DEF IInv, StillNone
<1>6. PICK x \in Running : /\ req' = [req EXCEPT ![r] = x]
                          /\ x.next = "reply" /\ x.pair = n.pair /\ x.channel = {i}
  BY <1>1, <1>2, <1>4, GotoFields DEF IInv
<1>7. \A s \in Reqs : req'[s] = IF s = r THEN x ELSE req[s]
  BY <1>6 DEF IInv, TypeOK
<1>8. TypeOK'
  BY <1>1, <1>4, <1>6 DEF IInv, TypeOK
<1>9. "insert" \in WithLock /\ "commit" \in WithLock /\ "reply" \notin WithLock
  BY DEF WithLock
<1> HIDE DEF WithLock
<1>10. LockTaken' /\ Exclusive' /\ LockOwned'
  BY <1>1, <1>6, <1>7, <1>9 DEF IInv, LockTaken, Exclusive, LockOwned
<1>11. StillNone'
  <2> SUFFICES ASSUME NEW s \in Reqs, req'[s].next \in {"insert", "commit"},
                      NEW d \in dms', d.pair = req'[s].pair
               PROVE  d.pair \in crossed' /\ d.key # req'[s].key
    BY DEF StillNone
  <2>1. s # r /\ req'[s] = req[s]
    BY <1>6, <1>7
  <2>2. CASE d \in dms
    BY <1>1, <2>1, <2>2 DEF IInv, StillNone
  <2>3. CASE d = n
    <3>1. req[s].key # n.key
      BY <1>1, <1>4, <1>9, <2>1 DEF IInv, Exclusive
    <3>2. n.pair \in crossed
      BY <1>1, <1>p, <1>4, <2>1, <2>3 DEF IInv, AloneOrCrossed
    <3> QED
      BY <1>1, <2>1, <2>3, <3>1, <3>2
  <2> QED
    BY <1>4, <2>2, <2>3
<1>a. AloneOrCrossed'
  BY <1>1, <1>6, <1>7 DEF IInv, AloneOrCrossed
<1>12. IdFresh'
  <2> SUFFICES ASSUME NEW s \in Reqs, req'[s].next = "commit"
               PROVE  /\ req'[s].pair \in Pairs
                      /\ \E j \in Ids : req'[s].channel = {j} /\ \A d \in dms' : d.id # j
    BY DEF IdFresh
  <2>1. s # r /\ req'[s] = req[s]
    BY <1>6, <1>7
  <2>2. PICK j \in Ids : req[s].channel = {j} /\ \A d \in dms : d.id # j
    BY <2>1 DEF IInv, IdFresh
  <2>3. i # j
    BY <1>1, <1>2, <2>1, <2>2 DEF IInv, IdsDistinct
  <2>4. req[s].pair \in Pairs
    BY <2>1 DEF IInv, IdFresh
  <2> QED
    BY <1>4, <2>1, <2>2, <2>3, <2>4
<1>13. IdsDistinct'
  BY <1>6, <1>7 DEF IInv, IdsDistinct
<1>c. \A p : ChannelsOf(p) \subseteq ChannelsOf(p)'
  BY <1>4 DEF ChannelsOf
<1>14. ReplyKnown'
  <2>1. \A s \in Reqs : req'[s].next = "reply" =>
           \E j \in Ids : /\ req'[s].channel = {j}
                         /\ \E d \in dms' : d.id = j /\ req'[s].pair \subseteq d.pair
    <3> TAKE s \in Reqs
    <3> HAVE req'[s].next = "reply"
    <3>1. CASE s = r
      BY <1>4, <1>6, <1>7, <3>1
    <3>2. CASE s # r
      <4>1. PICK j \in Ids : req[s].channel = {j} /\ j \in ChannelsOf(req[s].pair)
        BY <1>7, <3>2 DEF IInv, ReplyKnown
      <4>2. PICK d \in dms : d.id = j /\ req[s].pair \subseteq d.pair
        BY <4>1 DEF ChannelsOf
      <4> QED
        BY <1>4, <1>7, <3>2, <4>1, <4>2
    <3> QED
      BY <3>1, <3>2
  <2> QED
    BY <2>1 DEF ReplyKnown, ChannelsOf
<1>15. OneDmPerPair'
  BY <1>1, <1>4, <1>5 DEF IInv, OneDmPerPair
<1>16. AnswersCommitted'
  BY <1>1, <1>c DEF IInv, AnswersCommitted
<1>17. /\ dms' = dms \union {[id |-> i, pair |-> req[r].pair, key |-> req[r].key]}
       /\ \A d \in dms : d.pair = req[r].pair => d.pair \in crossed /\ d.key # req[r].key
  BY <1>3, <1>4, <1>5
<1>18. IInv'
  BY <1>8, <1>10, <1>11, <1>a, <1>12, <1>13, <1>14, <1>15, <1>16 DEF IInv
<1> QED
  BY <1>1, <1>2, <1>p, <1>17, <1>18

LEMMA EndSteps ==
    ASSUME IInv, NEW r \in Reqs, Twice(r) \/ Reply(r) \/ Fail(r) \/ PoolTimeout(r)
    PROVE  IInv'
<1>1. CASE Reply(r)
  <2>1. req[r].next = "reply" /\ req[r].next # "idle" /\ req[r].next \notin WithLock
    BY <1>1 DEF Reply, At, WithLock
  <2>2. PICK i \in Ids : req[r].channel = {i} /\ i \in ChannelsOf(req[r].pair)
    BY <2>1 DEF IInv, ReplyKnown
  <2>3. {i} \subseteq ChannelsOf(req[r].pair)
    BY <2>2
  <2>4. /\ req' = [req EXCEPT ![r] = Idle]
        /\ answered' = Told(r, {i})
        /\ locks' = locks /\ dms' = dms /\ crossed' = crossed /\ free' \in Nat
    BY <1>1, <2>2 DEF Reply, Answer, IInv, TypeOK
  <2>5. {i} \in SUBSET Ids /\ {i} # {}
    OBVIOUS
  <2> QED
    BY <2>1, <2>3, <2>4, <2>5, EndKeeps
<1>2. CASE Fail(r)
  <2>1. /\ req' = [req EXCEPT ![r] = Idle] /\ UNCHANGED <<dms, crossed, answered>>
        /\ locks' = IF req[r].next \in WithLock THEN locks \ {req[r].key} ELSE locks
        /\ free' \in Nat
    BY <1>2 DEF Fail, IInv, TypeOK
  <2> QED
    BY <2>1, ErrorKeeps
<1>3. CASE PoolTimeout(r)
  <2>1. /\ req' = [req EXCEPT ![r] = Idle] /\ UNCHANGED <<dms, crossed, answered, locks, free>>
        /\ req[r].next \notin WithLock
        /\ free' \in Nat
    BY <1>3 DEF PoolTimeout, IInv, TypeOK, WithLock
  <2> QED
    BY <2>1, ErrorKeeps
<1>4. CASE Twice(r)
  <2>1. /\ req' = [req EXCEPT ![r] = Idle] /\ UNCHANGED <<dms, answered, crossed>>
        /\ locks' = IF req[r].next \in WithLock THEN locks \ {req[r].key} ELSE locks
        /\ free' \in Nat
    BY <1>4 DEF Twice, At, WithLock, IInv, TypeOK
  <2> QED
    BY <2>1, ErrorKeeps
<1> QED
  BY <1>1, <1>2, <1>3, <1>4

LEMMA EarlySteps ==
    ASSUME IInv, NEW r \in Reqs, Lookup(r) \/ Check(r) \/ Connect(r)
    PROVE  IInv'
<1>1. ASSUME NEW step \in {"lookup", "check", "connect"}, req[r].next = step
      PROVE  req[r].next \notin WithLock \union {"idle"} /\ req[r].next # "idle"
             /\ req[r].next \notin WithLock
  BY <1>1 DEF WithLock
<1>2. CASE Lookup(r)
  <2>1. /\ req[r].next \notin WithLock \union {"idle"} /\ req[r].next # "idle"
        /\ req[r].next \notin WithLock
        /\ UNCHANGED <<dms, crossed, locks, free>> /\ free' \in Nat
    BY <1>1, <1>2 DEF Lookup, At, IInv, TypeOK
  <2>2. CASE ChannelsOf(req[r].pair) # {}
    <3>1. PICK i \in ChannelsOf(req[r].pair) : Answer(r, {i})
      BY <1>2, <2>2 DEF Lookup
    <3>2. {i} \in SUBSET Ids /\ {i} # {} /\ {i} \subseteq ChannelsOf(req[r].pair)
      BY DEF ChannelsOf, IInv, TypeOK, Dm
    <3>3. /\ req' = [req EXCEPT ![r] = Idle]
          /\ answered' = Told(r, {i})
      BY <3>1 DEF Answer
    <3> QED
      BY <2>1, <3>2, <3>3, EndKeeps
  <2>3. CASE ChannelsOf(req[r].pair) = {}
    <3>1. Goto(r, "check") /\ answered' = answered
      BY <1>2, <2>3 DEF Lookup
    <3>2. "check" \in Steps /\ "check" \notin WithLock \union {"reply"}
      BY DEF Steps, WithLock
    <3> QED
      BY <2>1, <3>1, <3>2, QuietGoto
  <2> QED
    BY <2>2, <2>3
<1>3. CASE Check(r)
  <2>1. /\ req[r].next \notin WithLock \union {"idle"} /\ req[r].next # "idle"
        /\ req[r].next \notin WithLock
        /\ UNCHANGED <<dms, crossed, locks, free, answered>> /\ free' \in Nat
    BY <1>1, <1>3 DEF Check, At, IInv, TypeOK
  <2>2. CASE Goto(r, "connect")
    <3>1. "connect" \in Steps /\ "connect" \notin WithLock \union {"reply"}
      BY DEF Steps, WithLock
    <3> QED
      BY <2>1, <2>2, <3>1, QuietGoto
  <2>3. CASE req' = [req EXCEPT ![r] = Idle]
    BY <2>1, <2>3, ErrorKeeps
  <2> QED
    BY <1>3, <2>2, <2>3 DEF Check
<1>4. CASE Connect(r)
  <2>1. /\ req[r].next \notin WithLock \union {"idle"}
        /\ UNCHANGED <<dms, crossed, locks, answered>> /\ free' \in Nat
        /\ Goto(r, "lock")
    BY <1>1, <1>4 DEF Connect, At, IInv, TypeOK
  <2>2. "lock" \in Steps /\ "lock" \notin WithLock \union {"reply"}
    BY DEF Steps, WithLock
  <2> QED
    BY <2>1, <2>2, QuietGoto
<1> QED
  BY <1>2, <1>3, <1>4

LEMMA StepKeeps == IInv /\ [Next]_vars => IInv'
<1> SUFFICES ASSUME IInv, [Next]_vars PROVE IInv'
  OBVIOUS
<1>1. ASSUME NEW r \in Reqs, Step(r) PROVE IInv'
  BY <1>1, EarlySteps, LockKeeps, RecheckKeeps, InsertKeeps, CommitKeeps, EndSteps DEF Step
<1>2. ASSUME NEW r \in Reqs, Fail(r) \/ PoolTimeout(r) PROVE IInv'
  BY <1>2, EndSteps
<1>3. ASSUME NEW r \in Reqs, NEW u \in Users, NEW t \in Texts, Call(r, u, t) PROVE IInv'
  BY <1>3, CallKeeps
<1>4. CASE Restart
  <2>1. \A r \in Reqs : req'[r].next = "idle"
    BY <1>4 DEF Restart, Idle
  <2>2. TypeOK'
    BY <1>4, PoolAssumption DEF Restart, IInv, TypeOK
  <2> QED
    BY <1>4, <2>1, <2>2 DEF Restart, IInv, LockTaken, Exclusive, LockOwned, StillNone,
         AloneOrCrossed, IdFresh, IdsDistinct, ReplyKnown, OneDmPerPair, AnswersCommitted, ChannelsOf, WithLock
<1>5. CASE UNCHANGED vars
  <2>1. UNCHANGED <<dms, locks, free, req, answered, crossed>>
    BY <1>5 DEF vars
  <2>2. TypeOK' /\ LockTaken' /\ Exclusive' /\ LockOwned'
    BY <2>1 DEF IInv, TypeOK, LockTaken, Exclusive, LockOwned
  <2>3. StillNone' /\ AloneOrCrossed' /\ IdFresh' /\ IdsDistinct'
    BY <2>1 DEF IInv, StillNone, AloneOrCrossed, IdFresh, IdsDistinct
  <2>4. ReplyKnown' /\ OneDmPerPair' /\ AnswersCommitted'
    BY <2>1 DEF IInv, ReplyKnown, OneDmPerPair, AnswersCommitted, ChannelsOf
  <2> QED
    BY <2>2, <2>3, <2>4 DEF IInv
<1> QED
  BY <1>1, <1>2, <1>3, <1>4, <1>5 DEF Next

THEOREM Invariance == Spec => []IInv
  BY InitIInv, StepKeeps, PTL DEF Spec

(* Every reachable state of POST /api/dms is type correct. *)
THEOREM TypeCorrect == Spec => []TypeOK
<1>1. IInv => TypeOK
  BY DEF IInv
<1> QED
  BY <1>1, Invariance, PTL

(* Two users have one channel at most (channels.ts 44-124), whatever the   *)
(* number of handlers, failures and restarts, unless handlers that spell   *)
(* their ids differently insert at once; then one under each spelling.     *)
THEOREM OneChannel == Spec => []OneDmPerPair
<1>1. IInv => OneDmPerPair
  BY DEF IInv
<1> QED
  BY <1>1, Invariance, PTL

(* No caller is told the id of a channel that was not committed.           *)
THEOREM AnswersKnown == Spec => []AnswersCommitted
<1>1. IInv => AnswersCommitted
  BY DEF IInv
<1> QED
  BY <1>1, Invariance, PTL

(* An advisory lock is taken exactly while one transaction that named it   *)
(* holds it.                                                               *)
THEOREM LocksReturned == Spec => []LocksHeld
<1>1. IInv => LocksHeld
  BY DEF IInv, LocksHeld, LockTaken, Exclusive, LockOwned
<1> QED
  BY <1>1, Invariance, PTL

(***************************************************************************)
(* The pool: a client is taken by one step and given back by one.          *)
(***************************************************************************)
Holders == {r \in Reqs : req[r].next \in WithClient}

LEMMA HoldersFinite == IsFiniteSet(Holders)
<1>1. Holders \in SUBSET Reqs
  BY DEF Holders
<1> QED
  BY <1>1, ReqsAssumption, FS_Subset

LEMMA InitPool == Init => PoolAccounted
<1> SUFFICES ASSUME Init PROVE PoolAccounted
  OBVIOUS
<1>1. Holders = {}
  BY DEF Init, Idle, Holders, WithClient
<1> QED
  BY <1>1, FS_EmptySet, PoolAssumption DEF Init, PoolAccounted, Holders

(* Nobody takes or gives back a client. *)
LEMMA PoolSame ==
    ASSUME PoolAccounted, free' = free, Holders' = Holders
    PROVE  PoolAccounted'
  BY DEF PoolAccounted, Holders

(* A handler that stays on its side of the client, one that takes it, and   *)
(* one that gives it back.                                                 *)
LEMMA PoolStep ==
    ASSUME TypeOK, PoolAccounted, NEW r \in Reqs, NEW x,
           req' = [req EXCEPT ![r] = x],
           \/ /\ free' = free
              /\ x.next \in WithClient <=> req[r].next \in WithClient
           \/ free' = free - 1 /\ x.next \in WithClient /\ req[r].next \notin WithClient
           \/ free' = free + 1 /\ x.next \notin WithClient /\ req[r].next \in WithClient
    PROVE  PoolAccounted'
<1>1. \A s \in Reqs : req'[s] = IF s = r THEN x ELSE req[s]
  BY DEF TypeOK
<1>2. free \in Nat /\ PoolSize \in Nat /\ Cardinality(Holders) \in Nat
  BY HoldersFinite, FS_CardinalityType, PoolAssumption DEF TypeOK
<1>3. free + Cardinality(Holders) = PoolSize
  BY DEF PoolAccounted, Holders
<1>4. PoolAccounted' <=> free' + Cardinality(Holders') = PoolSize
  BY DEF PoolAccounted, Holders
<1>5. CASE free' = free /\ (x.next \in WithClient <=> req[r].next \in WithClient)
  <2>1. Holders' = Holders
    BY <1>1, <1>5 DEF Holders
  <2> QED
    BY <2>1, <1>5, PoolSame
<1>6. CASE free' = free - 1 /\ x.next \in WithClient /\ req[r].next \notin WithClient
  <2>1. Holders' = Holders \union {r} /\ r \notin Holders
    BY <1>1, <1>6 DEF Holders
  <2>2. Cardinality(Holders') = Cardinality(Holders) + 1
    BY <2>1, HoldersFinite, FS_AddElement
  <2> QED
    BY <1>2, <1>3, <1>4, <1>6, <2>2
<1>7. CASE free' = free + 1 /\ x.next \notin WithClient /\ req[r].next \in WithClient
  <2>1. Holders' = Holders \ {r} /\ r \in Holders
    BY <1>1, <1>7 DEF Holders
  <2>2. Cardinality(Holders') = Cardinality(Holders) - 1
    BY <2>1, HoldersFinite, FS_RemoveElement
  <2> QED
    BY <1>2, <1>3, <1>4, <1>7, <2>2
<1> QED
  BY <1>5, <1>6, <1>7

LEMMA PoolKept == IInv /\ PoolAccounted /\ [Next]_vars => PoolAccounted'
<1> SUFFICES ASSUME IInv, PoolAccounted, [Next]_vars PROVE PoolAccounted'
  OBVIOUS
<1>t. TypeOK
  BY DEF IInv
<1>1. ASSUME NEW r \in Reqs, NEW step, step \in Steps, Goto(r, step),
             \/ free' = free /\ (step \in WithClient <=> req[r].next \in WithClient)
             \/ free' = free - 1 /\ step \in WithClient /\ req[r].next \notin WithClient
      PROVE  PoolAccounted'
  <2> DEFINE x == [req[r] EXCEPT !.next = step]
  <2>1. req' = [req EXCEPT ![r] = x]
    BY <1>1 DEF Goto
  <2>2. x.next = step
    BY <1>t, <1>1 DEF TypeOK, Running, Idle
  <2> HIDE DEF x
  <2> QED
    BY <1>t, <1>1, <2>1, <2>2, PoolStep
<1>2. ASSUME NEW r \in Reqs, req' = [req EXCEPT ![r] = Idle],
             \/ free' = free /\ req[r].next \notin WithClient
             \/ free' = free + 1 /\ req[r].next \in WithClient
      PROVE  PoolAccounted'
  <2>1. Idle.next \notin WithClient
    BY DEF Idle, WithClient
  <2> QED
    BY <1>t, <1>2, <2>1, PoolStep
<1>3. ASSUME NEW r \in Reqs, Lookup(r) \/ Check(r) \/ Connect(r) PROVE PoolAccounted'
  <2>1. CASE Lookup(r)
    BY <1>1, <1>2, <2>1 DEF Lookup, Answer, At, WithClient, Steps
  <2>2. CASE Check(r)
    BY <1>1, <1>2, <2>2 DEF Check, At, WithClient, Steps
  <2>3. CASE Connect(r)
    BY <1>1, <2>3 DEF Connect, At, WithClient, Steps
  <2> QED
    BY <1>3, <2>1, <2>2, <2>3
<1>4. ASSUME NEW r \in Reqs, Lock(r) \/ Commit(r) PROVE PoolAccounted'
  BY <1>1, <1>4 DEF Lock, Commit, At, WithClient, Steps
<1>5. ASSUME NEW r \in Reqs, Recheck(r) \/ Insert(r) PROVE PoolAccounted'
  <2>1. ASSUME NEW step \in {"reply", "commit"}, NEW C,
               req' = [req EXCEPT ![r].next = step, ![r].channel = C],
               free' = free, req[r].next \in WithClient
        PROVE  PoolAccounted'
    <3> DEFINE x == [req[r] EXCEPT !.next = step, !.channel = C]
    <3>1. req' = [req EXCEPT ![r] = x]
      BY <1>t, <2>1 DEF TypeOK
    <3>2. x.next \in WithClient
      BY <1>t, <2>1, RunningHandler DEF Running, WithClient
    <3> HIDE DEF x
    <3> QED
      BY <1>t, <2>1, <3>1, <3>2, PoolStep
  <2>2. CASE Recheck(r)
    BY <1>1, <2>1, <2>2 DEF Recheck, At, WithClient, Steps
  <2>3. CASE Insert(r)
    BY <2>1, <2>3 DEF Insert, At, WithClient
  <2> QED
    BY <1>5, <2>2, <2>3
<1>6. ASSUME NEW r \in Reqs, Twice(r) \/ Reply(r) \/ Fail(r) \/ PoolTimeout(r)
      PROVE  PoolAccounted'
  BY <1>2, <1>6 DEF Twice, Reply, Answer, Fail, PoolTimeout, At, WithClient
<1>7. ASSUME NEW r \in Reqs, NEW u \in Users, NEW t \in Texts, Call(r, u, t) PROVE PoolAccounted'
  <2> DEFINE x == [next |-> "lookup", pair |-> {u, t.user}, key |-> {Own(u), t}, channel |-> {}]
  <2>1. req' = [req EXCEPT ![r] = x] /\ free' = free /\ req[r].next = "idle"
    BY <1>7 DEF Call, At
  <2>2. x.next \notin WithClient
    BY DEF WithClient
  <2> HIDE DEF x
  <2> QED
    BY <1>t, <2>1, <2>2, PoolStep DEF WithClient
<1>9. CASE Restart
  <2>1. Holders' = {} /\ free' = PoolSize
    BY <1>9 DEF Restart, Holders, Idle, WithClient
  <2>2. PoolAccounted' <=> free' + Cardinality(Holders') = PoolSize
    BY DEF PoolAccounted, Holders
  <2>3. Cardinality(Holders') = 0
    BY <2>1, FS_EmptySet
  <2> QED
    BY <2>1, <2>2, <2>3, PoolAssumption
<1>10. CASE UNCHANGED vars
  BY <1>10, PoolSame DEF vars, Holders
<1> QED
  BY <1>3, <1>4, <1>5, <1>6, <1>7, <1>9, <1>10 DEF Next, Step

(* Whatever fails or restarts, neither a lock nor a client is lost.        *)
THEOREM NothingLost == Spec => []NothingLeaked
<1>1. Spec => []PoolAccounted
  BY InitPool, PoolKept, Invariance, PTL DEF Spec
<1>2. LocksHeld /\ PoolAccounted => NothingLeaked
  BY DEF NothingLeaked
<1> QED
  BY <1>1, <1>2, LocksReturned, PTL

(***************************************************************************)
(* The refinement: the Commit creates the channel, a second lookup beside  *)
(* a handler under another lock splits the pair, an answer is an Answer,   *)
(* every other step stutters.                                              *)
(***************************************************************************)
LEMMA DirectoryStep == IInv /\ [Next]_vars => [D!Next]_(D!vars)
<1> SUFFICES ASSUME IInv, [Next]_vars PROVE [D!Next]_(D!vars)
  OBVIOUS
<1>1. ASSUME UNCHANGED <<dms, crossed, answered>> PROVE UNCHANGED D!vars
  BY <1>1 DEF D!vars
<1>2. ASSUME NEW r \in Reqs, NEW i, i \in ChannelsOf(req[r].pair),
             UNCHANGED <<dms, crossed>>, answered' = Told(r, {i})
      PROVE  [D!Next]_(D!vars)
  <2>1. CASE req[r].pair \notin Pairs
    <3>1. answered' = answered
      BY <1>2, <2>1 DEF Told, IInv, TypeOK
    <3> QED
      BY <1>1, <1>2, <3>1
  <2>2. CASE req[r].pair \in Pairs
    <3>1. PICK p \in Pairs : p = req[r].pair
      BY <2>2
    <3>2. PICK d \in dms : d.id = i /\ p \subseteq d.pair
      BY <1>2, <3>1 DEF ChannelsOf
    <3>3. d \in D!Of(p)
      BY <3>2, InChannelsOf DEF D!Of, IInv
    <3>4. answered' = [answered EXCEPT ![p] = @ \union {d.id}]
      BY <1>2, <3>1, <3>2 DEF Told, IInv, TypeOK
    <3>5. D!Answer(p)
      BY <1>2, <3>3, <3>4 DEF D!Answer
    <3> QED
      BY <3>5 DEF D!Next
  <2> QED
    BY <2>1, <2>2
<1>3. ASSUME NEW r \in Reqs, Step(r) PROVE [D!Next]_(D!vars)
  <2>1. CASE Lookup(r)
    <3>1. UNCHANGED <<dms, crossed>>
      BY <2>1 DEF Lookup
    <3>2. CASE answered' = answered
      BY <1>1, <3>1, <3>2
    <3>3. ASSUME answered' # answered PROVE [D!Next]_(D!vars)
      <4>1. PICK i \in ChannelsOf(req[r].pair) : Answer(r, {i})
        BY <2>1, <3>3 DEF Lookup
      <4> QED
        BY <1>2, <3>1, <4>1 DEF Answer
    <3> QED
      BY <3>2, <3>3
  <2>2. CASE Check(r) \/ Connect(r) \/ Lock(r) \/ Insert(r) \/ Twice(r)
    <3>1. UNCHANGED <<dms, crossed, answered>>
      BY <2>2 DEF Check, Connect, Lock, Insert, Twice
    <3> QED
      BY <1>1, <3>1
  <2>3. CASE Recheck(r)
    <3>1. UNCHANGED <<dms, answered>>
      BY <2>3 DEF Recheck
    <3>2. CASE crossed' = crossed
      BY <1>1, <3>1, <3>2
    <3>3. ASSUME crossed' # crossed PROVE [D!Next]_(D!vars)
      <4>1. /\ ChannelsOf(req[r].pair) = {}
            /\ crossed' = crossed \union {q \in Pairs : q = req[r].pair /\ Beside(r)}
        BY <2>3, <3>3 DEF Recheck
      <4>2. PICK p \in Pairs : p = req[r].pair
        BY <3>3, <4>1
      <4>3. crossed' = crossed \union {p}
        BY <3>3, <4>1, <4>2
      <4>4. D!Of(p) = {}
        BY <4>1, <4>2 DEF ChannelsOf, D!Of
      <4>5. D!Split(p)
        BY <3>1, <4>3, <4>4 DEF D!Split
      <4> QED
        BY <4>5 DEF D!Next
    <3> QED
      BY <3>2, <3>3
  <2>4. CASE Commit(r)
    <3>1. PICK i \in Ids :
            /\ dms' = dms \union {[id |-> i, pair |-> req[r].pair, key |-> req[r].key]}
            /\ \A d \in dms : d.id # i
            /\ \A d \in dms : d.pair = req[r].pair => d.pair \in crossed /\ d.key # req[r].key
      BY <2>4, CommitKeeps
    <3>2. PICK p \in Pairs, k \in Keys : p = req[r].pair /\ k = req[r].key
      BY <2>4, CommitKeeps
    <3>3. UNCHANGED <<crossed, answered>>
      BY <2>4 DEF Commit
    <3>4. D!Create(p, k, i)
      BY <3>1, <3>2, <3>3 DEF D!Create, D!Of
    <3> QED
      BY <3>4 DEF D!Next
  <2>5. CASE Reply(r)
    <3>1. req[r].next = "reply" /\ UNCHANGED <<dms, crossed>>
      BY <2>5 DEF Reply, At
    <3>2. PICK i \in Ids : req[r].channel = {i} /\ i \in ChannelsOf(req[r].pair)
      BY <3>1 DEF IInv, ReplyKnown
    <3>3. answered' = Told(r, {i})
      BY <2>5, <3>2 DEF Reply, Answer
    <3> QED
      BY <1>2, <3>1, <3>2, <3>3
  <2> QED
    BY <1>3, <2>1, <2>2, <2>3, <2>4, <2>5 DEF Step
<1>4. ASSUME NEW r \in Reqs, Fail(r) \/ PoolTimeout(r) PROVE [D!Next]_(D!vars)
  BY <1>1, <1>4 DEF Fail, PoolTimeout
<1>5. ASSUME NEW r \in Reqs, NEW u \in Users, NEW t \in Texts, Call(r, u, t)
      PROVE  [D!Next]_(D!vars)
  BY <1>1, <1>5 DEF Call
<1>6. CASE Restart \/ UNCHANGED vars
  BY <1>1, <1>6 DEF Restart, vars
<1> QED
  BY <1>3, <1>4, <1>5, <1>6 DEF Next

(* The handler implements the directory: one channel per pair, for ever,   *)
(* but for pairs whose keys crossed before they had any, which get one per *)
(* key at most; and callers are told ids of the pair's channels only.      *)
THEOREM DirectMessagesImplementDirectory == Spec => ImplementsDirectory
<1>1. Init => D!Init
  BY DEF Init, D!Init
<1> QED
  BY <1>1, DirectoryStep, Invariance, PTL DEF Spec, ImplementsDirectory, D!Spec
=============================================================================
