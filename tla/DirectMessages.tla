--------------------------- MODULE DirectMessages ---------------------------
(***************************************************************************)
(* backend/src/routes/channels.ts, POST /api/dms: find or create the       *)
(* direct-message channel of two users.  A lookup, the permission check,   *)
(* then a transaction on a client of the connection pool that takes an     *)
(* advisory lock, looks again and inserts.                                 *)
(*                                                                         *)
(* The body names the other user by a string.  The queries cast it to      *)
(* uuid, and a uuid has several spellings (case of the letters, braces,    *)
(* hyphens); the self check and the lock take the string as it was sent.   *)
(* The caller's own id is the token's, as Postgres printed it.             *)
(*                                                                         *)
(* Postgres: READ COMMITTED, so a statement sees what was committed before *)
(* it; the lock is released by COMMIT and ROLLBACK.  The pool: PoolSize    *)
(* clients (lib/db.ts), also needed, for a moment, by each pool.query.     *)
(***************************************************************************)
EXTENDS Integers, FiniteSets

CONSTANTS Users,
          Texts,      \* the strings that name a user: [user, as], as being a spelling
          Printed,    \* the spelling Postgres prints, in tokens and answers
          Reqs,       \* handlers that may be running at once
          Ids,        \* channel ids; a rolled back one may be used again
          PoolSize

(* An id as Postgres prints it, and as a body may have it. *)
Own(u) == [user |-> u, as |-> Printed]

ASSUME TextsAssumption == /\ \A t \in Texts : t.user \in Users
                          /\ \A u \in Users : Own(u) \in Texts
ASSUME PoolAssumption == PoolSize \in Nat \ {0}
ASSUME ReqsAssumption == IsFiniteSet(Reqs)

VARIABLES dms,      \* committed channels of type dm: two members and, as history, the lock
          locks,    \* the advisory locks that are taken
          free,     \* pool clients nobody holds
          req,      \* req[r]: handler r
          answered, \* history: answered[p]: the ids the callers about a pair were told
          crossed   \* history: the pairs handlers under two locks were inserting for at once

vars == <<dms, locks, free, req, answered, crossed>>

Pairs == {p \in SUBSET Users : \E a, b \in Users : a # b /\ p = {a, b}}

(* Whom a call may be about: a pair, or oneself in another spelling. *)
Asked == {{a, b} : a, b \in Users}

(* The two strings a lock is named by (their hashes are taken to differ). *)
Keys == {{Own(u), t} : u \in Users, t \in Texts}

Dm == [id : Ids, pair : Pairs, key : Keys]

Steps == {"lookup", "check", "connect", "lock", "recheck", "insert", "commit", "reply"}

(* `channel' is what the handler inserted or found: {} or {id}. *)
Running == [next : Steps, pair : Asked, key : Keys, channel : SUBSET Ids]
Idle == [next |-> "idle"]

TypeOK == /\ dms \in SUBSET Dm
          /\ locks \in SUBSET Keys
          /\ free \in Nat
          /\ req \in [Reqs -> Running \union {Idle}]
          /\ answered \in [Pairs -> SUBSET Ids]
          /\ crossed \in SUBSET Pairs

Init == /\ dms = {}
        /\ locks = {}
        /\ free = PoolSize
        /\ req = [r \in Reqs |-> Idle]
        /\ answered = [p \in Pairs |-> {}]
        /\ crossed = {}

(* The lookup joins the members twice: about oneself it finds any channel   *)
(* one is in.                                                              *)
ChannelsOf(p) == {d.id : d \in {e \in dms : p \subseteq e.pair}}

At(r, step) == req[r].next = step
Goto(r, step) == req' = [req EXCEPT ![r].next = step]
Told(r, C) == [p \in Pairs |-> answered[p] \union {i \in C : p = req[r].pair}]
Answer(r, C) == /\ req' = [req EXCEPT ![r] = Idle]
                /\ answered' = Told(r, C)

(* Steps at which the handler holds a client, and the lock. *)
WithClient == {"lock", "recheck", "insert", "commit", "reply"}
WithLock == {"recheck", "insert", "commit"}
-----------------------------------------------------------------------------
(* The handler. *)

(* Slip: both ids are taken from the body. *)
Bug_Call(r, u, t) == /\ At(r, "idle")
                     /\ t # Own(u)
                     /\ req' = [req EXCEPT ![r] = [next |-> "lookup", pair |-> {t.user},
                                                   key |-> {t}, channel |-> {}]]
                     /\ UNCHANGED <<dms, locks, free, answered, crossed>>

(* "Cannot DM self" compares the strings. *)
Call(r, u, t) == /\ At(r, "idle")
                 /\ t # Own(u)
                 /\ req' = [req EXCEPT ![r] = [next |-> "lookup", pair |-> {u, t.user},
                                               key |-> {Own(u), t}, channel |-> {}]]
                 /\ UNCHANGED <<dms, locks, free, answered, crossed>>

(* The first SELECT: LIMIT 1 of the pair's channels. *)
Lookup(r) == /\ At(r, "lookup")
             /\ free > 0
             /\ LET C == ChannelsOf(req[r].pair) IN
                IF C # {} THEN \E i \in C : Answer(r, {i})
                          ELSE Goto(r, "check") /\ UNCHANGED answered
             /\ UNCHANGED <<dms, locks, free, crossed>>

(* The SELECTs of the target's flag and of the friendship, which the friend *)
(* routes make and end at any time (Friendships.tla), and which the query  *)
(* may not find in another spelling than Postgres' (the row has the lesser *)
(* uuid first, the query the lesser string): they allow the call or end it.*)
Check(r) == /\ At(r, "check")
            /\ free > 0
            /\ Goto(r, "connect") \/ req' = [req EXCEPT ![r] = Idle]
            /\ UNCHANGED <<dms, locks, free, answered, crossed>>

(* pool.connect() and BEGIN *)
Connect(r) == /\ At(r, "connect")
              /\ free > 0
              /\ free' = free - 1
              /\ Goto(r, "lock")
              /\ UNCHANGED <<dms, locks, answered, crossed>>

(* Slip: pg_try_advisory_xact_lock, its result not looked at. *)
Bug_Lock(r) == /\ At(r, "lock")
               /\ locks' = locks \union {req[r].key}
               /\ Goto(r, "recheck")
               /\ UNCHANGED <<dms, free, answered, crossed>>

(* pg_advisory_xact_lock of the two sorted strings: waits, without a        *)
(* timeout.                                                                *)
Lock(r) == /\ At(r, "lock")
           /\ req[r].key \notin locks
           /\ locks' = locks \union {req[r].key}
           /\ Goto(r, "recheck")
           /\ UNCHANGED <<dms, free, answered, crossed>>

(* Slip: the lookup before the transaction is trusted. *)
Bug_Recheck(r) == /\ At(r, "recheck")
                  /\ Goto(r, "insert")
                  /\ UNCHANGED <<dms, locks, free, answered, crossed>>

(* Another handler is past its second lookup for the same pair, under a     *)
(* lock of another name.                                                   *)
Beside(r) == \E s \in Reqs : /\ req[s].next \in {"insert", "commit"}
                             /\ req[s].pair = req[r].pair
                             /\ req[s].key # req[r].key

(* The second SELECT; a channel it finds is answered after a COMMIT that   *)
(* releases the lock.                                                      *)
Recheck(r) == LET C == ChannelsOf(req[r].pair) IN
              /\ At(r, "recheck")
              /\ IF C = {}
                 THEN /\ Goto(r, "insert")
                      /\ crossed' = crossed \union {p \in Pairs : p = req[r].pair /\ Beside(r)}
                      /\ UNCHANGED locks
                 ELSE /\ \E i \in C : req' = [req EXCEPT ![r].next = "reply", ![r].channel = {i}]
                      /\ locks' = locks \ {req[r].key}
                      /\ UNCHANGED crossed
              /\ UNCHANGED <<dms, free, answered>>

(* A new uuid differs from every other; which one it is does not matter.    *)
Used == {d.id : d \in dms} \union (UNION {answered[p] : p \in Pairs})
          \union (UNION {req[s].channel : s \in {t \in Reqs : ~At(t, "idle")}})

Fresh == {i \in Ids \ Used : i = CHOOSE j \in Ids \ Used : TRUE}

(* Slip: the id is answered as soon as the channel's row is inserted. *)
Bug_Insert(r) == /\ At(r, "insert")
                 /\ \E i \in Fresh :
                      /\ req' = [req EXCEPT ![r].next = "commit", ![r].channel = {i}]
                      /\ answered' = Told(r, {i})
                 /\ UNCHANGED <<dms, locks, free, crossed>>

(* The two INSERTs: nobody else sees them yet. *)
Insert(r) == /\ At(r, "insert")
             /\ req[r].pair \in Pairs
             /\ \E i \in Fresh :
                  req' = [req EXCEPT ![r].next = "commit", ![r].channel = {i}]
             /\ UNCHANGED <<dms, locks, free, answered, crossed>>

(* Oneself in another spelling: the INSERT of the same member twice breaks  *)
(* the primary key of channel_members.  ROLLBACK, release, "Server error". *)
Twice(r) == /\ At(r, "insert")
            /\ req[r].pair \notin Pairs
            /\ req' = [req EXCEPT ![r] = Idle]
            /\ locks' = locks \ {req[r].key}
            /\ free' = free + 1
            /\ UNCHANGED <<dms, answered, crossed>>

(* Postgres commits. *)
Commit(r) == /\ At(r, "commit")
             /\ dms' = dms \union {[id |-> i, pair |-> req[r].pair, key |-> req[r].key] :
                                      i \in req[r].channel}
             /\ locks' = locks \ {req[r].key}
             /\ Goto(r, "reply")
             /\ UNCHANGED <<free, answered, crossed>>

(* The handler sees the COMMIT, releases the client and answers. *)
Reply(r) == /\ At(r, "reply")
            /\ Answer(r, req[r].channel)
            /\ free' = free + 1
            /\ UNCHANGED <<dms, locks, crossed>>
-----------------------------------------------------------------------------
(* Failures. *)

(* Slip: the catch rethrows before the ROLLBACK and the release. *)
Bug_Fail(r) == /\ ~At(r, "idle")
               /\ req' = [req EXCEPT ![r] = Idle]
               /\ UNCHANGED <<dms, locks, free, answered, crossed>>

(* Slip: no finally, the client is not given back. *)
Bug_FailLeaks(r) == /\ ~At(r, "idle")
                    /\ req' = [req EXCEPT ![r] = Idle]
                    /\ locks' = IF req[r].next \in WithLock THEN locks \ {req[r].key} ELSE locks
                    /\ UNCHANGED <<dms, free, answered, crossed>>

(* An await throws, or the connection breaks: ROLLBACK, release, "Server    *)
(* error".  At "reply" the COMMIT was done and its answer lost.             *)
Fail(r) == /\ ~At(r, "idle")
           /\ req' = [req EXCEPT ![r] = Idle]
           /\ locks' = IF req[r].next \in WithLock THEN locks \ {req[r].key} ELSE locks
           /\ free' = IF req[r].next \in WithClient THEN free + 1 ELSE free
           /\ UNCHANGED <<dms, answered, crossed>>

(* connectionTimeoutMillis of the pool ran out. *)
PoolTimeout(r) == /\ req[r].next \in {"lookup", "check", "connect"}
                  /\ free = 0
                  /\ req' = [req EXCEPT ![r] = Idle]
                  /\ UNCHANGED <<dms, locks, free, answered, crossed>>

(* The backend stops and starts: Postgres ends its transactions. *)
Restart == /\ req' = [r \in Reqs |-> Idle]
           /\ locks' = {}
           /\ free' = PoolSize
           /\ UNCHANGED <<dms, answered, crossed>>

Step(r) == Lookup(r) \/ Check(r) \/ Connect(r) \/ Lock(r) \/ Recheck(r) \/ Insert(r)
             \/ Twice(r) \/ Commit(r) \/ Reply(r)

Next == \/ \E r \in Reqs : Step(r) \/ Fail(r) \/ PoolTimeout(r)
        \/ \E r \in Reqs, u \in Users, t \in Texts : Call(r, u, t)
        \/ Restart

Spec == Init /\ [][Next]_vars

(***************************************************************************)
(* Fairness.  The pool hands out clients, and Postgres grants a lock, in   *)
(* the order they were asked for, so a handler that is enabled again and   *)
(* again gets its turn: strong fairness.  The pool's timer runs.  Nothing  *)
(* fails, is called or restarts by obligation.                             *)
(***************************************************************************)
Fairness == \A r \in Reqs : SF_vars(Step(r)) /\ WF_vars(PoolTimeout(r))

FairSpec == Spec /\ Fairness
-----------------------------------------------------------------------------
(* Two users have at most one direct-message channel, whatever the number  *)
(* of handlers that look it up at once (the reason for the lock and for    *)
(* the second lookup, channels.ts 89-106).  The exception: the lock is of  *)
(* the strings, so handlers that spell the two ids differently may insert  *)
(* at once; then each spelling still makes one channel at most.            *)
OneDmPerPair == \A d, e \in dms : /\ d.pair = e.pair
                                  /\ d.pair \notin crossed \/ d.key = e.key
                                  => d = e

(* A caller is told an id only when the channel is committed, and is one   *)
(* of the pair's.                                                          *)
AnswersCommitted == \A p \in Pairs : answered[p] \subseteq ChannelsOf(p)

(* An advisory lock is taken exactly while one transaction that named it   *)
(* by its strings is between its lock and its end: no two are there under  *)
(* one name, and errors and restarts leave none behind.                    *)
LocksHeld ==
    /\ locks = {req[r].key : r \in {s \in Reqs : req[s].next \in WithLock}}
    /\ \A r, s \in Reqs : /\ {req[r].next, req[s].next} \subseteq WithLock
                          /\ req[r].key = req[s].key
                          => r = s

(* Every client of the pool is free or held by one running transaction.    *)
PoolAccounted ==
    free + Cardinality({r \in Reqs : req[r].next \in WithClient}) = PoolSize

(* Whatever fails or restarts, neither a lock nor a client is lost. *)
NothingLeaked == LocksHeld /\ PoolAccounted

(* The handler implements the directory: a second channel is made only for  *)
(* a pair that had none while handlers under two locks were inserting.     *)
D == INSTANCE DmDirectory WITH dm <- dms, split <- crossed

ImplementsDirectory == D!Spec

(* Every call ends, also when the pool is smaller than the number of       *)
(* handlers that wait for one lock with a client each.                     *)
CallsEnd == \A r \in Reqs : ~At(r, "idle") ~> At(r, "idle")
=============================================================================
