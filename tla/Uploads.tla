------------------------------- MODULE Uploads -------------------------------
(***************************************************************************)
(* backend/src/routes/uploads.ts: objects in the bucket, and the cleanup   *)
(* that a failed upload sets off.  It lists the bucket, asks the database  *)
(* for the URLs in use, one column after the other, and deletes what it    *)
(* listed and found in none.  A client puts the URL an upload answered     *)
(* into a column whenever it likes, and users move URLs about.             *)
(***************************************************************************)
EXTENDS Integers, FiniteSets

CONSTANTS Keys,      \* a key is never drawn twice
          Columns,   \* how many columns hold URLs
          Cleanups   \* cleanups that may run at once

VARIABLES objects,   \* the keys in the bucket
          uploaded,  \* the keys whose URL was answered
          refs,      \* refs[k]: the columns, 1..Columns, that hold the URL of k
          cleanup,   \* cleanup[c]: what it listed and found in use
          late       \* history: put into a column after a cleanup had listed it

UploadsAssumption == Columns \in Nat \ {0}

vars == <<objects, uploaded, refs, cleanup, late>>

Idle == [next |-> "idle", column |-> 1, listed |-> {}, usedKeys |-> {}]

TypeOK == /\ objects \in SUBSET Keys
          /\ uploaded \in SUBSET Keys
          /\ refs \in [Keys -> SUBSET (1..Columns)]
          /\ cleanup \in [Cleanups -> [next : {"idle", "list", "query", "delete"},
                                       column : 1..Columns,
                                       listed : SUBSET Keys, usedKeys : SUBSET Keys]]
          /\ late \in SUBSET Keys

Init == /\ objects = {}
        /\ uploaded = {}
        /\ refs = [k \in Keys |-> {}]
        /\ cleanup = [c \in Cleanups |-> Idle]
        /\ late = {}
-----------------------------------------------------------------------------
(* POST /api/upload *)
Put(k) == /\ k \notin uploaded
          /\ objects' = objects \union {k}
          /\ uploaded' = uploaded \union {k}
          /\ UNCHANGED <<refs, cleanup, late>>

(* PutObject fails: the cleanup is started and not waited for. *)
PutFails(c) == /\ cleanup[c] = Idle
               /\ cleanup' = [cleanup EXCEPT ![c].next = "list"]
               /\ UNCHANGED <<objects, uploaded, refs, late>>

(* Any of the routes that write a URL: profiles, servers, messages. *)
Use(k, i) == /\ k \in uploaded
             /\ refs' = [refs EXCEPT ![k] = @ \union {i}]
             /\ late' = IF k \notin objects \/ \E c \in Cleanups : k \in cleanup[c].listed
                        THEN late \union {k} ELSE late
             /\ UNCHANGED <<objects, uploaded, cleanup>>

Drop(k, i) == /\ i \in refs[k]
              /\ refs' = [refs EXCEPT ![k] = @ \ {i}]
              /\ UNCHANGED <<objects, uploaded, cleanup, late>>
-----------------------------------------------------------------------------
(* cleanupStorage *)

(* 1. List all objects *)
List(c) == /\ cleanup[c].next = "list"
           /\ cleanup' = [cleanup EXCEPT ![c] = IF objects = {} THEN Idle
                                                ELSE [Idle EXCEPT !.next = "query",
                                                                  !.listed = objects]]
           /\ UNCHANGED <<objects, uploaded, refs, late>>

(* 2. Get all used files from DB *)
Query(c) ==
    LET i == cleanup[c].column IN
    /\ cleanup[c].next = "query"
    /\ cleanup' = [cleanup EXCEPT ![c].usedKeys = @ \union {k \in Keys : i \in refs[k]},
                                  ![c].next = IF i = Columns THEN "delete" ELSE "query",
                                  ![c].column = IF i = Columns THEN i ELSE i + 1]
    /\ UNCHANGED <<objects, uploaded, refs, late>>

(* Slip: the bucket is listed after the database was asked. *)
Bug_DeleteOrphans(c) ==
    /\ cleanup[c].next = "delete"
    /\ objects' = objects \intersect cleanup[c].usedKeys
    /\ cleanup' = [cleanup EXCEPT ![c] = Idle]
    /\ UNCHANGED <<uploaded, refs, late>>

(* 3. Identify orphans ... 5. Delete *)
DeleteOrphans(c) ==
    /\ cleanup[c].next = "delete"
    /\ objects' = objects \ (cleanup[c].listed \ cleanup[c].usedKeys)
    /\ cleanup' = [cleanup EXCEPT ![c] = Idle]
    /\ UNCHANGED <<uploaded, refs, late>>

(* An await throws: logged, and the cleanup is over. *)
CleanupFails(c) == /\ cleanup[c] # Idle
                   /\ cleanup' = [cleanup EXCEPT ![c] = Idle]
                   /\ UNCHANGED <<objects, uploaded, refs, late>>

Next == \/ \E k \in Keys : Put(k) \/ \E i \in 1..Columns : Use(k, i) \/ Drop(k, i)
        \/ \E c \in Cleanups :
             PutFails(c) \/ List(c) \/ Query(c) \/ DeleteOrphans(c) \/ CleanupFails(c)

Spec == Init /\ [][Next]_vars
-----------------------------------------------------------------------------
(* A cleanup deletes nothing that is in use: an object whose URL is in a   *)
(* column is in the bucket, unless the URL was put into a column (for the  *)
(* first time, or from another one) after a cleanup had listed the object, *)
(* or once it had been deleted as an orphan.                               *)
UsedIsStored == \A k \in Keys : refs[k] # {} /\ k \notin objects => k \in late
=============================================================================
