------------------------- MODULE RustDirectMessages -------------------------
(***************************************************************************)
(* rust-backend/api/src/main.rs, create_dm: the port of POST /api/dms.     *)
(* It looks the channel up, checks the permission and inserts in a         *)
(* transaction; it takes no lock and does not look again, and a query that *)
(* fails counts as one that found nothing.  As no lock is named by them,   *)
(* the spellings of an id matter for one thing only: the self check takes  *)
(* the caller's own id in another spelling for somebody else's.            *)
(***************************************************************************)
CONSTANTS Users,
          Strangers,  \* the users with allow_dms_from_strangers
          Reqs,       \* handlers that may be running at once
          Ids         \* channel ids; a rolled back one may be used again

VARIABLES dms, friends, req  \* as in DirectMessages

vars == <<dms, friends, req>>

Pairs == {p \in SUBSET Users : \E a, b \in Users : a # b /\ p = {a, b}}

Init == /\ dms = {}
        /\ friends = {}
        /\ req = [r \in Reqs |-> [next |-> "idle"]]

ChannelsOf(p) == {d.id : d \in {e \in dms : p \subseteq e.pair}}

At(r, step) == req[r].next = step
Goto(r, step) == req' = [req EXCEPT ![r].next = step]
End(r) == req' = [req EXCEPT ![r] = [next |-> "idle"]]

(* u = v: oneself, not spelled as in the token. *)
Call(r, u, v) == /\ At(r, "idle")
                 /\ req' = [req EXCEPT ![r] = [next |-> "lookup", to |-> v,
                                               pair |-> {u, v}, channel |-> {}]]
                 /\ UNCHANGED <<dms, friends>>

(* fetch_optional, .ok().flatten(): an error goes on as if there was none. *)
Lookup(r) == /\ At(r, "lookup")
             /\ \/ ChannelsOf(req[r].pair) # {} /\ End(r)
                \/ ChannelsOf(req[r].pair) = {} /\ Goto(r, "check")
             /\ UNCHANGED <<dms, friends>>

LookupFails(r) == /\ At(r, "lookup")
                  /\ Goto(r, "check")
                  /\ UNCHANGED <<dms, friends>>

(* The target's flag and the friendship, which is not found in every       *)
(* spelling; an error denies.                                              *)
Check(r) == /\ At(r, "check")
            /\ \/ /\ req[r].pair \in friends \/ req[r].to \in Strangers
                  /\ Goto(r, "insert")
               \/ End(r)
            /\ UNCHANGED <<dms, friends>>

Used == {d.id : d \in dms}
          \union (UNION {req[s].channel : s \in {t \in Reqs : ~At(t, "idle")}})

(* begin and both INSERTs, or an error of begin or of the first one. *)
Insert(r) == /\ At(r, "insert")
             /\ \/ \E i \in Ids \ Used :
                     req' = [req EXCEPT ![r].next = "commit", ![r].channel = {i}]
                \/ End(r)
             /\ UNCHANGED <<dms, friends>>

Commit(r) == /\ At(r, "commit")
             /\ req[r].pair \in Pairs
             /\ dms' = dms \union {[id |-> i, pair |-> req[r].pair] : i \in req[r].channel}
             /\ End(r)
             /\ UNCHANGED friends

(* The INSERT of the members (of oneself twice, always: the primary key) or *)
(* the commit fails; both results are dropped.                             *)
CommitFails(r) == /\ At(r, "commit")
                  /\ End(r)
                  /\ UNCHANGED <<dms, friends>>

Befriend(p) == /\ friends' \in {friends \union {p}, friends \ {p}}
               /\ UNCHANGED <<dms, req>>

Next == \/ \E r \in Reqs : \/ Lookup(r) \/ LookupFails(r) \/ Check(r)
                           \/ Insert(r) \/ Commit(r) \/ CommitFails(r)
        \/ \E r \in Reqs, u, v \in Users : Call(r, u, v)
        \/ \E p \in Pairs : Befriend(p)

Spec == Init /\ [][Next]_vars

(* The contract of the TypeScript route (DirectMessages.OneDmPerPair) the   *)
(* port is announced to keep: one channel per pair.  A call whose lookup    *)
(* failed, or ran before another call's commit, breaks it.                *)
OneDmPerPair == \A d, e \in dms : d.pair = e.pair => d = e
=============================================================================
