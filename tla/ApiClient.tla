----------------------------- MODULE ApiClient -----------------------------
(***************************************************************************)
(* frontend/src/lib/api.ts: how the web client asks the backend.  A `get'   *)
(* is answered from the response cache, or joins the request for the same   *)
(* path and token that is under way, or sends one; a write that ends well   *)
(* empties the cache.  What the backend answers is abstracted to a number:  *)
(* how many of this client's writes it had performed when it read.          *)
(***************************************************************************)
EXTENDS Naturals

CONSTANTS Calls,      \* the calls of `api' that are made
          Args,       \* what a call's path names, and the token it is made with
          Requests,   \* GET requests under way at once
          Writers,    \* writes under way at once
          MaxVersion, \* bound: writes the backend performs
          Nobody      \* no request

VARIABLES version,    \* writes performed so far
          acked,      \* the newest of those whose answer has arrived
          requests,   \* requests[r]: a GET request under way
          writes,     \* writes[w]: how far a write is
          inflight,   \* inflightGetRequests
          cached      \* getResponseCache

ApiAssumption == MaxVersion \in Nat /\ Nobody \notin Requests

vars == <<version, acked, requests, writes, inflight, cached>>

(* The calls of `api': through `get', or through `request' with the method  *)
(* GET or another one.                                                      *)
ListCalls == {<<"servers", "get">>, <<"channels", "get">>}
MessageCalls == {<<"messages", "get">>, <<"socketInfo", "request">>, <<"sendMessage", "write">>}
SessionCalls == {<<"register", "write">>, <<"login", "write">>, <<"authWithShoo", "write">>,
                 <<"me", "get">>, <<"updateDisplayName", "write">>}
ServerCalls == {<<"createServer", "write">>, <<"renameServer", "write">>,
                <<"deleteServer", "write">>, <<"leaveServer", "write">>}
MemberCalls == {<<"getRoles", "get">>, <<"createRole", "write">>, <<"updateRole", "write">>,
                <<"updateMemberRole", "write">>, <<"updateMemberRoles", "write">>,
                <<"getMember", "get">>, <<"getServerMembers", "get">>, <<"kickMember", "write">>,
                <<"banMember", "write">>, <<"muteMember", "write">>, <<"deleteRole", "write">>}
ChannelCalls == {<<"createChannel", "write">>, <<"renameChannel", "write">>,
                 <<"getChannelPermissions", "request">>, <<"deleteChannel", "write">>,
                 <<"createCategory", "write">>, <<"renameCategory", "write">>,
                 <<"deleteCategory", "write">>, <<"createInvite", "write">>,
                 <<"inviteInfo", "request">>, <<"acceptInvite", "write">>,
                 <<"channelIdByName", "get">>}
ProfileCalls == {<<"uploadFile", "write">>, <<"updateProfile", "write">>,
                 <<"getUserProfile", "get">>, <<"getFriends", "get">>,
                 <<"getFriendRequests", "get">>, <<"sendFriendRequest", "write">>,
                 <<"respondFriendRequest", "write">>, <<"removeFriend", "write">>,
                 <<"getDMs", "get">>, <<"createDM", "write">>}
NoticeCalls == {<<"getNotifications", "get">>, <<"markNotificationRead", "write">>,
                <<"markChannelNotificationsRead", "write">>,
                <<"markAllNotificationsRead", "write">>, <<"deleteNotification", "write">>,
                <<"deleteMessage", "write">>, <<"editMessage", "write">>,
                <<"getStatsSummary", "get">>, <<"getStatsActivity", "get">>,
                <<"getStatsSystem", "get">>, <<"getStatsMetrics", "get">>}

Through(way) == {call \in Calls :
    <<call, way>> \in ListCalls \union MessageCalls \union SessionCalls \union ServerCalls
                      \union MemberCalls \union ChannelCalls \union ProfileCalls \union NoticeCalls}

(* getCacheTtlMs(path) > 0 *)
CachedCalls == {"servers", "channels", "getRoles", "getMember", "getServerMembers",
                "getUserProfile", "getFriends", "getFriendRequests", "getDMs",
                "getNotifications"}

Keys == [call : Calls, arg : Args]

(* A read of the backend; overlapped: it was under way when a write ended.  *)
Answers == [version : Nat, overlapped : BOOLEAN]
NoAnswer == [overlapped |-> FALSE]
NoRequest == [stage |-> "none"]

TypeOK == /\ version \in Nat
          /\ acked \in 0..version
          /\ \A r \in Requests : requests[r] = NoRequest \/ requests[r] \in
                [stage : {"sent", "read"}, key : Keys, version : Nat, overlapped : BOOLEAN]
          /\ writes \in [Writers -> [stage : {"none", "sent", "done"}, version : Nat]]
          /\ inflight \in [Keys -> Requests \union {Nobody}]
          /\ \A k \in Keys : cached[k] = NoAnswer \/ cached[k] \in Answers

Init == /\ version = 0
        /\ acked = 0
        /\ requests = [r \in Requests |-> NoRequest]
        /\ writes = [w \in Writers |-> [stage |-> "none", version |-> 0]]
        /\ inflight = [k \in Keys |-> Nobody]
        /\ cached = [k \in Keys |-> NoAnswer]
-----------------------------------------------------------------------------
(* Reading. *)

Send(r, k) == /\ requests[r] = NoRequest
              /\ requests' = [requests EXCEPT ![r] =
                     [stage |-> "sent", key |-> k, version |-> 0, overlapped |-> FALSE]]

(* get, of what is neither cached nor asked for: it sends the request.      *)
Get(r, k) == /\ k.call \in Through("get")
             /\ cached[k] = NoAnswer
             /\ inflight[k] = Nobody
             /\ Send(r, k)
             /\ inflight' = [inflight EXCEPT ![k] = r]
             /\ UNCHANGED <<version, acked, writes, cached>>

(* A GET that goes past `get'. *)
Request(r, k) == /\ k.call \in Through("request")
                 /\ Send(r, k)
                 /\ UNCHANGED <<version, acked, writes, inflight, cached>>

(* The backend reads its tables. *)
Read(r) == /\ requests[r].stage = "sent"
           /\ requests' = [requests EXCEPT ![r].stage = "read", ![r].version = version]
           /\ UNCHANGED <<version, acked, writes, inflight, cached>>

(* `finally': the request is under way no longer. *)
Ended(r) == /\ requests' = [requests EXCEPT ![r] = NoRequest]
            /\ inflight' = IF requests[r].key.call \in Through("get")
                           THEN [inflight EXCEPT ![requests[r].key] = Nobody] ELSE inflight
            /\ UNCHANGED <<version, acked, writes>>

Answered(r) == /\ requests[r].stage = "read"
               /\ Ended(r)
               /\ cached' = IF requests[r].key.call \in Through("get") \intersect CachedCalls
                            THEN [cached EXCEPT ![requests[r].key] =
                                     [version |-> requests[r].version,
                                      overlapped |-> requests[r].overlapped]]
                            ELSE cached

(* No answer, or one that is not ok: whoever awaits it is told. *)
Failed(r) == /\ requests[r] # NoRequest
             /\ Ended(r)
             /\ UNCHANGED cached

(* expiresAt passes. *)
Expire(k) == /\ cached[k] # NoAnswer
             /\ cached' = [cached EXCEPT ![k] = NoAnswer]
             /\ UNCHANGED <<version, acked, requests, writes, inflight>>
-----------------------------------------------------------------------------
(* Writing. *)

Write(w) == /\ Through("write") # {}
            /\ writes[w].stage = "none"
            /\ writes' = [writes EXCEPT ![w].stage = "sent"]
            /\ UNCHANGED <<version, acked, requests, inflight, cached>>

(* The backend performs it. *)
Perform(w) == /\ writes[w].stage = "sent"
              /\ version < MaxVersion
              /\ version' = version + 1
              /\ writes' = [writes EXCEPT ![w] = [stage |-> "done", version |-> version + 1]]
              /\ UNCHANGED <<acked, requests, inflight, cached>>

Over(w) == writes' = [writes EXCEPT ![w] = [stage |-> "none", version |-> 0]]

(* Slip: the cache is emptied only by what the backend refused. *)
Bug_WriteEnds(w) ==
    /\ writes[w].stage # "none"
    /\ Over(w)
    /\ acked' = IF writes[w].version > acked THEN writes[w].version ELSE acked
    /\ requests' = [r \in Requests |-> IF requests[r] = NoRequest THEN NoRequest
                                       ELSE [requests[r] EXCEPT !.overlapped = TRUE]]
    /\ cached' = IF writes[w].stage = "done" THEN cached ELSE [k \in Keys |-> NoAnswer]
    /\ UNCHANGED <<version, inflight>>

(* Its answer, which most routes give with a status of 200 even when they   *)
(* refuse: getResponseCache.clear().  Requests under way go on.             *)
WriteEnds(w) ==
    /\ writes[w].stage # "none"
    /\ Over(w)
    /\ acked' = IF writes[w].version > acked THEN writes[w].version ELSE acked
    /\ requests' = [r \in Requests |-> IF requests[r] = NoRequest THEN NoRequest
                                       ELSE [requests[r] EXCEPT !.overlapped = TRUE]]
    /\ cached' = [k \in Keys |-> NoAnswer]
    /\ UNCHANGED <<version, inflight>>

(* No answer, or one that is not ok, though it may have been performed. *)
WriteFails(w) == /\ writes[w].stage # "none"
                 /\ Over(w)
                 /\ UNCHANGED <<version, acked, requests, inflight, cached>>

Next == \/ \E r \in Requests : \/ \E k \in Keys : Get(r, k) \/ Request(r, k)
                               \/ Read(r) \/ Answered(r) \/ Failed(r)
        \/ \E k \in Keys : Expire(k)
        \/ \E w \in Writers : Write(w) \/ Perform(w) \/ WriteEnds(w) \/ WriteFails(w)

Spec == Init /\ [][Next]_vars
-----------------------------------------------------------------------------
(* Whatever a call may be answered with knows the client's own writes whose *)
(* answers it had, unless the request was under way when one of them ended. *)
OwnWritesSeen ==
    /\ \A k \in Keys : cached[k] = NoAnswer \/ cached[k].overlapped
                          \/ cached[k].version >= acked
    /\ \A r \in Requests : requests[r].stage = "read" =>
          requests[r].overlapped \/ requests[r].version >= acked

(* A call joins no request but one for its own key that is under way, and   *)
(* there is one at most.                                                    *)
JoinsLiveRequest ==
    \A k \in Keys, r \in Requests :
       inflight[k] = r <=> /\ requests[r] # NoRequest
                           /\ requests[r].key = k
                           /\ k.call \in Through("get")

AnswersHold == OwnWritesSeen /\ JoinsLiveRequest
=============================================================================
