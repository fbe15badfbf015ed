------------------------------ MODULE Session ------------------------------
(***************************************************************************)
(* frontend/src/components/AuthProvider.tsx: who a tab of the web client    *)
(* believes is signed in, and the lists that stores/cacheStore.ts keeps for *)
(* them.  The token and the user are kept in localStorage, which the tabs   *)
(* of a browser share and which a reload leaves; what is awaited goes on    *)
(* while users sign out and in.  A token is told by its user.               *)
(***************************************************************************)
EXTENDS FiniteSets

CONSTANTS Users,
          Nobody,   \* no user, no token
          Checks,   \* checkSession, under way at once
          Updates,  \* changes of the profile, under way at once
          Fetches   \* fetches of a list, under way at once

SessionAssumption == Nobody \notin Users

VARIABLES stored,   \* localStorage: the token
          saved,    \* localStorage: the user
          user, authed, loading,  \* React state: user, isAuthenticated, isLoading
          token,    \* the token of the last render
          lists,    \* the cache: whose servers, DMs and channels it holds
          check, update, fetch,   \* what is awaited, and the token it was asked with
          crossed   \* history: an answer of another session came, or another tab signed in

local == <<stored, saved>>
shown == <<user, authed, loading, token>>
vars == <<local, shown, lists, check, update, fetch, crossed>>

SomeUser == Users \union {Nobody}

Kinds == {"servers", "dms", "channels"}

(* A list: whose token it was fetched with; odd: it was fetched before the  *)
(* token changed, or came while the user was not the token's.               *)
NoList == [of |-> Nobody, odd |-> FALSE]
NoFetch == [of |-> Nobody, kind |-> "servers", live |-> FALSE]

TypeOK == /\ stored \in SomeUser /\ saved \in SomeUser
          /\ user \in SomeUser /\ token \in SomeUser
          /\ authed \in BOOLEAN /\ loading \in BOOLEAN
          /\ lists \in [Kinds -> [of : SomeUser, odd : BOOLEAN]]
          /\ check \in [Checks -> SomeUser]
          /\ update \in [Updates -> SomeUser]
          /\ fetch \in [Fetches -> [of : SomeUser, kind : Kinds, live : BOOLEAN]]
          /\ crossed \in BOOLEAN

Init == /\ stored = Nobody /\ saved = Nobody
        /\ user = Nobody /\ authed = FALSE /\ loading = TRUE /\ token = Nobody
        /\ lists = [k \in Kinds |-> NoList]
        /\ check = [c \in Checks |-> Nobody]
        /\ update = [p \in Updates |-> Nobody]
        /\ fetch = [f \in Fetches |-> NoFetch]
        /\ crossed = FALSE

(* The page is opened anew: nobody is shown, what was awaited is gone, and  *)
(* the session is to be checked.                                            *)
Reload == /\ user' = Nobody /\ authed' = FALSE /\ loading' = TRUE /\ token' = Nobody
          /\ lists' = [k \in Kinds |-> NoList]
          /\ check' = [c \in Checks |-> Nobody]
          /\ update' = [p \in Updates |-> Nobody]
          /\ fetch' = [f \in Fetches |-> NoFetch]
          /\ UNCHANGED <<local, crossed>>
-----------------------------------------------------------------------------
(* authToken *)
AuthToken == IF token # Nobody THEN token ELSE stored

(* What a change of the state brings about: the token is read again, the    *)
(* fetches of components that go or whose token is another one are          *)
(* cancelled, and the effect on the user's id empties the cache (setOwner). *)
Render == /\ token' = IF authed' THEN stored' ELSE Nobody
          /\ fetch' = [f \in Fetches |-> [fetch[f] EXCEPT !.live = @ /\ authed' /\ AuthToken' = fetch[f].of]]
          /\ lists' = IF user' = user THEN lists ELSE [k \in Kinds |-> NoList]

(* React renders when the state is another one. *)
RenderIfChanged == IF UNCHANGED <<user, authed, loading>>
                   THEN UNCHANGED <<token, fetch, lists>> ELSE Render

SignOut == /\ stored' = Nobody /\ saved' = Nobody
           /\ user' = Nobody /\ authed' = FALSE

(* logout, and the event "auth:unauthorized" of an answer 401. *)
Logout == /\ SignOut
          /\ UNCHANGED <<loading, check, update>>
          /\ RenderIfChanged
          /\ crossed' = FALSE

(* Slip: the user that was saved before is left as it was. *)
Bug_Login(u) == /\ stored' = u /\ authed' = TRUE
                /\ user' = IF user = Nobody THEN u ELSE user
                /\ saved' = user'
                /\ UNCHANGED <<loading, check, update>>
                /\ Render
                /\ crossed' = FALSE

(* login *)
Login(u) == /\ stored' = u /\ saved' = u
            /\ user' = u /\ authed' = TRUE
            /\ UNCHANGED <<loading, check, update>>
            /\ Render
            /\ crossed' = FALSE

(* Auth.tsx: what /api/auth/shoo answered; an error changes nothing. *)
exchangeToken(u) == Login(u)

(* Another tab signs somebody in or out: this one is not told.             *)
OtherTab == /\ stored' \in SomeUser /\ stored' # stored
            /\ saved' = stored'
            /\ crossed' = TRUE
            /\ UNCHANGED <<shown, lists, check, update, fetch>>
-----------------------------------------------------------------------------
(* checkSession, when the page opens and every minute. *)

MayCheck == loading \/ authed

CheckWithout == /\ MayCheck /\ stored = Nobody
                /\ user' = Nobody /\ authed' = FALSE /\ loading' = FALSE
                /\ RenderIfChanged
                /\ crossed' = FALSE
                /\ UNCHANGED <<local, check, update>>

(* The user saved in localStorage is shown until /api/me answers. *)
Check(c) == /\ MayCheck /\ stored # Nobody
            /\ check[c] = Nobody
            /\ check' = [check EXCEPT ![c] = stored]
            /\ IF saved = Nobody THEN UNCHANGED <<user, authed>>
               ELSE /\ user' = IF user = Nobody THEN saved ELSE user
                    /\ authed' = TRUE
            /\ UNCHANGED <<loading, local, update, crossed>>
            /\ RenderIfChanged

CheckEnds(c) == /\ check[c] # Nobody
                /\ check' = [check EXCEPT ![c] = Nobody]
                /\ loading' = FALSE
                /\ UNCHANGED update

(* An answer about user u is taken for the user's, whoever signed in since. *)
Believe(u) == /\ user' = u /\ saved' = u
              /\ UNCHANGED stored
              /\ Render

CheckAnswers(c) == /\ CheckEnds(c)
                   /\ authed' = TRUE
                   /\ Believe(check[c])
                   /\ crossed' = (stored # check[c])

(* { error }: the token is no longer good, the user is gone, or the query   *)
(* failed; or an error that says unauthorized.                              *)
CheckRefused(c) == /\ CheckEnds(c)
                   /\ SignOut
                   /\ RenderIfChanged
                   /\ crossed' = FALSE

(* Any other failure keeps the session. *)
CheckFails(c) == /\ CheckEnds(c)
                 /\ authed' = (authed \/ stored # Nobody)
                 /\ UNCHANGED <<local, user, crossed>>
                 /\ RenderIfChanged
-----------------------------------------------------------------------------
(* Changes of the profile. *)

(* handleSaveProfile, handleStatusChange, Onboarding: up to the await.      *)
Save(p) == /\ user # Nobody /\ AuthToken # Nobody
           /\ update[p] = Nobody
           /\ update' = [update EXCEPT ![p] = AuthToken]
           /\ UNCHANGED <<local, shown, lists, check, fetch, crossed>>

(* updateUser with the answer, or nothing of it. *)
Saved(p) == /\ update[p] # Nobody
            /\ update' = [update EXCEPT ![p] = Nobody]
            /\ \/ /\ UNCHANGED <<authed, loading, check>>
                  /\ Believe(update[p])
                  /\ crossed' = (crossed \/ stored # update[p])
               \/ UNCHANGED <<local, shown, lists, check, fetch, crossed>>
-----------------------------------------------------------------------------
(* The lists of the sidebars and the inbox. *)

(* The components behind ProtectedRoute fetch what is not cached. *)
Fetch(f, k) == /\ authed /\ ~loading
               /\ AuthToken # Nobody
               /\ k = "dms" => token # Nobody
               /\ lists[k] = NoList
               /\ fetch[f] = NoFetch
               /\ fetch' = [fetch EXCEPT ![f] = [of |-> AuthToken, kind |-> k, live |-> TRUE]]
               /\ UNCHANGED <<local, shown, lists, check, update, crossed>>

(* setServers, setDms: unless the effect was cancelled; setServerChannels:  *)
(* in any case.                                                             *)
Fetched(f) ==
    /\ fetch[f] # NoFetch
    /\ fetch' = [fetch EXCEPT ![f] = NoFetch]
    /\ \/ /\ fetch[f].live \/ fetch[f].kind = "channels"
          /\ lists' = [lists EXCEPT ![fetch[f].kind] =
                          [of |-> fetch[f].of, odd |-> crossed \/ ~fetch[f].live]]
       \/ UNCHANGED lists
    /\ UNCHANGED <<local, shown, check, update, crossed>>

Next == \/ Reload \/ Logout \/ OtherTab \/ CheckWithout
        \/ \E u \in Users : exchangeToken(u)
        \/ \E c \in Checks : Check(c) \/ CheckAnswers(c) \/ CheckRefused(c) \/ CheckFails(c)
        \/ \E p \in Updates : Save(p) \/ Saved(p)
        \/ \E f \in Fetches : Fetched(f) \/ \E k \in Kinds : Fetch(f, k)

Spec == Init /\ [][Next]_vars
-----------------------------------------------------------------------------
(* Who is shown is whose token is stored, and nobody is signed in without   *)
(* one, but after an answer that another session had asked for, or a        *)
(* sign-in in another tab; and then until the next check is answered.       *)
ShowsTokensUser == ~crossed => /\ user \in {Nobody, stored}
                               /\ stored # Nobody => saved = stored
                               /\ authed => stored # Nobody

(* The cache holds nobody's lists but those of the user that is shown, or   *)
(* of a fetch that outlived its token or came in such a time.               *)
CachesOwnLists == \A k \in Kinds : lists[k].of \in {Nobody, user} \/ lists[k].odd

SessionHolds == ShowsTokensUser /\ CachesOwnLists
=============================================================================
