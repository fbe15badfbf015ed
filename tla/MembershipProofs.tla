-------------------------- MODULE MembershipProofs --------------------------
(* Proofs about the membership of a server, for any users, invites and      *)
(* handlers.                                                                *)
EXTENDS Membership, TLAPS

(***************************************************************************)
(* The argument: an accept that is about to join holds the invite's row    *)
(* and the server's, so no other accept uses the invite, no ban commits    *)
(* and no delete cascades until it ends; a ban of /bans holds a share of   *)
(* the server's row until it commits.  ReqInv(r, q) is what handler r      *)
(* relies on in state q.                                                   *)
(***************************************************************************)
HoldsInvite(r, q) == q.kind = "accept" /\ q.next \in {"server", "check", "join"} =>
                        alive /\ inviteLock[q.code] = r

HoldsServer(r, q) == \/ q.kind = "accept" /\ q.next \in {"check", "join"}
                     \/ q.next = "cascade"
                     => serverLock = r

HoldsShare(r, q) == q.kind = "txBan" /\ q.next \in {"remove", "commit"} =>
                       alive /\ r \in serverShare

CodeKnown(q) == /\ q.kind = "accept" => q.code \in Codes /\ invites[q.code].state # "none"
                /\ q.kind = "mint" => q.code \in Codes /\ invites[q.code].state = "none"

MayJoin(q) == q.kind = "accept" /\ q.next = "join" =>
                 /\ invites[q.code].max > 0 => invites[q.code].uses < invites[q.code].max
                 /\ q.user \notin bans

(* Whoever is a member while a handler is about to ban them is excused. *)
Excused(q) == /\ q.kind = "ban" /\ q.next \in {"roles", "ban"} /\ q.user \in members
                    => q.user \in raced \union entered
              /\ q.kind = "txBan" /\ q.next = "commit" /\ q.user \in members
                    => q.user \in entered
              /\ q.kind = "login" => Default

ReqInv(r, q) == /\ HoldsInvite(r, q) /\ HoldsServer(r, q) /\ HoldsShare(r, q)
                /\ CodeKnown(q) /\ MayJoin(q) /\ Excused(q)

ServerExclusive == serverLock # NoReq => serverShare = {}

MintsUnique == \A r, s \in Reqs : /\ req[r].kind = "mint"
                                  /\ req[s].kind = "mint"
                                  /\ req[r].code = req[s].code
                                  => r = s

TableInv == UsesWithinMax /\ OnlyByLogin /\ BannedMembersRaced /\ NothingAfterDelete

IInv == /\ TypeOK
        /\ ServerExclusive
        /\ MintsUnique
        /\ TableInv
        /\ \A r \in Reqs : ReqInv(r, req[r])

LEMMA IdleInv == \A r \in Reqs : ReqInv(r, Idle)
  BY DEF Idle, ReqInv, HoldsInvite, HoldsServer, HoldsShare, CodeKnown, MayJoin, Excused

LEMMA InitIInv == Init => IInv
<1> SUFFICES ASSUME Init PROVE IInv
  OBVIOUS
<1>1. TypeOK
  BY OwnerAssumption, MaxAssumption DEF Init, TypeOK, NoInvite, Invite
<1>2. \A r \in Reqs : req[r] = Idle
  BY DEF Init
<1>3. ServerExclusive /\ MintsUnique
  BY <1>2 DEF Init, ServerExclusive, MintsUnique, Idle
<1>4. TableInv
  BY MaxAssumption DEF Init, NoInvite, TableInv, UsesWithinMax, OnlyByLogin,
     BannedMembersRaced, NothingAfterDelete
<1> QED
  BY <1>1, <1>2, <1>3, <1>4, IdleInv DEF IInv

(* A handler that runs has a record of its own. *)
LEMMA RunningHandler == ASSUME TypeOK, NEW r \in Reqs, req[r] # Idle
                        PROVE  req[r] \in Running
  BY DEF TypeOK

(***************************************************************************)
(* What a step of handler r leaves alone for the others, in most steps.    *)
(***************************************************************************)
LocksKept(r) == \A s \in Reqs \ {r} :
                   /\ \A c \in Codes : inviteLock[c] = s => inviteLock'[c] = s
                   /\ serverLock = s => serverLock' = s
                   /\ s \in serverShare => s \in serverShare'

Calm == /\ alive' = alive
        /\ invites' = invites
        /\ bans' = bans
        /\ members' \subseteq members
        /\ raced \intersect members' \subseteq raced'
        /\ entered \intersect members' \subseteq entered'
        /\ entered' \subseteq entered

LEMMA OthersStay ==
    ASSUME NEW r \in Reqs, LocksKept(r), Calm,
           NEW s \in Reqs \ {r}, NEW q, ReqInv(s, q)
    PROVE  ReqInv(s, q)'
<1>1. CodeKnown(q)' /\ MayJoin(q)' /\ Excused(q)'
  BY DEF Calm, ReqInv, CodeKnown, MayJoin, Excused
<1>2. HoldsInvite(s, q)'
  BY DEF Calm, LocksKept, ReqInv, HoldsInvite, CodeKnown
<1>3. HoldsServer(s, q)' /\ HoldsShare(s, q)'
  BY DEF Calm, LocksKept, ReqInv, HoldsServer, HoldsShare
<1> QED
  BY <1>1, <1>2, <1>3 DEF ReqInv

LEMMA CalmTables == ASSUME TableInv, Calm PROVE TableInv'
  BY DEF TableInv, Calm, UsesWithinMax, OnlyByLogin, BannedMembersRaced,
         NothingAfterDelete

(* Handler r goes to x, which mints only what nobody else does. *)
LEMMA MintsStay ==
    ASSUME IInv, NEW r \in Reqs, NEW x,
           req' = [req EXCEPT ![r] = x],
           x.kind = "mint" => \A s \in Reqs \ {r} : ~(req[s].kind = "mint" /\ req[s].code = x.code)
    PROVE  MintsUnique'
<1>1. \A s \in Reqs : req'[s] = IF s = r THEN x ELSE req[s]
  BY DEF IInv, TypeOK
<1> QED
  BY <1>1 DEF IInv, MintsUnique

LEMMA AnyStep ==
    ASSUME IInv, TypeOK', NEW r \in Reqs, NEW x,
           req' = [req EXCEPT ![r] = x],
           x.kind = "mint" => \A s \in Reqs \ {r} : ~(req[s].kind = "mint" /\ req[s].code = x.code),
           ServerExclusive', TableInv', ReqInv(r, x)',
           \A s \in Reqs \ {r} : \A q \in Running \union {Idle} : q = req[s] => ReqInv(s, q)'
    PROVE  IInv'
<1>1. \A s \in Reqs : req'[s] = IF s = r THEN x ELSE req[s]
  BY DEF IInv, TypeOK
<1>2. ASSUME NEW s \in Reqs PROVE ReqInv(s, req[s])'
  <2>1. CASE s = r
    BY <1>1, <2>1
  <2>2. CASE s # r
    <3>1. PICK q \in Running \union {Idle} : q = req[s]
      BY DEF IInv, TypeOK
    <3>2. ReqInv(s, q)'
      BY <2>2, <3>1
    <3>3. q = req'[s]
      BY <1>1, <2>2, <3>1
    <3> QED
      BY <3>2, <3>3
  <2> QED
    BY <2>1, <2>2
<1>3. MintsUnique'
  BY MintsStay
<1> QED
  BY <1>2, <1>3 DEF IInv

LEMMA CalmStep ==
    ASSUME IInv, TypeOK', NEW r \in Reqs, NEW x,
           req' = [req EXCEPT ![r] = x],
           x.kind = "mint" => \A s \in Reqs \ {r} : ~(req[s].kind = "mint" /\ req[s].code = x.code),
           LocksKept(r), Calm, ServerExclusive', ReqInv(r, x)'
    PROVE  IInv'
<1>1. TableInv'
  BY CalmTables DEF IInv
<1>2. \A s \in Reqs \ {r} : \A q \in Running \union {Idle} : q = req[s] => ReqInv(s, q)'
  BY OthersStay DEF IInv
<1> QED
  BY <1>1, <1>2, AnyStep

(* Handler r ends and its transaction with it. *)
LEMMA EndStep ==
    ASSUME IInv, TypeOK', NEW r \in Reqs, End(r), Release(r), Calm
    PROVE  IInv'
<1>1. LocksKept(r)
  BY DEF Release, LocksKept
<1>2. ServerExclusive'
  BY DEF IInv, ServerExclusive, Release
<1>3. ReqInv(r, Idle)'
  BY DEF Idle, ReqInv, HoldsInvite, HoldsServer, HoldsShare, CodeKnown, MayJoin, Excused
<1>4. Idle.kind # "mint"
  BY DEF Idle
<1> HIDE DEF Idle, Calm
<1> QED
  BY <1>1, <1>2, <1>3, <1>4, CalmStep DEF End
-----------------------------------------------------------------------------
(* Steps that leave tables and locks alone. *)

LEMMA QuietStep ==
    ASSUME IInv, NEW r \in Reqs, NEW x \in Running,
           req' = [req EXCEPT ![r] = x],
           UNCHANGED <<tables, locks, history>>,
           x.kind = "mint" => \A s \in Reqs \ {r} : ~(req[s].kind = "mint" /\ req[s].code = x.code),
           ReqInv(r, x)
    PROVE  IInv'
<1>1. TypeOK'
  BY DEF IInv, TypeOK, tables, locks, history
<1>2. LocksKept(r) /\ Calm
  BY DEF LocksKept, Calm, tables, locks, history
<1>3. ServerExclusive'
  BY DEF IInv, ServerExclusive, locks
<1>4. ReqInv(r, x)'
  BY DEF tables, locks, history, ReqInv, HoldsInvite, HoldsServer, HoldsShare, CodeKnown,
         MayJoin, Excused
<1> QED
  BY <1>1, <1>2, <1>3, <1>4, CalmStep

LEMMA StartStep ==
    ASSUME IInv, NEW r \in Reqs, NEW kind \in Kinds, NEW next \in Steps,
           NEW u \in Users, NEW c \in Codes \union {NoCode},
           Start(r, kind, next, u, c),
           UNCHANGED <<tables, locks, history>>,
           kind = "mint" => \A s \in Reqs \ {r} : ~(req[s].kind = "mint" /\ req[s].code = c),
           ReqInv(r, [kind |-> kind, next |-> next, user |-> u, code |-> c])
    PROVE  IInv'
<1> DEFINE x == [kind |-> kind, next |-> next, user |-> u, code |-> c]
<1>1. x \in Running /\ x.kind = kind /\ x.code = c
  BY DEF Running
<1>2. req' = [req EXCEPT ![r] = x]
  BY DEF Start
<1> HIDE DEF x
<1> QED
  BY <1>1, <1>2, QuietStep DEF x

LEMMA GotoStep ==
    ASSUME IInv, NEW r \in Reqs, NEW next \in Steps,
           req[r] # Idle, req[r].kind # "mint", Goto(r, next),
           UNCHANGED <<tables, locks, history>>,
           ReqInv(r, [req[r] EXCEPT !.next = next])
    PROVE  IInv'
<1>1. req[r] \in Running
  BY RunningHandler DEF IInv
<1>2. PICK x : x = [req[r] EXCEPT !.next = next]
  OBVIOUS
<1>3. x \in Running /\ x.kind # "mint"
  BY <1>1, <1>2 DEF Running
<1>4. req' = [req EXCEPT ![r] = x]
  BY <1>2 DEF Goto
<1> QED
  BY <1>2, <1>3, <1>4, QuietStep

(* Unfolds what a handler relies on when it starts. *)
LEMMA StartInv ==
    ASSUME NEW r \in Reqs, NEW kind, NEW next, NEW u, NEW c,
           <<kind, next>> \in {<<"leave", "member">>, <<"kick", "member">>, <<"ban", "member">>,
                               <<"txBan", "insert">>, <<"delete", "drop">>}
    PROVE  ReqInv(r, [kind |-> kind, next |-> next, user |-> u, code |-> c])
  BY DEF ReqInv, HoldsInvite, HoldsServer, HoldsShare, CodeKnown, MayJoin, Excused

LEMMA StartsStep ==
    ASSUME IInv, NEW r \in Reqs, NEW u \in Users,
           LeaveStart(r, u) \/ KickStart(r, u) \/ BanStart(r, u) \/ TxBanStart(r, u)
             \/ DeleteStart(r)
    PROVE  IInv'
<1> USE OwnerAssumption DEF Kinds, Steps
<1>1. CASE LeaveStart(r, u)
  <2>1. ReqInv(r, [kind |-> "leave", next |-> "member", user |-> u, code |-> NoCode])
    BY StartInv
  <2> QED
    BY <1>1, <2>1, StartStep DEF LeaveStart
<1>2. CASE KickStart(r, u)
  <2>1. ReqInv(r, [kind |-> "kick", next |-> "member", user |-> u, code |-> NoCode])
    BY StartInv
  <2> QED
    BY <1>2, <2>1, StartStep DEF KickStart
<1>3. CASE BanStart(r, u)
  <2>1. ReqInv(r, [kind |-> "ban", next |-> "member", user |-> u, code |-> NoCode])
    BY StartInv
  <2> QED
    BY <1>3, <2>1, StartStep DEF BanStart
<1>4. CASE TxBanStart(r, u)
  <2>1. ReqInv(r, [kind |-> "txBan", next |-> "insert", user |-> u, code |-> NoCode])
    BY StartInv
  <2> QED
    BY <1>4, <2>1, StartStep DEF TxBanStart
<1>5. CASE DeleteStart(r)
  <2>1. ReqInv(r, [kind |-> "delete", next |-> "drop", user |-> Owner, code |-> NoCode])
    BY StartInv
  <2> QED
    BY <1>5, <2>1, StartStep DEF DeleteStart
<1> QED
  BY <1>1, <1>2, <1>3, <1>4, <1>5

LEMMA LoginStartStep ==
    ASSUME IInv, NEW r \in Reqs, NEW u \in Users, LoginStart(r, u)
    PROVE  IInv'
<1>1. ReqInv(r, [kind |-> "login", next |-> "enter", user |-> u, code |-> NoCode])
  BY DEF LoginStart, ReqInv, HoldsInvite, HoldsServer, HoldsShare, CodeKnown, MayJoin, Excused
<1>2. "login" \in Kinds /\ "enter" \in Steps
  BY DEF Kinds, Steps
<1> QED
  BY <1>1, <1>2, StartStep DEF LoginStart

LEMMA AcceptStartStep ==
    ASSUME IInv, NEW r \in Reqs, NEW u \in Users, NEW c \in Codes, AcceptStart(r, u, c)
    PROVE  IInv'
<1>1. ReqInv(r, [kind |-> "accept", next |-> "invite", user |-> u, code |-> c])
  BY DEF AcceptStart, ReqInv, HoldsInvite, HoldsServer, HoldsShare, CodeKnown, MayJoin, Excused
<1>2. "accept" \in Kinds /\ "invite" \in Steps
  BY DEF Kinds, Steps
<1> QED
  BY <1>1, <1>2, StartStep DEF AcceptStart

LEMMA MintStartStep ==
    ASSUME IInv, NEW r \in Reqs, NEW u \in Users, NEW c \in Codes, MintStart(r, u, c)
    PROVE  IInv'
<1>1. ReqInv(r, [kind |-> "mint", next |-> "insert", user |-> u, code |-> c])
  BY DEF MintStart, ReqInv, HoldsInvite, HoldsServer, HoldsShare, CodeKnown, MayJoin, Excused
<1>2. "mint" \in Kinds /\ "insert" \in Steps
  BY DEF Kinds, Steps
<1> QED
  BY <1>1, <1>2, StartStep DEF MintStart

LEMMA CountStep ==
    ASSUME IInv, NEW r \in Reqs, CountMembers(r) \/ CountInvites(r)
    PROVE  IInv'
<1>1. req[r] # Idle /\ req[r].kind = "leave" /\ req[r].kind # "mint"
  BY DEF CountMembers, CountInvites, At, Idle
<1>2. ASSUME NEW next \in {"invites", "drop"} PROVE ReqInv(r, [req[r] EXCEPT !.next = next])
  <2>1. req[r] \in Running
    BY <1>1, RunningHandler DEF IInv
  <2> QED
    BY <1>1, <1>2, <2>1 DEF Running, ReqInv, HoldsInvite, HoldsServer, HoldsShare, CodeKnown,
                           MayJoin, Excused
<1>3. CASE Goto(r, "invites") \/ Goto(r, "drop")
  <2>1. "invites" \in Steps /\ "drop" \in Steps
    BY DEF Steps
  <2>2. UNCHANGED <<tables, locks, history>>
    BY DEF CountMembers, CountInvites
  <2> QED
    BY <1>1, <1>2, <1>3, <2>1, <2>2, GotoStep
<1>4. CASE End(r)
  <2>1. UNCHANGED <<tables, locks, history>>
    BY DEF CountMembers, CountInvites
  <2>2. TypeOK'
    BY <1>4, <2>1 DEF IInv, TypeOK, End, tables, locks, history
  <2>3. ServerExclusive' /\ LocksKept(r) /\ Calm
    BY <2>1 DEF IInv, ServerExclusive, LocksKept, Calm, tables, locks, history
  <2>4. ReqInv(r, Idle)' /\ Idle.kind # "mint"
    BY DEF Idle, ReqInv, HoldsInvite, HoldsServer, HoldsShare, CodeKnown, MayJoin, Excused
  <2> HIDE DEF Idle
  <2> QED
    BY <1>4, <2>2, <2>3, <2>4, CalmStep DEF End
<1> QED
  BY <1>3, <1>4 DEF CountMembers, CountInvites
-----------------------------------------------------------------------------
(* Steps that take a lock, end a handler or remove members. *)

LEMMA EndsStep ==
    ASSUME IInv, NEW r \in Reqs, Fail(r) \/ DeadlockAbort(r)
    PROVE  IInv'
<1>1. End(r) /\ Release(r) /\ UNCHANGED <<tables, history>>
  BY DEF Fail, DeadlockAbort
<1>2. TypeOK'
  BY <1>1 DEF IInv, TypeOK, End, Release, tables, history
<1>3. Calm
  BY <1>1 DEF Calm, tables, history
<1> QED
  BY <1>1, <1>2, <1>3, EndStep

LEMMA AcceptInviteStep ==
    ASSUME IInv, NEW r \in Reqs, AcceptInvite(r)
    PROVE  IInv'
<1>1. PICK q : q = req[r]
  OBVIOUS
<1>2. q \in Running /\ q.kind = "accept" /\ q.next = "invite"
  BY <1>1, RunningHandler DEF IInv, AcceptInvite, At, Idle
<1>3. q.code \in Codes /\ invites[q.code].state # "none"
  BY <1>1, <1>2 DEF IInv, ReqInv, CodeKnown
<1>4. UNCHANGED <<tables, serverLock, serverShare, history>> /\ inviteLock[q.code] = NoReq
  BY <1>1 DEF AcceptInvite
<1>5. ServerExclusive' /\ Calm
  BY <1>4 DEF IInv, ServerExclusive, Calm, tables, history
<1>6. CASE alive
  <2>1. PICK x : x = [q EXCEPT !.next = "server"]
    OBVIOUS
  <2>2. x \in Running /\ x.kind = "accept" /\ x.next = "server" /\ x.code = q.code
    BY <1>2, <2>1 DEF Running, Steps
  <2>3. inviteLock' = [inviteLock EXCEPT ![q.code] = r] /\ req' = [req EXCEPT ![r] = x]
    BY <1>1, <1>6, <2>1 DEF AcceptInvite, Goto
  <2>4. TypeOK'
    BY <1>4, <2>2, <2>3 DEF IInv, TypeOK, tables, history
  <2>5. LocksKept(r)
    BY <1>3, <1>4, <2>3, NoReqAssumption DEF IInv, TypeOK, LocksKept
  <2>6. ReqInv(r, x)'
    BY <1>3, <1>4, <1>6, <2>2, <2>3 DEF IInv, TypeOK, tables, ReqInv, HoldsInvite, HoldsServer,
       HoldsShare, CodeKnown, MayJoin, Excused
  <2> QED
    BY <1>5, <2>2, <2>3, <2>4, <2>5, <2>6, CalmStep
<1>7. CASE ~alive
  <2>1. req' = [req EXCEPT ![r] = Idle] /\ UNCHANGED inviteLock
    BY <1>7 DEF AcceptInvite, End
  <2>2. TypeOK'
    BY <1>4, <2>1 DEF IInv, TypeOK, tables, history
  <2>3. LocksKept(r)
    BY <1>4, <2>1 DEF LocksKept
  <2>4. ReqInv(r, Idle)' /\ Idle.kind # "mint"
    BY DEF Idle, ReqInv, HoldsInvite, HoldsServer, HoldsShare, CodeKnown, MayJoin, Excused
  <2> HIDE DEF Idle
  <2> QED
    BY <1>5, <2>1, <2>2, <2>3, <2>4, CalmStep
<1> QED
  BY <1>6, <1>7

LEMMA AcceptServerStep ==
    ASSUME IInv, NEW r \in Reqs, AcceptServer(r)
    PROVE  IInv'
<1>1. PICK q : q = req[r]
  OBVIOUS
<1>2. q \in Running /\ q.kind = "accept" /\ q.next = "server"
  BY <1>1, RunningHandler DEF IInv, AcceptServer, At, Idle
<1>3. ReqInv(r, q)
  BY <1>1 DEF IInv
<1>4. PICK x : x = [q EXCEPT !.next = "check"]
  OBVIOUS
<1>5. x \in Running /\ x.kind = "accept" /\ x.next = "check" /\ x.code = q.code
  BY <1>2, <1>4 DEF Running, Steps
<1>6. /\ serverLock = NoReq /\ serverShare = {} /\ serverLock' = r
      /\ req' = [req EXCEPT ![r] = x]
      /\ UNCHANGED <<tables, inviteLock, serverShare, history>>
  BY <1>1, <1>4 DEF AcceptServer, Goto
<1>7. TypeOK'
  BY <1>5, <1>6 DEF IInv, TypeOK, tables, history
<1>8. ServerExclusive' /\ Calm /\ LocksKept(r)
  BY <1>6, NoReqAssumption DEF ServerExclusive, Calm, LocksKept, tables, history
<1>9. ReqInv(r, x)'
  BY <1>2, <1>3, <1>5, <1>6 DEF tables, ReqInv, HoldsInvite, HoldsServer,
     HoldsShare, CodeKnown, MayJoin, Excused
<1> QED
  BY <1>5, <1>6, <1>7, <1>8, <1>9, CalmStep

LEMMA AcceptCheckStep ==
    ASSUME IInv, NEW r \in Reqs, AcceptCheck(r)
    PROVE  IInv'
<1>1. req[r] \in Running /\ req[r].kind = "accept" /\ req[r].next = "check"
  BY RunningHandler DEF IInv, AcceptCheck, At, Idle
<1>2. ReqInv(r, req[r])
  BY DEF IInv
<1>3. CASE Goto(r, "join")
  <2>1. req' # [req EXCEPT ![r] = Idle]
    BY <1>1, <1>3 DEF IInv, TypeOK, Goto, Running, Idle
  <2>2. /\ UNCHANGED <<tables, locks, history>>
        /\ invites[req[r].code].max > 0 => invites[req[r].code].uses < invites[req[r].code].max
        /\ req[r].user \notin bans
    BY <2>1 DEF AcceptCheck, End
  <2>3. ReqInv(r, [req[r] EXCEPT !.next = "join"])
    BY <1>1, <1>2, <2>2 DEF Running, ReqInv, HoldsInvite, HoldsServer, HoldsShare, CodeKnown,
       MayJoin, Excused
  <2>4. "join" \in Steps /\ req[r] # Idle
    BY <1>1 DEF Steps, Idle
  <2> QED
    BY <1>1, <1>3, <2>2, <2>3, <2>4, GotoStep
<1>4. CASE End(r) /\ Release(r)
  <2>1. UNCHANGED <<tables, history>>
    BY DEF AcceptCheck
  <2>2. TypeOK'
    BY <1>4, <2>1 DEF IInv, TypeOK, End, Release, tables, history
  <2>3. Calm
    BY <2>1 DEF Calm, tables, history
  <2> QED
    BY <1>4, <2>2, <2>3, EndStep
<1> QED
  BY <1>3, <1>4 DEF AcceptCheck

LEMMA DeleteMemberStep ==
    ASSUME IInv, NEW r \in Reqs, DeleteMember(r)
    PROVE  IInv'
<1>1. PICK q : q = req[r]
  OBVIOUS
<1>2. q \in Running /\ q.kind \in {"leave", "kick", "ban"} /\ q.next = "member"
  BY <1>1, RunningHandler DEF IInv, DeleteMember, Idle
<1>3. PICK x : x = [q EXCEPT !.next = "roles"]
  OBVIOUS
<1>4. x \in Running /\ x.kind = q.kind /\ x.next = "roles" /\ x.user = q.user
  BY <1>2, <1>3 DEF Running, Steps
<1>5. /\ members' = members \ {q.user}
      /\ req' = [req EXCEPT ![r] = x]
      /\ raced' = raced \ {q.user} /\ entered' = entered \ {q.user}
      /\ UNCHANGED <<alive, bans, invites, locks>>
  BY <1>1, <1>3 DEF DeleteMember, Forget, Goto
<1>6. TypeOK'
  BY <1>4, <1>5 DEF IInv, TypeOK, locks
<1>7. ServerExclusive' /\ Calm /\ LocksKept(r)
  BY <1>5 DEF IInv, ServerExclusive, Calm, LocksKept, locks
<1>8. ReqInv(r, x)'
  BY <1>2, <1>4, <1>5 DEF ReqInv, HoldsInvite, HoldsServer, HoldsShare, CodeKnown, MayJoin, Excused
<1> QED
  BY <1>2, <1>4, <1>5, <1>6, <1>7, <1>8, CalmStep

LEMMA DeleteRolesStep ==
    ASSUME IInv, NEW r \in Reqs, DeleteRoles(r)
    PROVE  IInv'
<1>1. PICK q : q = req[r]
  OBVIOUS
<1>2. q \in Running /\ q.kind \in {"leave", "kick", "ban"} /\ q.next = "roles" /\ q # Idle
  BY <1>1, RunningHandler DEF IInv, DeleteRoles, Idle
<1>3. ReqInv(r, q)
  BY <1>1 DEF IInv
<1>4. UNCHANGED <<tables, locks, history>>
  BY DEF DeleteRoles, tables
<1>5. CASE q.kind = "kick"
  <2>1. req' = [req EXCEPT ![r] = Idle]
    BY <1>1, <1>5 DEF DeleteRoles, End
  <2>2. TypeOK'
    BY <1>4, <2>1 DEF IInv, TypeOK, tables, locks, history
  <2>3. ServerExclusive' /\ LocksKept(r) /\ Calm
    BY <1>4 DEF IInv, ServerExclusive, LocksKept, Calm, tables, locks, history
  <2>4. ReqInv(r, Idle)' /\ Idle.kind # "mint"
    BY DEF Idle, ReqInv, HoldsInvite, HoldsServer, HoldsShare, CodeKnown, MayJoin, Excused
  <2> HIDE DEF Idle
  <2> QED
    BY <2>1, <2>2, <2>3, <2>4, CalmStep
<1>6. CASE q.kind = "leave"
  <2>1. Goto(r, "members") /\ "members" \in Steps
    BY <1>1, <1>6 DEF DeleteRoles, Steps
  <2>2. ReqInv(r, [q EXCEPT !.next = "members"])
    BY <1>2, <1>6 DEF Running, ReqInv, HoldsInvite, HoldsServer, HoldsShare, CodeKnown, MayJoin,
       Excused
  <2> QED
    BY <1>1, <1>2, <1>4, <2>1, <2>2, GotoStep
<1>7. CASE q.kind = "ban"
  <2>1. Goto(r, "ban") /\ "ban" \in Steps
    BY <1>1, <1>7 DEF DeleteRoles, Steps
  <2>2. ReqInv(r, [q EXCEPT !.next = "ban"])
    BY <1>2, <1>3, <1>7 DEF Running, ReqInv, HoldsInvite, HoldsServer, HoldsShare, CodeKnown,
       MayJoin, Excused
  <2> QED
    BY <1>1, <1>2, <1>4, <2>1, <2>2, GotoStep
<1> QED
  BY <1>2, <1>5, <1>6, <1>7

LEMMA DropStep ==
    ASSUME IInv, NEW r \in Reqs, Drop(r)
    PROVE  IInv'
<1>1. PICK q : q = req[r]
  OBVIOUS
<1>2. q \in Running /\ q.next = "drop"
  BY <1>1, RunningHandler DEF IInv, Drop, Idle
<1>3. serverLock = NoReq /\ serverShare = {} /\ UNCHANGED <<tables, inviteLock, serverShare, history>>
  BY DEF Drop
<1>4. CASE alive
  <2>1. PICK x : x = [q EXCEPT !.next = "cascade"]
    OBVIOUS
  <2>2. x \in Running /\ x.kind = q.kind /\ x.next = "cascade" /\ x.code = q.code
    BY <1>2, <2>1 DEF Running, Steps
  <2>3. serverLock' = r /\ req' = [req EXCEPT ![r] = x]
    BY <1>1, <1>4, <2>1 DEF Drop, Goto
  <2>4. TypeOK'
    BY <1>3, <2>2, <2>3 DEF IInv, TypeOK, tables, history
  <2>5. ServerExclusive' /\ Calm /\ LocksKept(r)
    BY <1>3, <2>3, NoReqAssumption DEF ServerExclusive, Calm, LocksKept, tables, history
  <2>6. ReqInv(r, q)
    BY <1>1 DEF IInv
  <2>7. ReqInv(r, x)'
    BY <1>3, <2>2, <2>3, <2>6 DEF tables, ReqInv, HoldsInvite, HoldsServer, HoldsShare, CodeKnown,
       MayJoin, Excused
  <2>8. x.kind = "mint" => \A s \in Reqs \ {r} : ~(req[s].kind = "mint" /\ req[s].code = x.code)
    BY <1>1, <2>2 DEF IInv, MintsUnique
  <2> QED
    BY <2>2, <2>3, <2>4, <2>5, <2>7, <2>8, CalmStep
<1>5. CASE ~alive
  <2>1. req' = [req EXCEPT ![r] = Idle] /\ UNCHANGED serverLock
    BY <1>5 DEF Drop, End
  <2>2. TypeOK'
    BY <1>3, <2>1 DEF IInv, TypeOK, tables, history
  <2>3. ServerExclusive' /\ LocksKept(r) /\ Calm
    BY <1>3, <2>1 DEF IInv, ServerExclusive, LocksKept, Calm, tables, history
  <2>4. ReqInv(r, Idle)' /\ Idle.kind # "mint"
    BY DEF Idle, ReqInv, HoldsInvite, HoldsServer, HoldsShare, CodeKnown, MayJoin, Excused
  <2> HIDE DEF Idle
  <2> QED
    BY <2>1, <2>2, <2>3, <2>4, CalmStep
<1> QED
  BY <1>4, <1>5

LEMMA TxBanInsertStep ==
    ASSUME IInv, NEW r \in Reqs, TxBanInsert(r)
    PROVE  IInv'
<1>1. PICK q : q = req[r]
  OBVIOUS
<1>2. q \in Running /\ q.kind = "txBan" /\ q.next = "insert"
  BY <1>1, RunningHandler DEF IInv, TxBanInsert, At, Idle
<1>3. UNCHANGED <<tables, inviteLock, serverLock, history>> /\ (alive => serverLock = NoReq)
  BY DEF TxBanInsert, MayReference
<1>4. Calm
  BY <1>3 DEF Calm, tables, history
<1>5. CASE alive
  <2>1. PICK x : x = [q EXCEPT !.next = IF q.user \in members THEN "remove" ELSE "commit"]
    OBVIOUS
  <2>2. /\ x \in Running /\ x.kind = "txBan" /\ x.user = q.user
        /\ x.next = IF q.user \in members THEN "remove" ELSE "commit"
    BY <1>2, <2>1 DEF Running, Steps
  <2>3. serverShare' = serverShare \union {r} /\ req' = [req EXCEPT ![r] = x]
    BY <1>1, <1>5, <2>1 DEF TxBanInsert, Goto
  <2>4. TypeOK'
    BY <1>3, <2>2, <2>3 DEF IInv, TypeOK, tables, history
  <2>5. ServerExclusive' /\ LocksKept(r)
    BY <1>3, <1>5, <2>3 DEF ServerExclusive, LocksKept
  <2>6. ReqInv(r, x)'
    BY <1>3, <1>5, <2>2, <2>3 DEF tables, ReqInv, HoldsInvite, HoldsServer, HoldsShare, CodeKnown,
       MayJoin, Excused
  <2> QED
    BY <1>4, <2>2, <2>3, <2>4, <2>5, <2>6, CalmStep
<1>6. CASE ~alive
  <2>1. req' = [req EXCEPT ![r] = Idle] /\ UNCHANGED serverShare
    BY <1>6 DEF TxBanInsert, End
  <2>2. TypeOK'
    BY <1>3, <2>1 DEF IInv, TypeOK, tables, history
  <2>3. ServerExclusive' /\ LocksKept(r)
    BY <1>3, <2>1 DEF IInv, ServerExclusive, LocksKept
  <2>4. ReqInv(r, Idle)' /\ Idle.kind # "mint"
    BY DEF Idle, ReqInv, HoldsInvite, HoldsServer, HoldsShare, CodeKnown, MayJoin, Excused
  <2> HIDE DEF Idle
  <2> QED
    BY <1>4, <2>1, <2>2, <2>3, <2>4, CalmStep
<1> QED
  BY <1>5, <1>6
-----------------------------------------------------------------------------
(* The steps that let a table grow, and the cascade. *)

LEMMA AcceptJoinStep ==
    ASSUME IInv, NEW r \in Reqs, AcceptJoin(r)
    PROVE  IInv'
<1>1. PICK p : p = req[r]
  OBVIOUS
<1>2. p \in Running /\ p.kind = "accept" /\ p.next = "join"
  BY <1>1, RunningHandler DEF IInv, AcceptJoin, At, Idle
<1>3. ReqInv(r, p)
  BY <1>1 DEF IInv
<1>4. /\ alive /\ serverLock = r /\ p.code \in Codes /\ p.user \in Users
      /\ invites[p.code].max > 0 => invites[p.code].uses < invites[p.code].max
      /\ p.user \notin bans
  BY <1>2, <1>3 DEF Running, ReqInv, HoldsInvite, HoldsServer, CodeKnown, MayJoin
<1>5. /\ members' = members \union {p.user}
      /\ invites' = [invites EXCEPT ![p.code].uses = @ + 1]
      /\ raced' = IF p.user \notin bans /\ OwnerBans(p.user)
                  THEN raced \union {p.user} ELSE raced
      /\ req' = [req EXCEPT ![r] = Idle]
      /\ Release(r)
      /\ UNCHANGED <<alive, bans, entered>>
  BY <1>1 DEF AcceptJoin, End
<1>6. /\ \A c \in Codes : invites[c].uses \in Nat /\ invites[c].max \in 0..MaxMax
      /\ \A c \in Codes : invites'[c].state = invites[c].state /\ invites'[c].max = invites[c].max
      /\ \A c \in Codes : invites'[c].uses = IF c = p.code THEN invites[c].uses + 1 ELSE invites[c].uses
  BY <1>4, <1>5 DEF IInv, TypeOK, Invite
<1>7. TypeOK'
  <2>1. invites' \in [Codes -> Invite]
    BY <1>4, <1>5 DEF IInv, TypeOK, Invite
  <2>2. members' \in SUBSET Users /\ raced' \in SUBSET Users
    BY <1>4, <1>5 DEF IInv, TypeOK
  <2>3. req' \in [Reqs -> Running \union {Idle}]
    BY <1>5 DEF IInv, TypeOK
  <2>4. /\ inviteLock' \in [Codes -> Reqs \union {NoReq}]
        /\ serverLock' \in Reqs \union {NoReq}
        /\ serverShare' \in SUBSET Reqs
    BY <1>5 DEF IInv, TypeOK, Release
  <2> QED
    BY <1>5, <2>1, <2>2, <2>3, <2>4 DEF IInv, TypeOK
<1>8. ServerExclusive'
  BY <1>5 DEF IInv, ServerExclusive, Release
<1>9. TableInv'
  <2>1. UsesWithinMax'
    BY <1>4, <1>6, MaxAssumption DEF IInv, TableInv, UsesWithinMax
  <2>2. OnlyByLogin' /\ BannedMembersRaced' /\ NothingAfterDelete'
    BY <1>4, <1>5 DEF IInv, TableInv, OnlyByLogin, BannedMembersRaced, NothingAfterDelete
  <2> QED
    BY <2>1, <2>2 DEF TableInv
<1>10. ASSUME NEW s \in Reqs \ {r}, NEW q \in Running \union {Idle}, q = req[s]
       PROVE  ReqInv(s, q)'
  <2>1. ReqInv(s, q)
    BY <1>10 DEF IInv
  <2>2. ~(q.kind = "accept" /\ q.next \in {"check", "join"}) /\ q.next # "cascade"
    BY <1>4, <2>1 DEF ReqInv, HoldsServer
  <2>3. HoldsInvite(s, q)'
    BY <1>5, <2>1 DEF ReqInv, HoldsInvite, CodeKnown, Release
  <2>4. HoldsServer(s, q)' /\ HoldsShare(s, q)'
    BY <1>5, <2>1, <2>2 DEF ReqInv, HoldsServer, HoldsShare, Release
  <2>5. CodeKnown(q)' /\ MayJoin(q)'
    BY <1>6, <2>1, <2>2 DEF ReqInv, CodeKnown, MayJoin
  <2>6. q.kind = "ban" /\ q.next \in {"roles", "ban"} /\ q.user = p.user => p.user \in raced'
    BY <1>4, <1>5, <1>10 DEF OwnerBans, At
  <2>7. ~(q.kind = "txBan" /\ q.next = "commit")
    BY <1>4, <2>1, NoReqAssumption DEF ReqInv, HoldsShare, IInv, ServerExclusive
  <2>8. Excused(q)'
    BY <1>5, <2>1, <2>6, <2>7 DEF ReqInv, Excused
  <2> QED
    BY <2>3, <2>4, <2>5, <2>8 DEF ReqInv
<1>11. ReqInv(r, Idle)' /\ Idle.kind # "mint"
  BY DEF Idle, ReqInv, HoldsInvite, HoldsServer, HoldsShare, CodeKnown, MayJoin, Excused
<1> HIDE DEF Idle
<1> QED
  BY <1>5, <1>7, <1>8, <1>9, <1>10, <1>11, AnyStep

LEMMA CascadeStep ==
    ASSUME IInv, NEW r \in Reqs, Cascade(r)
    PROVE  IInv'
<1>1. PICK p : p = req[r]
  OBVIOUS
<1>2. p.next = "cascade" /\ serverLock = r /\ r # NoReq /\ serverShare = {}
  BY <1>1, NoReqAssumption DEF IInv, ReqInv, HoldsServer, Cascade, ServerExclusive
<1>3. /\ \A c \in Codes : inviteLock[c] = NoReq
      /\ alive' = FALSE /\ members' = {} /\ bans' = {}
      /\ raced' = {} /\ entered' = {}
      /\ req' = [req EXCEPT ![r] = Idle]
      /\ Release(r)
      /\ UNCHANGED invites
  BY DEF Cascade, End
<1>4. TypeOK'
  BY <1>3 DEF IInv, TypeOK, Release
<1>5. ServerExclusive'
  BY <1>3 DEF IInv, ServerExclusive, Release
<1>6. TableInv'
  BY <1>3 DEF IInv, TableInv, UsesWithinMax, OnlyByLogin, BannedMembersRaced, NothingAfterDelete
<1>7. ASSUME NEW s \in Reqs \ {r}, NEW q \in Running \union {Idle}, q = req[s]
      PROVE  ReqInv(s, q)'
  <2>1. ReqInv(s, q)
    BY <1>7 DEF IInv
  <2>2. HoldsInvite(s, q)'
    BY <1>3, <2>1, NoReqAssumption DEF ReqInv, HoldsInvite, CodeKnown
  <2>3. HoldsServer(s, q)' /\ HoldsShare(s, q)'
    BY <1>2, <2>1 DEF ReqInv, HoldsServer, HoldsShare
  <2>4. CodeKnown(q)' /\ MayJoin(q)' /\ Excused(q)'
    BY <1>3, <2>1 DEF ReqInv, CodeKnown, MayJoin, Excused
  <2> QED
    BY <2>2, <2>3, <2>4 DEF ReqInv
<1>8. ReqInv(r, Idle)' /\ Idle.kind # "mint"
  BY DEF Idle, ReqInv, HoldsInvite, HoldsServer, HoldsShare, CodeKnown, MayJoin, Excused
<1> HIDE DEF Idle
<1> QED
  BY <1>3, <1>4, <1>5, <1>6, <1>7, <1>8, AnyStep

LEMMA BanInsertStep ==
    ASSUME IInv, NEW r \in Reqs, BanInsert(r)
    PROVE  IInv'
<1>1. PICK p : p = req[r]
  OBVIOUS
<1>2. p \in Running /\ p.kind = "ban" /\ p.next = "ban" /\ p.user \in Users
  BY <1>1, RunningHandler DEF IInv, BanInsert, At, Idle, Running
<1>3. p.user \in members => p.user \in raced \union entered
  BY <1>1, <1>2 DEF IInv, ReqInv, Excused
<1>4. /\ bans' = IF alive THEN bans \union {p.user} ELSE bans
      /\ alive => serverLock = NoReq
      /\ req' = [req EXCEPT ![r] = Idle]
      /\ UNCHANGED <<alive, members, invites, locks, history>>
  BY <1>1 DEF BanInsert, End, MayReference
<1>5. TypeOK'
  BY <1>2, <1>4 DEF IInv, TypeOK, locks, history
<1>6. ServerExclusive'
  BY <1>4 DEF IInv, ServerExclusive, locks
<1>7. TableInv'
  BY <1>3, <1>4 DEF IInv, TableInv, UsesWithinMax, OnlyByLogin, BannedMembersRaced,
     NothingAfterDelete, history
<1>8. ASSUME NEW s \in Reqs \ {r}, NEW q \in Running \union {Idle}, q = req[s]
      PROVE  ReqInv(s, q)'
  <2>1. ReqInv(s, q)
    BY <1>8 DEF IInv
  <2>2. HoldsInvite(s, q)' /\ HoldsServer(s, q)' /\ HoldsShare(s, q)' /\ CodeKnown(q)' /\ Excused(q)'
    BY <1>4, <2>1 DEF ReqInv, HoldsInvite, HoldsServer, HoldsShare, CodeKnown, Excused, locks,
       history
  <2>3. MayJoin(q)'
    BY <1>4, <2>1, NoReqAssumption DEF ReqInv, HoldsServer, HoldsInvite, MayJoin
  <2> QED
    BY <2>2, <2>3 DEF ReqInv
<1>9. ReqInv(r, Idle)' /\ Idle.kind # "mint"
  BY DEF Idle, ReqInv, HoldsInvite, HoldsServer, HoldsShare, CodeKnown, MayJoin, Excused
<1> HIDE DEF Idle
<1> QED
  BY <1>4, <1>5, <1>6, <1>7, <1>8, <1>9, AnyStep

LEMMA TxBanCommitStep ==
    ASSUME IInv, NEW r \in Reqs, TxBanCommit(r)
    PROVE  IInv'
<1>1. PICK p : p = req[r]
  OBVIOUS
<1>2. p \in Running /\ p.kind = "txBan" /\ p.next \in {"remove", "commit"} /\ p.user \in Users
  BY <1>1, RunningHandler DEF IInv, TxBanCommit, At, Idle, Running
<1>3. alive /\ r \in serverShare /\ serverLock = NoReq
  BY <1>1, <1>2 DEF IInv, ReqInv, HoldsShare, ServerExclusive
<1>4. /\ bans' = bans \union {p.user}
      /\ IF p.next = "remove"
         THEN /\ members' = members \ {p.user}
              /\ raced' = raced \ {p.user} /\ entered' = entered \ {p.user}
         ELSE UNCHANGED <<members, raced, entered>>
      /\ req' = [req EXCEPT ![r] = Idle]
      /\ Release(r)
      /\ UNCHANGED <<alive, invites>>
  BY <1>1, <1>2 DEF TxBanCommit, Forget, At, End
<1>5. TypeOK'
  BY <1>2, <1>4 DEF IInv, TypeOK, Release
<1>6. ServerExclusive'
  BY <1>4 DEF IInv, ServerExclusive, Release
<1>7. TableInv'
  <2>1. p.next = "commit" /\ p.user \in members => p.user \in entered
    BY <1>1, <1>2 DEF IInv, ReqInv, Excused
  <2> QED
    BY <1>2, <1>3, <1>4, <2>1 DEF IInv, TableInv, UsesWithinMax, OnlyByLogin,
       BannedMembersRaced, NothingAfterDelete
<1>8. ASSUME NEW s \in Reqs \ {r}, NEW q \in Running \union {Idle}, q = req[s]
      PROVE  ReqInv(s, q)'
  <2>1. ReqInv(s, q)
    BY <1>8 DEF IInv
  <2>2. HoldsInvite(s, q)'
    BY <1>4, <2>1 DEF ReqInv, HoldsInvite, CodeKnown, Release
  <2>3. HoldsServer(s, q)' /\ HoldsShare(s, q)'
    BY <1>4, <2>1 DEF ReqInv, HoldsServer, HoldsShare, Release
  <2>4. CodeKnown(q)' /\ Excused(q)'
    BY <1>4, <2>1 DEF ReqInv, CodeKnown, Excused
  <2>5. MayJoin(q)'
    BY <1>3, <2>1, NoReqAssumption DEF ReqInv, HoldsServer, MayJoin
  <2> QED
    BY <2>2, <2>3, <2>4, <2>5 DEF ReqInv
<1>9. ReqInv(r, Idle)' /\ Idle.kind # "mint"
  BY DEF Idle, ReqInv, HoldsInvite, HoldsServer, HoldsShare, CodeKnown, MayJoin, Excused
<1> HIDE DEF Idle
<1> QED
  BY <1>4, <1>5, <1>6, <1>7, <1>8, <1>9, AnyStep

LEMMA LoginInsertStep ==
    ASSUME IInv, NEW r \in Reqs, LoginInsert(r)
    PROVE  IInv'
<1>1. PICK p : p = req[r]
  OBVIOUS
<1>2. p \in Running /\ p.kind = "login" /\ p.user \in Users
  BY <1>1, RunningHandler DEF IInv, LoginInsert, At, Idle, Running
<1>3. Default
  BY <1>1, <1>2 DEF IInv, ReqInv, Excused
<1>4. PICK new \in SUBSET {p.user} :
        /\ new # {} => alive /\ p.user \notin members
        /\ members' = members \union new
        /\ raced' = raced \union {v \in new : v \notin bans /\ OwnerBans(v)}
        /\ entered' = entered \union {v \in new : v \in bans \/ Barring(v)}
        /\ req' = [req EXCEPT ![r] = Idle]
        /\ UNCHANGED <<alive, bans, invites, locks>>
  BY <1>1 DEF LoginInsert, End
<1>5. TypeOK'
  BY <1>2, <1>4 DEF IInv, TypeOK, locks
<1>6. ServerExclusive'
  BY <1>4 DEF IInv, ServerExclusive, locks
<1>7. TableInv'
  BY <1>3, <1>4 DEF IInv, TableInv, UsesWithinMax, OnlyByLogin, BannedMembersRaced,
     NothingAfterDelete
<1>8. ASSUME NEW s \in Reqs \ {r}, NEW q \in Running \union {Idle}, q = req[s]
      PROVE  ReqInv(s, q)'
  <2>1. ReqInv(s, q)
    BY <1>8 DEF IInv
  <2>2. /\ HoldsInvite(s, q)' /\ HoldsServer(s, q)' /\ HoldsShare(s, q)'
        /\ CodeKnown(q)' /\ MayJoin(q)'
    BY <1>4, <2>1 DEF ReqInv, HoldsInvite, HoldsServer, HoldsShare, CodeKnown, MayJoin, locks
  <2>3. q.kind = "ban" /\ q.next \in {"roles", "ban"} => OwnerBans(q.user)
    BY <1>8 DEF OwnerBans, At
  <2>4. q.kind = "txBan" /\ q.next = "commit" => Barring(q.user)
    BY <1>8 DEF Barring, At
  <2>5. Excused(q)'
    BY <1>4, <2>1, <2>3, <2>4 DEF ReqInv, Excused
  <2> QED
    BY <2>2, <2>5 DEF ReqInv
<1>9. ReqInv(r, Idle)' /\ Idle.kind # "mint"
  BY DEF Idle, ReqInv, HoldsInvite, HoldsServer, HoldsShare, CodeKnown, MayJoin, Excused
<1> HIDE DEF Idle
<1> QED
  BY <1>4, <1>5, <1>6, <1>7, <1>8, <1>9, AnyStep

LEMMA MintInsertStep ==
    ASSUME IInv, NEW r \in Reqs, MintInsert(r)
    PROVE  IInv'
<1>1. PICK p : p = req[r]
  OBVIOUS
<1>2. p \in Running /\ p.kind = "mint"
  BY <1>1, RunningHandler DEF IInv, MintInsert, At, Idle
<1>3. p.code \in Codes /\ invites[p.code].state = "none"
  BY <1>1, <1>2 DEF IInv, ReqInv, CodeKnown
<1>4. req' = [req EXCEPT ![r] = Idle] /\ UNCHANGED <<alive, members, bans, locks, history>>
  BY DEF MintInsert, End
<1>5. PICK m \in 0..MaxMax :
        \/ invites' = [invites EXCEPT ![p.code] = [state |-> "live", max |-> m, uses |-> 0]]
        \/ invites' = invites
  BY <1>1, MaxAssumption DEF MintInsert
<1>6. TypeOK'
  BY <1>3, <1>4, <1>5 DEF IInv, TypeOK, Invite, locks, history
<1>7. ServerExclusive'
  BY <1>4 DEF IInv, ServerExclusive, locks
<1>8. \A c \in Codes : \/ invites'[c] = invites[c]
                       \/ c = p.code /\ invites'[c] = [state |-> "live", max |-> m, uses |-> 0]
  BY <1>3, <1>5 DEF IInv, TypeOK
<1>9. TableInv'
  <2>1. UsesWithinMax'
    BY <1>8 DEF IInv, TableInv, UsesWithinMax
  <2>2. OnlyByLogin' /\ BannedMembersRaced' /\ NothingAfterDelete'
    BY <1>4 DEF IInv, TableInv, OnlyByLogin, BannedMembersRaced, NothingAfterDelete, history
  <2> QED
    BY <2>1, <2>2 DEF TableInv
<1>10. ASSUME NEW s \in Reqs \ {r}, NEW q \in Running \union {Idle}, q = req[s]
       PROVE  ReqInv(s, q)'
  <2>1. ReqInv(s, q)
    BY <1>10 DEF IInv
  <2>2. q.kind \in {"accept", "mint"} => q.code \in Codes /\ q.code # p.code
    BY <1>1, <1>2, <1>3, <1>10, <2>1 DEF IInv, MintsUnique, ReqInv, CodeKnown
  <2>3. q.kind \in {"accept", "mint"} => invites'[q.code] = invites[q.code]
    BY <1>8, <2>2
  <2>4. CodeKnown(q)' /\ MayJoin(q)'
    BY <1>4, <2>1, <2>3 DEF ReqInv, CodeKnown, MayJoin
  <2>5. HoldsInvite(s, q)' /\ HoldsServer(s, q)' /\ HoldsShare(s, q)' /\ Excused(q)'
    BY <1>4, <2>1 DEF ReqInv, HoldsInvite, HoldsServer, HoldsShare, Excused, locks, history
  <2> QED
    BY <2>4, <2>5 DEF ReqInv
<1>11. ReqInv(r, Idle)' /\ Idle.kind # "mint"
  BY DEF Idle, ReqInv, HoldsInvite, HoldsServer, HoldsShare, CodeKnown, MayJoin, Excused
<1> HIDE DEF Idle
<1> QED
  BY <1>4, <1>6, <1>7, <1>9, <1>10, <1>11, AnyStep

LEMMA ExpireStep ==
    ASSUME IInv, NEW c \in Codes, Expire(c)
    PROVE  IInv'
<1>1. /\ invites[c].state = "live"
      /\ invites' = [invites EXCEPT ![c].state = "expired"]
      /\ UNCHANGED <<alive, members, bans, locks, req, history>>
  BY DEF Expire
<1>2. \A d \in Codes : /\ invites'[d].max = invites[d].max
                       /\ invites'[d].uses = invites[d].uses
                       /\ d # c => invites'[d] = invites[d]
                       /\ d = c => invites'[d].state = "expired"
  BY <1>1 DEF IInv, TypeOK, Invite
<1>3. TypeOK'
  BY <1>1 DEF IInv, TypeOK, Invite, locks, history
<1>4. ServerExclusive' /\ MintsUnique'
  BY <1>1 DEF IInv, ServerExclusive, MintsUnique, locks
<1>5. TableInv'
  BY <1>1, <1>2 DEF IInv, TableInv, UsesWithinMax, OnlyByLogin, BannedMembersRaced,
     NothingAfterDelete, history
<1>6. ASSUME NEW s \in Reqs PROVE ReqInv(s, req[s])'
  <2>1. PICK q : q = req[s]
    OBVIOUS
  <2>2. ReqInv(s, q) /\ q = req'[s]
    BY <1>1, <2>1 DEF IInv
  <2>3. HoldsInvite(s, q)' /\ HoldsServer(s, q)' /\ HoldsShare(s, q)' /\ Excused(q)'
    BY <1>1, <2>2 DEF ReqInv, HoldsInvite, HoldsServer, HoldsShare, Excused, locks, history
  <2>4. CodeKnown(q)' /\ MayJoin(q)'
    BY <1>1, <1>2, <2>2 DEF ReqInv, CodeKnown, MayJoin
  <2> QED
    BY <2>2, <2>3, <2>4 DEF ReqInv
<1> QED
  BY <1>3, <1>4, <1>5, <1>6 DEF IInv

LEMMA RestartStep == ASSUME IInv, Restart PROVE IInv'
<1>1. /\ req' = [r \in Reqs |-> Idle]
      /\ inviteLock' = [c \in Codes |-> NoReq]
      /\ serverLock' = NoReq
      /\ serverShare' = {}
      /\ UNCHANGED <<tables, history>>
  BY DEF Restart
<1>2. TypeOK'
  BY <1>1 DEF IInv, TypeOK, tables, history
<1>3. \A r \in Reqs : req'[r] = Idle
  BY <1>1
<1>4. ServerExclusive' /\ MintsUnique'
  BY <1>1, <1>3 DEF ServerExclusive, MintsUnique, Idle
<1>5. TableInv'
  BY <1>1 DEF IInv, TableInv, UsesWithinMax, OnlyByLogin, BannedMembersRaced,
     NothingAfterDelete, tables, history
<1>6. \A r \in Reqs : ReqInv(r, req[r])'
  BY <1>3 DEF Idle, ReqInv, HoldsInvite, HoldsServer, HoldsShare, CodeKnown, MayJoin, Excused
<1> QED
  BY <1>2, <1>4, <1>5, <1>6 DEF IInv

LEMMA StutterStep == ASSUME IInv, UNCHANGED vars PROVE IInv'
<1> USE DEF vars, tables, locks, history
<1>1. TypeOK' /\ ServerExclusive' /\ MintsUnique'
  BY DEF IInv, TypeOK, ServerExclusive, MintsUnique
<1>2. TableInv'
  BY DEF IInv, TableInv, UsesWithinMax, OnlyByLogin, BannedMembersRaced, NothingAfterDelete
<1>3. \A r \in Reqs : ReqInv(r, req[r])'
  BY DEF IInv, ReqInv, HoldsInvite, HoldsServer, HoldsShare, CodeKnown, MayJoin, Excused
<1> QED
  BY <1>1, <1>2, <1>3 DEF IInv

LEMMA NextIInv == IInv /\ [Next]_vars => IInv'
<1> SUFFICES ASSUME IInv, [Next]_vars PROVE IInv'
  OBVIOUS
<1>1. ASSUME NEW r \in Reqs, Step(r) PROVE IInv'
  BY <1>1, AcceptInviteStep, AcceptServerStep, AcceptCheckStep, AcceptJoinStep,
     DeleteMemberStep, DeleteRolesStep, CountStep, DropStep, CascadeStep, BanInsertStep,
     TxBanInsertStep, TxBanCommitStep, MintInsertStep, LoginInsertStep DEF Step
<1>2. ASSUME NEW r \in Reqs, DeleteStart(r) \/ Fail(r) \/ DeadlockAbort(r) PROVE IInv'
  BY <1>2, StartsStep, EndsStep, OwnerAssumption
<1>3. ASSUME NEW r \in Reqs, NEW u \in Users,
             LeaveStart(r, u) \/ KickStart(r, u) \/ BanStart(r, u) \/ TxBanStart(r, u)
               \/ LoginStart(r, u)
      PROVE  IInv'
  BY <1>3, StartsStep, LoginStartStep
<1>4. ASSUME NEW r \in Reqs, NEW u \in Users, NEW c \in Codes,
             AcceptStart(r, u, c) \/ MintStart(r, u, c)
      PROVE  IInv'
  BY <1>4, AcceptStartStep, MintStartStep
<1> QED
  BY <1>1, <1>2, <1>3, <1>4, ExpireStep, RestartStep, StutterStep DEF Next

-----------------------------------------------------------------------------
(* The inductive invariant holds in every reachable state of Membership. *)
THEOREM Invariance == Spec => []IInv
  BY InitIInv, NextIInv, PTL DEF Spec

(* The tables, locks and handlers of servers.ts are type correct. *)
THEOREM TypeCorrect == Spec => []TypeOK
<1>1. IInv => TypeOK
  BY DEF IInv
<1> QED
  BY <1>1, Invariance, PTL

(* No invite is used more often than its max_uses, however many handlers    *)
(* accept it at once.                                                       *)
THEOREM UsesBounded == Spec => []UsesWithinMax
<1>1. IInv => UsesWithinMax
  BY DEF IInv, TableInv
<1> QED
  BY <1>1, Invariance, PTL

(* A banned user is a member only if an accept overtook the owner's ban or  *)
(* if they logged in to the default server.                                 *)
THEOREM BanWindow == Spec => []BannedMembersRaced
<1>1. IInv => BannedMembersRaced
  BY DEF IInv, TableInv
<1> QED
  BY <1>1, Invariance, PTL

(* Both routes' bans hold, but for the window of the owner's and for the    *)
(* logins to the default server; of any other server nobody is excused by a *)
(* login.                                                                   *)
THEOREM BansSafe == Spec => []BansHold
<1>1. IInv => OnlyByLogin
  BY DEF IInv, TableInv
<1>2. OnlyByLogin /\ BannedMembersRaced => BansHold
  BY DEF BansHold
<1> QED
  BY <1>1, <1>2, BanWindow, Invariance, PTL

(* Handlers that found a server leave nothing behind once it is deleted. *)
THEOREM DeleteClean == Spec => []NothingAfterDelete
<1>1. IInv => NothingAfterDelete
  BY DEF IInv, TableInv
<1> QED
  BY <1>1, Invariance, PTL

(* Only the last step of an accept and a login add a member. *)
LEMMA OnlyJoinAdds ==
    ASSUME [Next]_vars, NEW u, u \in members', u \notin members
    PROVE  \E r \in Reqs : (AcceptJoin(r) \/ LoginInsert(r)) /\ u = req[r].user
<1>1. ASSUME NEW r \in Reqs, Step(r) PROVE AcceptJoin(r) \/ LoginInsert(r)
  BY <1>1 DEF Step, AcceptInvite, AcceptServer, AcceptCheck, DeleteMember, DeleteRoles,
     CountMembers, CountInvites, Drop, Cascade, BanInsert, TxBanInsert, TxBanCommit, MintInsert,
     tables
<1>2. ASSUME NEW r \in Reqs, DeleteStart(r) \/ Fail(r) \/ DeadlockAbort(r) PROVE FALSE
  BY <1>2 DEF DeleteStart, Fail, DeadlockAbort, tables
<1>3. ASSUME NEW r \in Reqs, NEW v \in Users,
             LeaveStart(r, v) \/ KickStart(r, v) \/ BanStart(r, v) \/ TxBanStart(r, v)
               \/ LoginStart(r, v)
      PROVE  FALSE
  BY <1>3 DEF LeaveStart, KickStart, BanStart, TxBanStart, LoginStart, tables
<1>4. ASSUME NEW r \in Reqs, NEW v \in Users, NEW c \in Codes,
             AcceptStart(r, v, c) \/ MintStart(r, v, c)
      PROVE  FALSE
  BY <1>4 DEF AcceptStart, MintStart, tables
<1>5. ASSUME Restart \/ (\E c \in Codes : Expire(c)) \/ UNCHANGED vars PROVE FALSE
  BY <1>5 DEF Restart, Expire, vars, tables
<1>6. PICK r \in Reqs : AcceptJoin(r) \/ LoginInsert(r)
  BY <1>1, <1>2, <1>3, <1>4, <1>5 DEF Next
<1> QED
  BY <1>6 DEF AcceptJoin, LoginInsert

(* Nobody who is banned, by either route, becomes a member, unless they log *)
(* in to the default server.                                                *)
THEOREM BannedStayOut == Spec => NoBannedJoin
<1> DEFINE Entry == \A u \in bans : u \in members' \ members =>
                       \E r \in Reqs : LoginInsert(r) /\ req[r].user = u
<1>1. IInv /\ [Next]_vars => [Entry]_vars
  <2> SUFFICES ASSUME IInv, [Next]_vars, NEW u \in bans, u \in members', u \notin members
               PROVE  \E r \in Reqs : LoginInsert(r) /\ req[r].user = u
    OBVIOUS
  <2>1. PICK r \in Reqs : (AcceptJoin(r) \/ LoginInsert(r)) /\ u = req[r].user
    BY OnlyJoinAdds
  <2>2. AcceptJoin(r) => req[r].user \notin bans
    BY DEF IInv, ReqInv, MayJoin, AcceptJoin, At
  <2> QED
    BY <2>1, <2>2
<1> HIDE DEF Entry
<1>2. Spec => [][Entry]_vars
  BY <1>1, Invariance, PTL DEF Spec
<1> QED
  BY <1>2 DEF NoBannedJoin, Entry
=============================================================================
