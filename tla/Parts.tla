------------------------------- MODULE Parts -------------------------------
(***************************************************************************)
(* The parts of the system that share no state, side by side: each initial *)
(* state picks a part, and only that part takes steps.  The states are the *)
(* sum of the parts' states, not their product.  A letter tells whose a    *)
(* constant or a variable is: r of Roles, a of channel access, n of        *)
(* notifications, u of the users' accounts, o of the stored objects, s of  *)
(* a tab's session, g of the requests its API client makes, m of the       *)
(* migration.                                                              *)
(***************************************************************************)
EXTENDS RustRealtime

CONSTANTS Parts,   \* the parts there are, of AllParts
          rUsers, rOwner, rRoleIds, rOwnerRole, rMemberRole, rFlags, rManageRoles, rReqs,
          rMaxPos, rMaxServed,
          aUsers, aOwner, aRoleIds, aAdmins, aReqs, aMaxServed,
          nIds, nFetches, nMaxCalls,
          uRows, uNames, uEmails, uSubs, uNoEmail, uNoSub, uReqs,
          oKeys, oColumns, oCleanups,
          sUsers, sNobody, sChecks, sUpdates, sFetches,
          gCalls, gArgs, gRequestIds, gWriters, gMaxVersion, gNobody,
          mBackends, mUsers, mOwner, mRoleIds, mMaxStarts, mMaxServed, mNone, mAbsent

VARIABLES part,
          rMembers, rRoles, rHeld, rReq, rServed, rReleased, rCeiling, rStray,
          aMembers, aMuted, aHeld, aPerms, aReq, aServed, aSaved, aOverlapped,
          nRows, nPublishing, nFrames, nSession, nSocket, nFetch, nCalls, nList, nLost,
          uUsers, uMembers, uReq, uCreator, uTaken, uRaced,
          oObjects, oUploaded, oRefs, oCleanup, oLate,
          sStored, sSaved, sUser, sAuthed, sLoading, sToken, sLists, sCheck, sUpdate, sFetch,
          sCrossed,
          gVersion, gAcked, gRequests, gWrites, gInflight, gCached,
          mAt, mKnown, mStarts, mServed, mSchema, mTagged, mMade, mOwnerRole, mNames, mFirst,
          mHeld, mGiven, mUnranked, mOverlapped

rVars == <<rMembers, rRoles, rHeld, rReq, rServed, rReleased, rCeiling, rStray>>
aVars == <<aMembers, aMuted, aHeld, aPerms, aReq, aServed, aSaved, aOverlapped>>
nVars == <<nRows, nPublishing, nFrames, nSession, nSocket, nFetch, nCalls, nList, nLost>>
uVars == <<uUsers, uMembers, uReq, uCreator, uTaken, uRaced>>
oVars == <<oObjects, oUploaded, oRefs, oCleanup, oLate>>
sVars == <<sStored, sSaved, sUser, sAuthed, sLoading, sToken, sLists, sCheck, sUpdate, sFetch,
           sCrossed>>
gVars == <<gVersion, gAcked, gRequests, gWrites, gInflight, gCached>>
mVars == <<mAt, mKnown, mStarts, mServed, mSchema, mTagged, mMade, mOwnerRole, mNames, mFirst,
           mHeld, mGiven, mUnranked, mOverlapped>>

Roles == INSTANCE Roles WITH
    Users <- rUsers, Owner <- rOwner, RoleIds <- rRoleIds, OwnerRole <- rOwnerRole,
    MemberRole <- rMemberRole, Flags <- rFlags, ManageRoles <- rManageRoles, Reqs <- rReqs,
    MaxPos <- rMaxPos, MaxServed <- rMaxServed,
    members <- rMembers, roles <- rRoles, held <- rHeld, req <- rReq, served <- rServed,
    released <- rReleased, ceiling <- rCeiling, stray <- rStray

Access == INSTANCE RustChannelAccess WITH
    Users <- aUsers, Owner <- aOwner, RoleIds <- aRoleIds, Admins <- aAdmins,
    Reqs <- aReqs, MaxServed <- aMaxServed,
    members <- aMembers, muted <- aMuted, held <- aHeld, perms <- aPerms, req <- aReq,
    served <- aServed, saved <- aSaved, overlapped <- aOverlapped

Notifications == INSTANCE RustNotifications WITH
    Ids <- nIds, Fetches <- nFetches, MaxCalls <- nMaxCalls,
    rows <- nRows, publishing <- nPublishing, frames <- nFrames, session <- nSession,
    socket <- nSocket, fetch <- nFetch, calls <- nCalls, list <- nList, lost <- nLost

Accounts == INSTANCE RustAccounts WITH
    Rows <- uRows, Names <- uNames, Emails <- uEmails, Subs <- uSubs,
    NoEmail <- uNoEmail, NoSub <- uNoSub, Reqs <- uReqs,
    users <- uUsers, members <- uMembers, req <- uReq, creator <- uCreator,
    taken <- uTaken, raced <- uRaced

Uploads == INSTANCE Uploads WITH
    Keys <- oKeys, Columns <- oColumns, Cleanups <- oCleanups,
    objects <- oObjects, uploaded <- oUploaded, refs <- oRefs, cleanup <- oCleanup,
    late <- oLate

Session == INSTANCE Session WITH
    Users <- sUsers, Nobody <- sNobody, Checks <- sChecks, Updates <- sUpdates,
    Fetches <- sFetches,
    stored <- sStored, saved <- sSaved, user <- sUser, authed <- sAuthed,
    loading <- sLoading, token <- sToken, lists <- sLists, check <- sCheck,
    update <- sUpdate, fetch <- sFetch, crossed <- sCrossed

Api == INSTANCE ApiClient WITH
    Calls <- gCalls, Args <- gArgs, Requests <- gRequestIds, Writers <- gWriters,
    MaxVersion <- gMaxVersion, Nobody <- gNobody,
    version <- gVersion, acked <- gAcked, requests <- gRequests, writes <- gWrites,
    inflight <- gInflight, cached <- gCached

Migration == INSTANCE Migration WITH
    Backends <- mBackends, Users <- mUsers, Owner <- mOwner, RoleIds <- mRoleIds,
    MaxStarts <- mMaxStarts, MaxServed <- mMaxServed, None <- mNone, Absent <- mAbsent,
    at <- mAt, known <- mKnown, starts <- mStarts, served <- mServed,
    schema <- mSchema, tagged <- mTagged, made <- mMade,
    ownerRole <- mOwnerRole, names <- mNames, first <- mFirst,
    held <- mHeld, given <- mGiven, unranked <- mUnranked, overlapped <- mOverlapped

AllParts == {"rust realtime", "roles", "access", "notifications", "accounts", "uploads",
             "session", "api", "migration"}

ASSUME PartsAssumption == /\ Parts \subseteq AllParts
                          /\ Roles!RolesAssumption
                          /\ Access!AccessAssumption
                          /\ Accounts!AccountsAssumption
                          /\ Uploads!UploadsAssumption
                          /\ Session!SessionAssumption
                          /\ Api!ApiAssumption
                          /\ Migration!MigrationAssumption
-----------------------------------------------------------------------------
partVars == <<part, vars, rVars, aVars, nVars, uVars, oVars, sVars, gVars, mVars>>

PartsInit == /\ part \in Parts
             /\ Init /\ Roles!Init /\ Access!Init /\ Notifications!Init
             /\ Accounts!Init /\ Uploads!Init /\ Session!Init /\ Api!Init
             /\ Migration!Init

RustRealtimeStep == /\ part = "rust realtime" /\ Next
                    /\ UNCHANGED <<part, rVars, aVars, nVars, uVars, oVars, sVars, gVars, mVars>>
RolesStep == /\ part = "roles" /\ Roles!Next
             /\ UNCHANGED <<part, vars, aVars, nVars, uVars, oVars, sVars, gVars, mVars>>
AccessStep == /\ part = "access" /\ Access!BothNext
              /\ UNCHANGED <<part, vars, rVars, nVars, uVars, oVars, sVars, gVars, mVars>>
NotificationsStep == /\ part = "notifications" /\ Notifications!BothNext
                     /\ UNCHANGED <<part, vars, rVars, aVars, uVars, oVars, sVars, gVars, mVars>>
AccountsStep == /\ part = "accounts" /\ Accounts!BothNext
                /\ UNCHANGED <<part, vars, rVars, aVars, nVars, oVars, sVars, gVars, mVars>>
UploadsStep == /\ part = "uploads" /\ Uploads!Next
               /\ UNCHANGED <<part, vars, rVars, aVars, nVars, uVars, sVars, gVars, mVars>>
SessionStep == /\ part = "session" /\ Session!Next
               /\ UNCHANGED <<part, vars, rVars, aVars, nVars, uVars, oVars, gVars, mVars>>
ApiStep == /\ part = "api" /\ Api!Next
           /\ UNCHANGED <<part, vars, rVars, aVars, nVars, uVars, oVars, sVars, mVars>>
MigrationStep == /\ part = "migration" /\ Migration!Next
                 /\ UNCHANGED <<part, vars, rVars, aVars, nVars, uVars, oVars, sVars, gVars>>

PartsNext == \/ RustRealtimeStep \/ RolesStep \/ AccessStep \/ NotificationsStep
             \/ AccountsStep \/ UploadsStep \/ SessionStep \/ ApiStep
             \/ MigrationStep

PartsSpec == PartsInit /\ [][PartsNext]_partVars
-----------------------------------------------------------------------------
(* The parts' properties, under the names they have there; each is looked  *)
(* at where its part moves.                                                *)

(* The state of the part that moves has its type. *)
PartsTypeOK == CASE part = "rust realtime" -> TypeOK
                 [] part = "roles"         -> Roles!TypeOK
                 [] part = "access"        -> Access!TypeOK
                 [] part = "notifications" -> Notifications!TypeOK
                 [] part = "accounts"      -> Accounts!TypeOK
                 [] part = "uploads"       -> Uploads!TypeOK
                 [] part = "session"       -> Session!TypeOK
                 [] part = "api"           -> Api!TypeOK
                 [] part = "migration"     -> Migration!TypeOK

(* servers.ts: no role but the Owner's exceeds what the owner ever gave. *)
NoEscalation == part = "roles" => Roles!NoEscalation

(* servers.ts, auth.ts: whoever is no member holds no role, but for kicks    *)
(* half done, assignments, and logins that a removal overtook.             *)
RolesOfMembers == part = "roles" => Roles!RolesOfMembers

(* channels.ts, auth.ts, messages.ts, servers.ts: one answer, as saved; *)
(* main.rs of the Rust port: the same one. *)
AccessAsSaved == part = "access" => Access!AccessInBoth

(* NotificationProvider.tsx: what is read is not shown unread again. *)
ReadStays == Notifications!ReadStays

(* NotificationProvider.tsx: a subscribed socket misses nothing. *)
NothingElseMissed == part = "notifications" => Notifications!NothingElseMissed

(* auth.ts: one account for a subject, and for an email but for races. *)
SignIns == part = "accounts" => Accounts!SignIns

(* uploads.ts: a cleanup deletes nothing that is in use. *)
UsedIsStored == part = "uploads" => Uploads!UsedIsStored

(* AuthProvider.tsx, cacheStore.ts, api.ts: a tab shows the token's user,   *)
(* with their lists, but for what another session had asked for; a call     *)
(* knows the writes that were answered, and joins only a request of its own *)
(* key that is under way.                                                  *)
ClientHolds == /\ part = "session" => Session!SessionHolds
               /\ part = "api" => Api!AnswersHold

(* migrate.ts: whenever a start stops and whatever runs beside it, no        *)
(* statement misses what it refers to, a server has an Owner's role, and    *)
(* members keep their roles.                                               *)
MigrationHolds == part = "migration" => Migration!MigrationHolds
=============================================================================
