# Safascord: a verification project

Safascord is a small Discord: servers with channels, roles and invites, friends,
direct messages, notifications. This directory holds TLA+ models of its program
logic, TLC configurations that check them on small instances, and TLAPS proofs of
the properties that matter most for every instance.

## The system

| Component | Where | State it keeps | Operations |
|---|---|---|---|
| Realtime service | `realtime/src/service.ts` | two subscription indexes, linger timers, liveness flags of the sockets, all in one Node process | connect with a ticket, subscribe, unsubscribe, typing, fan-out of Redis messages, heartbeat, linger, shutdown |
| Friends | `backend/src/routes/friends.ts` | table `friendships`, one row per unordered pair | list, request, accept or decline, remove |
| Direct messages | `backend/src/routes/channels.ts` 7-124 | `channels` of type dm, `channel_members`; the connection pool | list, open (find or create) |
| Servers and membership | `backend/src/routes/servers.ts` | `servers`, `server_members`, `server_member_roles`, `server_bans`, `invites` | create, rename, delete, leave, invite, accept, kick, ban, mute, assign roles |
| Roles | `backend/src/routes/servers.ts` 25-103, 741-846 | `roles` with positions and permission flags | list, create, edit |
| Channels and access | `backend/src/routes/channels.ts` 126-476, `lib/auth.ts` 176-312 | `channels`, `channel_permissions`, `channel_categories` | create, edit, delete, list, permission checks |
| Messages | `backend/src/routes/messages.ts` | `messages`, `channel_reads`; publishes on Redis | page, send, edit, delete, side effects (mentions, notifications, uploads) |
| Notifications | `messages.ts` 377-447, `routes/notifications.ts` | `notifications` | create, list, mark read, delete |
| Accounts | `routes/auth.ts`, `lib/auth.ts` | `users`, JWTs | sign in through Shoo, session, default server |
| Uploads, stats | `routes/uploads.ts`, `lib/stats.ts` | S3 objects, counters | store, clean up |
| Migration | `lib/migrate.ts` | the tables, columns and missing rows of an older version | run by each replica before it listens |
| Web client | `frontend/src` | React state, cached lists, localStorage, the open sockets, requests under way | session, API client, chat panel, notification list, server and settings dialogs |
| Rust port | `rust-backend` | the same tables | the same routes, announced as compatible |

The backend is Fastify over a `pg` pool of 20 connections; Postgres runs at READ
COMMITTED and almost every handler is a sequence of `await pool.query(...)`, each a
transaction of its own. Two handlers (open a DM, accept an invite) and one ban use
an explicit transaction. The backend tells the realtime service about events by
publishing on the Redis channel `messages`; the realtime service never reads the
database: it trusts the ticket the backend signed for one channel.

### What is hard in it

* Between two awaits of one handler every other request may run: a row read first is
  stale when it is used (friend requests, leaving a server, editing).
* A transaction that waits for a lock holds one of the pool's connections.
* The realtime service keeps the same relation in two maps, and deletes a channel's
  entry only from a timer, whose callback runs arbitrarily later.
* Publishing is fire and forget: the database and what clients see may diverge.
* Each replica migrates the database when it starts, statement by statement, beside
  replicas that serve; a deploy may end it anywhere.
* An answer the web client awaits may come when another user is signed in; the tabs of a
  browser share the token.
* The Rust port was written route by route; what a transaction or a lock did in the
  TypeScript route is easily lost.

PROJECT.json lists each hazard at its line with the properties that cover it.

## The modules

| Module | Models | State and code |
|---|---|---|
| `Realtime` | `realtime/src/service.ts`, every handler, timer and interval | `subs` and `entries` are the content and the keys of the map `subs`; `wsChannels`, `lingerTimers` are the maps of these names; `armed` and `due` are Node's timeouts; `sock` is the life of a WebSocket (accepted, upgraded, closing); `bus` is what Redis has handed to the subscriber |
| `Fanout` | what the service promises: a message goes to the open subscribers of its channel, once, in order | `Realtime` refines it: `member` is `wsChannels`, `open` the open sockets; so does `RustRealtime` |
| `RustRealtime` | `rust-backend/realtime/src/main.rs`, block by block under its locks | `clients`, `handle` and `channels`, `linger_until` are the maps; `task` is where each client's task is; `sending` the publish under way |
| `Friendships`, `RustFriendships` | `routes/friends.ts` request, accept, decline, remove; the same routes of the Rust port beside them | one row per pair; `req` holds what a handler read before its write |
| `DirectMessages` | `POST /api/dms` | channels, the advisory locks by the two id strings that name them, the free clients of the pool, one record per handler with its next query; `Texts` are the strings a body may name a user by, which the queries cast to uuid |
| `DmDirectory` | what `POST /api/dms` promises: one channel per pair, for ever, but for pairs that were asked for under two names of the lock | `DirectMessages` refines it |
| `RustDirectMessages` | `create_dm` of the Rust port | as `DirectMessages`, without lock, second lookup and error handling, as the port has none |
| `Membership` | join by invite, leave, kick, the two bans, invites and deletion of one server, `routes/servers.ts`, and, if `Default` says that it is the default one, the join that a sign-in makes, `routes/auth.ts` 136-151 | the rows of one server; row locks of the invite, the server and the member; one record per handler |
| `Roles` | the roles of one server, `routes/servers.ts`: creation of the server, creating and editing roles, both ways of assigning them, joining by an invite (one transaction) or by a sign-in (`routes/auth.ts` 136-162: the membership, then the role), the kick's clean-up | `roles` and `held` are the tables; a handler keeps the flags and the rank of its caller as getRoleManagementContext read them |
| `ChannelAccess`, `RustChannelAccess` | saving a channel's permissions (`channels.ts` 169-214) and every place that computes who may view, read, send, be listed or be notified; the port's copies with the queries that may fail | `perms` is channel_permissions; the places are operators of the tables |
| `Messages`, `RustMessages` | send, edit, delete, `routes/messages.ts`, and the Rust port's routes beside them, with what clients make of the frames, `ChatPanel.tsx` 578-630 | rows of one channel; `shown` is a client that heard every published frame; one record per handler |
| `ChatPanel` | the panel of the web client, `ChatPanel.tsx` 393-487, 514-645, 688-790, with `stores/cacheStore.ts` | `msgs`, `loading`, `cache` are the React state and the store; `loads` the pages asked for, `frames` what the socket has for the panel, `post` how far each send is at the backend |
| `Notifications`, `RustNotifications` | the rows of one user's notifications and the list of `NotificationProvider.tsx` | `list` is the React state; `fetch` the polls under way, with the answer they read; `calls` what was marked or deleted and not yet handled |
| `Accounts`, `RustAccounts` | sign-in with Shoo, registration, login, renaming, `routes/auth.ts` and `users.ts`; the same of the Rust port beside them | `users`; one record per handler |
| `Uploads` | storing, using and dropping objects, and the cleanup, `routes/uploads.ts` | `objects` is the bucket, `refs` the columns that hold a URL, `cleanup` what each cleanup has listed and found in use |
| `Session` | who a tab believes is signed in and whose lists it has cached, `AuthProvider.tsx`, `stores/cacheStore.ts` and the lists' fetches | `stored`, `saved` are localStorage, which other tabs write too; `user`, `authed`, `loading`, `token` the React state; `check`, `update`, `fetch` what is awaited, with the token it was asked with |
| `ApiClient` | `frontend/src/lib/api.ts`: the response cache, the joining of equal requests, what empties the cache | `inflight`, `cached` are the two maps; an answer is the number of this client's writes the backend had performed when it read |
| `Migration` | `lib/migrate.ts`, group of statements by group, of several replicas, beside the routes that write the rows it repairs | `at` is what each replica runs next, `known` what it has read; `schema` the tables there are, `names`, `first`, `held` the rows of one server; `made` how far `POST /api/servers` is |
| `Parts` | `RustRealtime`, `Roles`, `RustChannelAccess`, `RustNotifications`, `RustAccounts`, `Uploads`, `Session`, `ApiClient`, `Migration` side by side, one of them moving in each behaviour | `part` is the one that moves; the others' variables carry a letter of their own |
| other `MC*` | small sets and symmetry for TLC | |
| `*Proofs` | the theorems | |

A handler is modelled as it runs: every awaited query is a step, the code between two
awaits belongs to the step before it, and any other handler may run in between. Checks
whose answers change no state are guards: a request that is refused is no step. A
definition named `Bug_X` before a definition `X` is `X` with a slip a maintainer could
make; nothing uses it, and each property is known to notice one of them.

The Rust port runs on the same tables until the cutover. Where its steps are those of
the TypeScript route but for what it does with errors, its module extends the other one
and its specification, `BothSpec`, lets handlers of the two run at once: a property of it
is one of the two backends together.

The modules meet at these places. `Messages` ends where a frame is published; that a
client hears the frames of its channel in the order of their publication, and none
twice, is what `Fanout` promises and `Realtime` is shown to keep, so `Messages` may
follow one client that hears every frame. `ChatPanel` is such a client in detail, over a
backend that inserts, publishes and answers as in `Messages`. What the friend routes
write may change at any time: in `DirectMessages` the check that reads a friendship
allows a call or ends it. `Roles` writes
what `ChannelAccess` reads: there, who is a member and who holds which role changes at
any time and in any way. `Membership` gives a member no role and `Roles` no ban: the
routes that remove a member delete both rows, member first, and `Roles` has that order.
The sign-in's join is in three modules: `Membership` has what it does beside bans,
`Roles` what it does beside a kick, `Accounts` that it happens.
`Notifications` uses its own socket, which is open, subscribed or neither.

## What is checked

| Run | Bounds | Shows |
|---|---|---|
| `realtime` | 2 sockets, 2 channels, 2 messages | the two indexes agree (`Subscriptions`), timers are the ones held and belong to empty channels that nothing else would forget (`Lingers`), delivery is in order and by ticket (`InboxInOrder`), the service implements `Fanout`; silent clients are dropped, empty channels are forgotten, shutdown ends unless an upgrade was under way |
| `friend_requests` | 2 users, 3 handlers of either backend, 3 rows | `EverWanted`: friends only if both wanted it; `AcceptedByOther`: the accept by id never confirms one's own request |
| `friend_stale_accept` | the same | a violation: see Findings |
| `direct_messages` | 2 users, one of them in two spellings, 3 handlers, pool of 2, 3 ids | `OneDmPerPair`, `AnswersCommitted`, `NothingLeaked` (locks and clients of the pool) and the refinement of `DmDirectory`, with failures at every await and restarts; `CallsEnd`: waiting for the lock with a client of the pool in hand is no deadlock |
| `rust_dm_one` | 2 users, 2 handlers | a violation: see Findings |
| `membership` | owner and a user, 1 code, 2 handlers; the default server | `UsesWithinMax`, `BansHold`, `NoBannedJoin` under every pair of handlers, sign-ins among them; `RequestsEnd`, although accept and delete can wait for each other's rows |
| `leave_deletes_joined` | the same, another server | a violation: see Findings |
| `messages` | 2 users, 2 texts, 2 messages, 3 handlers of either backend | `ClientsConverge`, `DeletedStaysAway`, a DELETE of the port that fails and is announced included |
| `chat_panel` | 2 channels, 2 posts, 3 visits of a channel | `NoTwice`: no list shows a message twice; `PendingOnly`: once the page was shown, no optimistic entry outlives its answer |
| `chat_temporary_duplicate` | the same | a violation: see Findings |
| `parts` | see below | the nine parts of `Parts` |
| `no_row_inherits` | 2 users, 2 roles | a violation: see Findings |

The properties of `parts`, part by part:

* `RustRealtime` (2 sockets, 2 channels, 1 message): `IndexesHold`, the port's two
  indexes agree for whoever is at rest and a channel whose last subscriber left is
  remembered; `ImplementsFanout`.
* `Roles` (the owner and a member, 3 roles, 2 flags, 3 positions, 2 handlers, 3
  requests): `NoEscalation`, no role but the Owner's ever has a flag or a rank that the
  owner did not let one have; `RolesOfMembers`, roles of non-members come from the named
  races only, a sign-in whose membership goes between its two INSERTs among them.
* `RustChannelAccess` (the owner and a user, 2 roles, 2 saves at once, up to `MaxFailed`
  = 2 failed queries of one request): `AccessAsSaved`, the saved list decides, the six
  computations of the two backends agree (but that the port's sidebar lists the channel to
  a request without a valid token or a server, and TypeScript's lists none), and no failed
  query lets anybody see more but the one that asks for the channel's rows.
* `RustNotifications` (2 notifications, a fetch, a call under way): `ReadStays`,
  `NothingElseMissed`.
* `RustAccounts` (2 rows, names and subjects, one email, 2 handlers): `SignIns`, one
  account for a subject, and two for an email only after a race for it.
* `Uploads` (2 objects, 2 columns, 2 cleanups): `UsedIsStored`, a cleanup deletes nothing
  that is in use, unless it was put to use after the cleanup had listed it.
* `Session` (2 users; a check, a profile update and a fetch under way) and `ApiClient` (4
  calls, 2 requests, 2 writes): `ClientHolds`. A tab shows nobody but the token's user and
  caches nobody else's lists, except what an answer of an earlier session or another tab
  brings; a call is answered with nothing older than the writes whose answers had come,
  unless a write ended while it was under way, and joins only a live request of its key.
* `Migration` (2 replicas, 2 users, 3 roles, 2 starts beside another replica, 2 requests;
  an empty database, or the first version's): `MigrationHolds`. No statement refers to what
  is not there yet and a replica serves a complete database; a replica that is done has
  left the server with a role "Owner", and with one only unless it looked while another
  was about to make it; a start gives nobody a role but the one they joined with.

The parts share no state, so the states of the run are the sum of theirs. They share
names (`a1`, `b1`, ...), so one symmetry serves them all. `PartsTypeOK` is the type of
the part that moves.

The bounds are small because the code's state is symmetric in them. Two sockets are a
subscriber that leaves and one that stays, or one whose name is used again; two channels
tell a socket's own channel from another. Two handlers meet in every pair of steps;
three are used where the finding or the property needs a third (two edits and a
deletion, two waiters for one lock and a pool smaller than the callers). Two users are
all that a friendship concerns, or one direct channel, or a ban and an accept (the
theorems are for any number, of users and of spellings). The server of `membership` is
the default one, whose steps include those of every other; that without it only the
owner's ban lets a banned user be a member is part of `BansHold` that the theorem
`BansSafe` shows. In `Roles` the member is given roles and then edits and creates them,
and what a member may assign to a second one is left to the theorems. Three requests of
`Roles` are a grant, its use, and its withdrawal meanwhile. Three visits of a panel are
there, away and back: it then meets its own cache and a page it asked for before. A
second start is one beside a replica that serves or migrates; starts with no other
replica up are not bounded. Two posts of one text are what may be mistaken for each
other. `MaxPub`, `MaxRows`, `MaxMax`, `MaxUses`, `MaxMsgs`, `MaxLoads`, `MaxServed`,
`MaxPos`, `MaxCalls`, `MaxVersion` and `MaxStarts` bound counters; the values let each
of them be reached, passed by another handler and used once more. In `parts` the server
was created without a failure; the theorems of `Roles` are about one that was not, too,
and in `Migration` it may fail at each INSERT. Deadlock is checked where the system goes
on for ever; the service stops after shutdown, the friend routes stop when `MaxRows` is
used up, and the panel when its posts are, so those runs say `CHECK_DEADLOCK FALSE`.

### Fairness

Nothing a user, a peer or the network does is fair: calls, frames, pongs, failures and
restarts happen or not.

* `Realtime`: Node runs its timers and intervals and Redis hands over what it queued
  (weak fairness of `LingerElapses`, `LingerExpires`, `Heartbeat`, `Deliver`); `ws`
  destroys a closing socket after a timeout of its own, so the close event comes
  (`Closed`); `server.close` answers when no connection is left (`Stop`).
* `DirectMessages`: the pool and Postgres serve their waiters in order, so a step that
  is enabled again and again is taken: strong fairness of a handler's steps; the pool's
  connection timeout runs (weak).
* `Membership`: the same for row locks, and Postgres's deadlock detector runs (weak).

## What is proved

TLAPS checks these for every value of the constants, under the assumptions named in the
modules (bounds are naturals, the values for "nobody" are not in the sets). Those of
the modules of `Parts` are definitions (`RolesAssumption` and
so on), which the theorems name; `Parts` assumes them of its instances.

* `RealtimeProofs`: `TypeOK`; one invariant, `IInv`, ties the two indexes, the entries
  and the timers together (an entry is missing only without subscribers, a held timer
  is the only one armed, an empty entry has one while the service is up). The
  subscription part and the timer part need each other: that a timer's channel is empty
  is what makes its callback safe, and that subscribing clears the timer is what keeps
  the channel of a timer empty. From it follow `Subscriptions`, `Lingers`,
  that no step deletes the entry of a subscribed channel (`EntrySafe`), and the refinement
  of `Fanout`, step by step;
  `InboxInOrder` needs besides that the ids on the bus ascend and are greater than those
  in the inboxes.
* `PartsProofs`, part by part and then of `Parts`:
  * the Rust port's realtime service: `TypeOK`, `IndexesHold` and the refinement of
    `Fanout`. The invariant says for every block a task may be before what of the two
    indexes already differs: nothing but the channel that the task is at.
  * stored objects: `UsedIsStored`. The invariant `OInv` says what each cleanup knows:
    of an object it listed and nobody has put to use since, it has found every column
    it has asked for, and all of them once it deletes. A URL that moves to a column
    already asked for is the case that `late` names; without it the invariant fails.
  * notifications: `NothingElseMissed`, `ReadStays`. The invariant `NInv` holds whether
    or not anybody is signed in: a notification that is missing from the list and was
    not lost is unpublished, in a frame, in an answer, or with a deletion under way.
  * channel access: `AccessAsSaved`. The invariant `AInv`: until two saves overlap, one
    transaction at most is past its DELETE, and what it deletes is all there is. That
    the places in the two backends agree is a lemma about the operators, for every set
    of queries that fail.
  * roles: `NoEscalation`, `RolesOfMembers`. The invariant `RInv` says of what a handler
    has read, however stale, that the owner once let it be so: the flags of its caller are
    among the released ones and its caller's rank is below the highest the owner gave,
    unless the caller is the owner; and so are the rows it has looked at.
  * accounts, of both backends at once: `SignIns`. The invariant `UInv`: a row that a
    subject's sign-in made is the subject's until it is handed on; the unique index keeps
    subjects apart; and a handler that is about to insert an email found it free while no
    other had, or the email is named in `raced`.
  * the session: `ShowsTokensUser` and `CachesOwnLists`. The invariant `SInv` adds what makes
    them last: unless another session came between, the last render saw the token's user,
    and a fetch is live only while the token is the one it was asked with.
  * the API client: `AnswersHold`. The invariant `GInv` adds that no write has a number the
    backend has not reached; that no call goes both through `get` and past it is read off
    the list of calls.
  * the migration: `MigrationHolds`. The invariant `MInv` reads off the stage a replica is
    at what it has run (`MRan`) and what of the server it has found or made (`MFound`), both
    of which no other replica and no route undoes: no stage drops a table, no route takes
    the name "Owner" away or sets a member's `role_id` to NULL. For one Owner's role,
    `MAlone`: who is about to make it is alone and there is none, or a look came too early.
  * `Parts`: seen from one part, a step of another changes nothing, so each part behaves
    as its own specification says (`Projections`), and what is proved of a part holds of
    them together: `PartsTypeOK` and each property of the run `parts`.
* `FriendshipsProofs`: `TypeOK`, `EverWanted`, `AcceptedByOther`, of both backends at
  once. The invariant says of each handler between its queries what its decision rests
  on: an accept by id was decided on a row of the other user, and ids are not used again.
* `DirectMessagesProofs`: `TypeOK`, `OneDmPerPair`, `AnswersCommitted`, `NothingLeaked`
  and the refinement of `DmDirectory`. The invariant: of the handlers that named the
  lock by the same two strings one at most is at its second lookup or past it, and what
  it will insert has an id of its own while no channel was made under that name; that
  another one inserts for the same pair, or has, is named in `crossed`. That no client
  of the pool is lost is a count, for which the handlers are finite (`ReqsAssumption`).
* `MembershipProofs`: `TypeOK`, `UsesWithinMax`, `BansHold`, `NoBannedJoin`, and that
  handlers leave nothing behind a deleted server (`DeleteClean`). The invariant `ReqInv`
  says of each handler what it knows at its next step and which row locks make that stay
  true: an accept that passed its checks holds the invite and the server, and no ban of
  the routes that lock can commit while it does. Of a ban that has deleted the member and is
  not yet committed it says that who is a member again joined by one of the exceptions,
  which the histories `raced` and `entered` name; `entered` stays empty unless `Default` holds.
* `MessagesProofs`: `TypeOK`, `ClientsConverge`, `DeletedStaysAway`, of both backends at
  once. The invariant is
  about a message no two handlers changed at once: one handler at most carries a text of
  it, and clients differ from the table only while the frame that mends it is due.
* `ChatPanelProofs`: `TypeOK`, `NoTwice`, `PendingOnly`. The invariant: every list, shown,
  cached or on its way, has each entry once, and optimistic ones only of what was sent;
  a page holds none, so once the page of the last visit was shown, whatever brings an
  optimistic entry back would have to find it in the list. What the filter of
  `withoutOptimistic` keeps is defined by ranks, and a lemma (a rank belongs to exactly one
  entry) says that it keeps each entry once.

Only model-checked: liveness (fairness is out of the prover's reach) and the violations.
Every proof module holds the lemmas its theorems rest on, one per action.

## Findings

* `leave_deletes_joined`: leaving counts members and invites and then deletes the
  server, in queries of their own; a user who joins by an invite made meanwhile loses
  the server they were told they joined.
* `friend_stale_accept`: "Accept their request" updates the pair's row, which may by
  then be the caller's own request.
* `rust_dm_one`: the Rust port has no lock and takes a failed lookup for an empty one:
  two channels for one pair.
* `chat_temporary_duplicate`: of two own messages with one text, the first one's frame
  replaces the second one's optimistic entry; the panel then shows three entries.
* `no_row_inherits`: the form for a channel's permissions shows a role without a row as
  one that inherits the right to view; the backend shuts its members out as soon as
  another role has a row.

Properties with exceptions say what the code does not give:

* `ClientsConverge`: an edit or a deletion that starts before the message's own frame is
  published, and two edits at once; the port, besides, announces a deletion whose
  DELETE failed. Then clients may show another text than the table,
  or a deleted message, or miss one, until they load the page again.
* `OneDmPerPair`, `ImplementsDirectory`: the lookups and INSERTs cast an id to uuid, the
  advisory lock hashes the string as it was sent (`channels.ts` 89). Two calls that spell
  the same user differently (a letter's case, hyphens, braces) hold different locks, and may
  make a channel each; the property names the pair (`crossed`) and allows one channel for a
  spelling. The web client sends ids as it was told them, in one spelling. In the same way
  the self check compares strings: about oneself in another spelling the lookup answers any
  channel one is in, and otherwise the INSERT of the members fails.
* `BansHold`, `NoBannedJoin`: every sign-in and registration joins the user to the default
  server (`auth.ts` 145), and does not look at `server_bans`: who is banned there is a member
  again at their next login. Of any other server, the only exception is the owner's ban,
  whose queries are not a transaction, with an accept between them.
* `RolesOfMembers`: no route that assigns roles looks whether its target is a member, so
  roles given during or after a kick stay, and `checkPermission` asks for roles only. A
  sign-in inserts the membership of the default server and then its role, in queries of
  their own: who is removed between them keeps the role "Member".
* `NoEscalation`: an owner who puts a role at position 0, level with theirs, gives it
  away: who joins a server without a "Member" role gets one of the lowest roles, and all
  may be at 0.
* `AccessAsSaved`: the port's `list_channels` asks for nothing unless the request has a
  valid token and a `serverId` (`main.rs` 1673): then it lists every channel that it read,
  to anybody, as one to type in, where TypeScript (`channels.ts` 257) answers no sections.
  Two saves at once of which one sets no name may leave both lists; the
  page of a channel is read by members and non-members alike where it has no rows, and
  is refused to administrators of whose roles none may view it.
* `SignIns`: an email that two handlers found free at once gets two accounts, since only
  usernames and subjects are unique; the port inserts, too, where its lookup fails. Two
  subjects with one email hand the account to each other. As usernames are unique, the
  discriminators drawn beside them decide nothing.
* `NothingElseMissed`: a notification is missed if it was published while the socket was
  not subscribed, or the publish or a fetch failed. A poll that was under way brings a
  deleted notification back, or another session's, and "read all" marks rows the client
  has not seen.
* `UsedIsStored`: a URL put to use after the cleanup listed its object may lose it.
* `ClientHolds`: an answer to `checkSession` that comes after a logout signs its user in
  again, with no token; a list that was asked for before the token changed is stored in the
  next user's cache; `/api/me` answers a failed query with status 200 and an error, which
  the client takes for a refusal and signs out, although it means to keep the session on a
  transient failure (`AuthProvider.tsx` 73); and tabs share the token, so one tab's login
  leaves another showing its old user.
* `MigrationHolds`: two replicas that look before either has inserted make two Owner's
  roles, since only ids are unique. The sync of `server_member_roles` (`migrate.ts` 242-247)
  runs at every start and gives back the role a member joined with, although it may have
  been taken away since: no assignment changes `role_id`. A discriminator is set without
  looking whether another replica has set one since it was missed.

Met on the way, and no property of a run: a role "Member" that the migration inserts gets
no position, so the default, 0, which is the top rank; and the client takes the role with
the largest position for the highest (`api.ts` 168-172, `ChatPanel.tsx` 162-167), the
backend the smallest (`servers.ts` 37, 66).

## What is not modelled

PROJECT.json gives the reason for each component.

* In `ChatPanel`, older pages, uploads and the trimming of the cache are left out; the
  model has, and no property forbids, that an answer which comes after the user went to
  another channel puts its message there (`applyMessagesUpdate` changes the list that is
  shown) and that the cache of a channel holds another one's list until its page comes.
* In `Messages`, a publish that the Redis client sends again after a reconnect is left
  out (a repeated frame is followed by the repeated frames after it).
* In `Realtime`, a frame is one of the service's or ignored. Left out: a frame that is the
  JSON `null`, whose handler throws outside its `try` (`service.ts` 257-270), and an `error`
  event of a WebSocket, which has no listener; either ends the process, and nothing of the
  model outlives that.
* In `Session`, of the answers that come after the token changed only a list's is stored
  (`Fetched`). The server list that the sidebar stores after it created, left or deleted a
  server (`ServerSidebar.tsx` 154-185), late as well, comes under the same exception of
  `ClientHolds`.
* `ChannelAccess` takes the caller of a computation to be the user it is about. That the
  port's `get_server_members` lists the members to callers who are none (`main.rs` 2602), as
  TypeScript's route does not, is left out.
* Of the Rust port, membership, roles, servers and uploads are left out: its
  role routes ask for `can_manage_roles` and look at no positions, `create_channel`
  drops the errors of its INSERTs and answers an id that a rolled back transaction does
  not have, and `leave_server` reads a failed count as none; nothing in the repository
  says which of this is meant.
* `Migration` has one server and looks at who has which role: the deletion of a server,
  further servers (the loop's next turns) and the order of the statements within a group
  that creates tables are left out. `Session` has one list of each kind, and of the pages
  only that they fetch them.
* Time is abstracted: a timer may run at any time after it is set, tickets do not
  expire. The paging of the bucket's list is one step. Ids of a channel's categories,
  names, colours and pictures are left out, and so are the content of JWTs, validation
  and wording of answers.
* Statistics, the views of the web client and the debug routes keep no state that
  another step reads.

## Open

What could be added: older pages in `ChatPanel`, and what a panel in the foreground ends
with once its socket and its page are there (a frame the page replaced is lost until
then); the port's membership beside the TypeScript one.
