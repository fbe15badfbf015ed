--------------------------- MODULE ChatPanelProofs ---------------------------
(* Proofs about the chat panel, for any channels, messages and texts, and   *)
(* however often the user goes from one channel to another.                 *)
EXTENDS ChatPanel, TLAPS, FiniteSetTheorems, SequenceTheorems, WellFoundedInduction

(***************************************************************************)
(* The argument: every list there is, shown, cached or on its way, has     *)
(* each entry once, and optimistic ones only of messages that were sent    *)
(* (Fine): a message is sent once, inserted once, and whatever adds it to  *)
(* a list has looked whether it is there.  Pages hold no optimistic        *)
(* entries, so those that a page in time left behind are gone.             *)
(***************************************************************************)
Fine(list, posts) == /\ list \in Seq(Entries)
                     /\ IsInjective(list)
                     /\ \A n \in DOMAIN list : list[n].local => posts[list[n].post] # NoPost

Caches == [Channels -> [loaded : BOOLEAN, list : Seq(Entries)]]
CacheOk(old, posts) == old \in Caches /\ \A c \in Channels : Fine(old[c].list, posts)

Loads == [to : Channels, state : {"asked", "read", "shown", "done", "failed"},
          page : Seq(Entries)]
Sent == [stage : Stages \ {"none"}, to : Channels, text : Texts, mine : BOOLEAN]

PanelOk == key \in Channels /\ loading \in BOOLEAN /\ Fine(msgs, post) /\ CacheOk(cache, post)

LoadsTyped == loads \in Seq(Loads) /\ loads # <<>>
PageOk(page, posts) == Fine(page, posts) /\ \A n \in DOMAIN page : ~page[n].local
LoadsOk == LoadsTyped /\ \A i \in DOMAIN loads : PageOk(loads[i].page, post)

RowsOk == /\ post \in [Posts -> {NoPost} \union Sent]
          /\ rows \in [Channels -> Seq(Posts)]
          /\ \A c \in Channels : /\ IsInjective(rows[c])
                                 /\ \A n \in DOMAIN rows[c] :
                                       post[rows[c][n]].stage \notin {"none", "sent"}

SocketOk == listening \in BOOLEAN /\ frames \in Seq(Posts)

IInv == PanelOk /\ LoadsOk /\ RowsOk /\ SocketOk /\ PendingOnly
-----------------------------------------------------------------------------
(* Lists. *)

(* Of two ranks, that of the later entry is the higher one. *)
LEMMA RankRises == ASSUME NEW p, msgs \in Seq(Entries),
                          NEW i \in Kept(p), NEW j \in Kept(p), i < j
                   PROVE  /\ Rank(p, i) \in 1..Cardinality(Kept(p))
                          /\ Rank(p, j) \in 1..Cardinality(Kept(p))
                          /\ Rank(p, i) < Rank(p, j)
<1> DEFINE upto(k) == {l \in Kept(p) : l <= k}
<1>1. IsFiniteSet(Kept(p)) /\ Kept(p) \subseteq Nat /\ Cardinality(Kept(p)) \in Nat
  <2>1. Len(msgs) \in Nat /\ DOMAIN msgs = 1..Len(msgs)
    BY LenProperties
  <2>2. IsFiniteSet(1..Len(msgs))
    BY <2>1, FS_Interval
  <2>3. Kept(p) \in SUBSET (1..Len(msgs))
    BY <2>1 DEF Kept
  <2> QED
    BY <2>1, <2>2, <2>3, FS_Subset, FS_CardinalityType
<1>2. ASSUME NEW k \in Kept(p)
      PROVE  IsFiniteSet(upto(k)) /\ Cardinality(upto(k)) \in 1..Cardinality(Kept(p))
  <2>1. upto(k) \in SUBSET Kept(p) /\ k \in upto(k)
    BY <1>1
  <2>2. IsFiniteSet(upto(k)) /\ Cardinality(upto(k)) <= Cardinality(Kept(p))
    BY <1>1, <2>1, FS_Subset
  <2>3. Cardinality(upto(k)) \in Nat /\ Cardinality(upto(k)) # 0
    BY <2>1, <2>2, FS_CardinalityType, FS_EmptySet
  <2> QED
    BY <1>1, <2>2, <2>3
<1>3. Cardinality(upto(i)) < Cardinality(upto(j))
  <2>1. upto(i) \in SUBSET upto(j) /\ j \in upto(j) \ upto(i)
    BY <1>1
  <2>2. /\ Cardinality(upto(i)) <= Cardinality(upto(j))
        /\ Cardinality(upto(j)) = Cardinality(upto(i)) => upto(j) = upto(i)
    BY <1>2, <2>1, FS_Subset
  <2> HIDE DEF upto
  <2>3. Cardinality(upto(i)) \in Nat /\ Cardinality(upto(j)) \in Nat
    BY <1>1, <1>2
  <2> QED
    BY <2>1, <2>2, <2>3
<1> QED
  BY <1>2, <1>3 DEF Rank

(* Every rank is that of one entry that is kept. *)
LEMMA RankOf == ASSUME NEW p, msgs \in Seq(Entries), NEW n \in 1..Cardinality(Kept(p))
                PROVE  \E i \in Kept(p) : Rank(p, i) = n
<1> DEFINE K == Kept(p)
           C == Cardinality(K)
           rank == [i \in K |-> Rank(p, i)]
<1>1. IsFiniteSet(K) /\ K \subseteq Nat /\ C \in Nat
  <2>1. Len(msgs) \in Nat /\ DOMAIN msgs = 1..Len(msgs)
    BY LenProperties
  <2>2. IsFiniteSet(1..Len(msgs))
    BY <2>1, FS_Interval
  <2>3. K \in SUBSET (1..Len(msgs))
    BY <2>1 DEF Kept
  <2> QED
    BY <2>1, <2>2, <2>3, FS_Subset, FS_CardinalityType
<1>2. ASSUME NEW i \in K PROVE Rank(p, i) \in 1..C
  <2> DEFINE upto == {l \in K : l <= i}
  <2>1. upto \in SUBSET K /\ i \in upto
    BY <1>1
  <2>2. IsFiniteSet(upto) /\ Cardinality(upto) <= C
    BY <1>1, <2>1, FS_Subset
  <2>3. Cardinality(upto) \in Nat /\ Cardinality(upto) # 0
    BY <2>1, <2>2, FS_CardinalityType, FS_EmptySet
  <2> QED
    BY <1>1, <2>2, <2>3 DEF Rank
<1>3. rank \in Injection(K, 1..C)
  <2>1. rank \in [K -> 1..C]
    BY <1>2
  <2>2. ASSUME NEW i \in K, NEW j \in K, rank[i] = rank[j] PROVE i = j
    <3>1. ~(i < j) /\ ~(j < i)
      BY <1>1, <1>2, <2>2, RankRises
    <3> QED
      BY <1>1, <3>1
  <2> QED
    BY <2>1, <2>2 DEF Injection, IsInjective
<1>4. IsFiniteSet(1..C) /\ Cardinality(1..C) = C
  BY <1>1, FS_Interval
<1>5. rank \in Surjection(K, 1..C)
  BY <1>3, <1>4, FS_Injection
<1> QED
  BY <1>5 DEF Surjection

(* What is kept is in the list, not the entry of p, and in one place if it  *)
(* was.                                                                    *)
LEMMA Purged == ASSUME NEW p, msgs \in Seq(Entries)
                PROVE  /\ Without(p) \in Seq(Entries)
                       /\ \A n \in DOMAIN Without(p) :
                             /\ Without(p)[n] # Local(p)
                             /\ \E i \in DOMAIN msgs : Without(p)[n] = msgs[i]
                       /\ IsInjective(msgs) => IsInjective(Without(p))
<1> DEFINE at(n) == CHOOSE i \in Kept(p) : Rank(p, i) = n
           C == Cardinality(Kept(p))
<1>1. C \in Nat
  <2>1. Len(msgs) \in Nat /\ DOMAIN msgs = 1..Len(msgs)
    BY LenProperties
  <2>2. IsFiniteSet(1..Len(msgs)) /\ Kept(p) \in SUBSET (1..Len(msgs))
    BY <2>1, FS_Interval DEF Kept
  <2> QED
    BY <2>2, FS_Subset, FS_CardinalityType
<1>2. ASSUME NEW n \in 1..C PROVE at(n) \in Kept(p) /\ Rank(p, at(n)) = n
  BY RankOf
<1> HIDE DEF at, C
<1>3. ASSUME NEW n \in 1..C
      PROVE  msgs[at(n)] \in Entries /\ msgs[at(n)] # Local(p) /\ at(n) \in DOMAIN msgs
  BY <1>2, ElementOfSeq, LenProperties DEF Kept
<1>4. Without(p) = [n \in 1..C |-> msgs[at(n)]]
  BY DEF Without, at, C
<1>5. Without(p) \in Seq(Entries)
  BY <1>1, <1>3, <1>4, IsASeq
<1>6. ASSUME IsInjective(msgs) PROVE IsInjective(Without(p))
  BY <1>2, <1>3, <1>4, <1>6 DEF IsInjective
<1> QED
  BY <1>3, <1>4, <1>5, <1>6

LEMMA FinePurged == ASSUME NEW p, NEW posts, Fine(msgs, posts) PROVE Fine(Without(p), posts)
BY Purged DEF Fine

LEMMA FineAppended ==
    ASSUME NEW posts, NEW list, Fine(list, posts), NEW e \in Entries,
           e.local => posts[e.post] # NoPost, ~Contains(list, e)
    PROVE  Fine(Append(list, e), posts)
<1>1. /\ list \in Seq(Entries) /\ Len(list) \in Nat /\ DOMAIN list = 1..Len(list)
      /\ \A n \in DOMAIN list : list[n] # e
  BY LenProperties DEF Fine, Contains
<1>2. /\ Append(list, e) \in Seq(Entries)
      /\ DOMAIN Append(list, e) = 1..(Len(list) + 1)
      /\ \A n \in DOMAIN Append(list, e) :
            Append(list, e)[n] = IF n = Len(list) + 1 THEN e ELSE list[n]
  BY <1>1, AppendProperties, LenProperties
<1> QED
  BY <1>1, <1>2 DEF Fine, IsInjective

LEMMA FineReplaced ==
    ASSUME NEW posts, NEW list, Fine(list, posts), NEW e \in Entries, NEW i \in DOMAIN list,
           ~e.local, ~Contains(list, e)
    PROVE  Fine(ReplaceAt(list, i, e), posts)
<1>1. /\ list \in Seq(Entries) /\ DOMAIN list = 1..Len(list)
      /\ \A n \in DOMAIN list : list[n] # e
  BY LenProperties DEF Fine, Contains
<1>2. /\ ReplaceAt(list, i, e) \in Seq(Entries)
      /\ DOMAIN ReplaceAt(list, i, e) = DOMAIN list
      /\ \A n \in DOMAIN list : ReplaceAt(list, i, e)[n] = IF n = i THEN e ELSE list[n]
  BY <1>1, ExceptSeq DEF ReplaceAt
<1> QED
  BY <1>1, <1>2 DEF Fine, IsInjective

LEMMA FineEmpty == \A posts : Fine(<<>>, posts)
BY EmptySeq DEF Fine, IsInjective

(* What is sent stays sent. *)
LEMMA FineLater == ASSUME NEW list, NEW posts, NEW later, Fine(list, posts),
                          post \in [Posts -> {NoPost} \union Sent],
                          \A p \in Posts : posts[p] # NoPost => later[p] # NoPost
                   PROVE  Fine(list, later)
<1>1. ASSUME NEW n \in DOMAIN list PROVE list[n].post \in Posts
  <2>1. list \in Seq(Entries)
    BY DEF Fine
  <2>2. list[n] \in Entries
    BY <2>1, ElementOfSeq, LenProperties
  <2> QED
    BY <2>2 DEF Entries
<1> QED
  BY <1>1 DEF Fine

LEMMA CachedOk == ASSUME NEW old, NEW posts, CacheOk(old, posts), NEW c \in Channels,
                         NEW list, Fine(list, posts)
                  PROVE  CacheOk(Cached(old, c, list), posts)
<1>1. list \in Seq(Entries)
  BY DEF Fine
<1> QED
  BY <1>1 DEF CacheOk, Cached, Caches

LEMMA ShowOk == ASSUME NEW old, NEW posts, CacheOk(old, posts), NEW list, Fine(list, posts),
                       NEW busy \in BOOLEAN, key' \in Channels, Show(list, old, busy)
                PROVE  /\ loading' \in BOOLEAN
                       /\ Fine(msgs', posts)
                       /\ CacheOk(cache', posts)
<1>1. CASE busy
  BY <1>1 DEF Show
<1>2. CASE ~busy
  BY <1>2, CachedOk DEF Show
<1> QED
  BY <1>1, <1>2

(* The greatest of some numbers up to a bound is one of them. *)
LEMMA MaxIn == ASSUME NEW N \in Nat, NEW I \in SUBSET (1..N), I # {}
               PROVE  Max(I) \in I
<1> DEFINE T == {N - i : i \in I}
<1>1. T \subseteq Nat /\ T # {}
  <2>1. ASSUME NEW i \in I PROVE N - i \in Nat
    <3>1. i \in 1..N
      OBVIOUS
    <3> QED
      BY <3>1
  <2> QED
    BY <2>1
<1>2. PICK m \in T : \A y \in T : ~(<<y, m>> \in OpToRel(<, Nat))
  BY <1>1, NatLessThanWellFounded, WFMin
<1>3. PICK x \in I : m = N - x
  BY <1>2
<1>4. ASSUME NEW y \in I PROVE x >= y
  <2>1. N - y \in T /\ N - y \in Nat /\ m \in Nat
    BY <1>1
  <2>2. ~(N - y < m)
    BY <1>2, <2>1 DEF OpToRel
  <2> QED
    BY <1>3, <2>2
<1> QED
  BY <1>4 DEF Max

(* The list once a frame is heard. *)
LEMMA FineMerged == ASSUME Fine(msgs, post), NEW p \in Posts
                    PROVE  /\ Fine(Merged(p), post)
                           /\ \A n \in DOMAIN Merged(p) :
                                 \/ Merged(p)[n] = Message(p)
                                 \/ \E i \in DOMAIN msgs : Merged(p)[n] = msgs[i]
<1> DEFINE mine(e) == e.local /\ post[e.post].text = post[p].text
           I == {n \in 1..Len(msgs) : mine(msgs[n])}
           last == IF I # {} THEN Max(I) ELSE 0
<1>1. msgs \in Seq(Entries) /\ Len(msgs) \in Nat /\ DOMAIN msgs = 1..Len(msgs)
  BY LenProperties DEF Fine
<1>2. Message(p) \in Entries /\ ~Message(p).local
  BY DEF Message, Entries
<1>3. last = 0 \/ last \in DOMAIN msgs
  BY <1>1, MaxIn
<1>4. Merged(p) = IF Contains(msgs, Message(p)) THEN msgs
                  ELSE IF post[p].mine /\ last > 0 THEN ReplaceAt(msgs, last, Message(p))
                  ELSE Append(msgs, Message(p))
  BY DEF Merged, SelectLastInSeq
<1> HIDE DEF last
<1>5. CASE Contains(msgs, Message(p))
  BY <1>4, <1>5
<1>6. CASE ~Contains(msgs, Message(p)) /\ post[p].mine /\ last > 0
  <2>1. Merged(p) = ReplaceAt(msgs, last, Message(p)) /\ last \in DOMAIN msgs
    BY <1>3, <1>4, <1>6
  <2>2. Fine(Merged(p), post)
    BY <1>2, <1>6, <2>1, FineReplaced
  <2> QED
    BY <2>1, <2>2 DEF ReplaceAt
<1>7. CASE ~Contains(msgs, Message(p)) /\ ~(post[p].mine /\ last > 0)
  <2>1. Merged(p) = Append(msgs, Message(p))
    BY <1>4, <1>7
  <2>2. Fine(Merged(p), post)
    BY <1>2, <1>7, <2>1, FineAppended
  <2> QED
    BY <1>1, <1>2, <2>1, <2>2, AppendProperties, LenProperties
<1> QED
  BY <1>5, <1>6, <1>7
-----------------------------------------------------------------------------
(* Loads and posts. *)

LEMMA Staged == ASSUME LoadsTyped, NEW i \in DOMAIN loads,
                       NEW state \in {"shown", "done", "failed"}, Stage(i, state)
                PROVE  /\ LoadsTyped'
                       /\ Len(loads') = Len(loads) /\ DOMAIN loads' = DOMAIN loads
                       /\ Len(loads) \in DOMAIN loads
                       /\ \A j \in DOMAIN loads :
                             /\ loads'[j].page = loads[j].page
                             /\ loads'[j].state = IF j = i THEN state ELSE loads[j].state
<1>1. /\ loads \in Seq(Loads) /\ Len(loads) \in Nat /\ DOMAIN loads = 1..Len(loads)
      /\ Len(loads) # 0
  BY LenProperties, EmptySeq DEF LoadsTyped
<1>2. loads[i] \in Loads
  BY <1>1, ElementOfSeq
<1>3. [loads[i] EXCEPT !.state = state] \in Loads
  BY <1>2 DEF Loads
<1>4. loads' = [loads EXCEPT ![i] = [loads[i] EXCEPT !.state = state]]
  BY DEF Stage
<1>5. /\ loads' \in Seq(Loads) /\ DOMAIN loads' = DOMAIN loads
      /\ \A j \in DOMAIN loads :
            loads'[j] = IF j = i THEN [loads[i] EXCEPT !.state = state] ELSE loads[j]
  BY <1>1, <1>3, <1>4, ExceptSeq
<1>6. Len(loads') = Len(loads) /\ loads' # <<>>
  BY <1>1, <1>5, LenProperties, EmptySeq
<1>7. \A j \in DOMAIN loads : loads[j] \in Loads
  BY <1>1, ElementOfSeq
<1> QED
  BY <1>1, <1>2, <1>5, <1>6, <1>7 DEF LoadsTyped, Loads

(* A message that was sent goes on to another stage. *)
LEMMA Stepped == ASSUME post \in [Posts -> {NoPost} \union Sent], NEW p \in Posts,
                        post[p] # NoPost, NEW stage \in Stages \ {"none"}, Step(p, stage)
                 PROVE  /\ post' \in [Posts -> {NoPost} \union Sent]
                        /\ \A q \in Posts : post[q] # NoPost => post'[q] # NoPost
                        /\ post'[p].stage = stage
                        /\ \A q \in Posts : q # p => post'[q] = post[q]
<1>1. post[p] \in Sent /\ post' = [post EXCEPT ![p] = [post[p] EXCEPT !.stage = stage]]
  BY DEF Step
<1>2. [post[p] EXCEPT !.stage = stage] \in Sent
  BY <1>1 DEF Sent
<1>3. \A x \in Sent : x # NoPost
  BY DEF Sent, NoPost
<1> QED
  BY <1>1, <1>2, <1>3

(* What lists and pages hold was sent, and stays sent. *)
LEMMA ListsLater == ASSUME IInv, \A q \in Posts : post[q] # NoPost => post'[q] # NoPost
                    PROVE  /\ Fine(msgs, post')
                           /\ CacheOk(cache, post')
                           /\ \A i \in DOMAIN loads : PageOk(loads[i].page, post')
<1>1. /\ post \in [Posts -> {NoPost} \union Sent] /\ Fine(msgs, post)
      /\ cache \in Caches /\ \A c \in Channels : Fine(cache[c].list, post)
      /\ \A i \in DOMAIN loads : PageOk(loads[i].page, post)
  BY DEF IInv, RowsOk, PanelOk, CacheOk, LoadsOk
<1>2. \A list : Fine(list, post) => Fine(list, post')
  BY <1>1, FineLater
<1> QED
  BY <1>1, <1>2 DEF CacheOk, PageOk

(* An entry that is not there, and one of a message that was not sent. *)
LEMMA NotThere == ASSUME NEW p, Fine(msgs, post), post[p] = NoPost
                  PROVE  ~Contains(msgs, Local(p))
<1>1. DOMAIN msgs = 1..Len(msgs)
  BY LenProperties DEF Fine
<1> QED
  BY <1>1 DEF Fine, Contains, Local
-----------------------------------------------------------------------------
(* The first state. *)

LEMMA InitHolds == Init => IInv
<1> SUFFICES ASSUME Init PROVE IInv
  OBVIOUS
<1>1. <<>> \in Seq(Entries) /\ <<>> \in Seq(Posts)
  BY EmptySeq
<1>2. PanelOk
  BY <1>1, FineEmpty, PanelAssumption DEF Init, PanelOk, CacheOk, Caches
<1>3. Load(First) \in Loads
  BY <1>1, PanelAssumption DEF Load, Loads
<1>4. LoadsTyped /\ DOMAIN loads = {1} /\ loads[1] = Load(First) /\ Len(loads) = 1
  BY <1>3 DEF Init, LoadsTyped
<1>5. LoadsOk
  BY <1>4, FineEmpty DEF LoadsOk, PageOk, Load
<1>6. RowsOk
  <2>1. \A c \in Channels : rows[c] = <<>>
    BY DEF Init
  <2> QED
    BY <1>1, <2>1 DEF Init, RowsOk, IsInjective
<1>7. SocketOk /\ PendingOnly
  BY <1>1, <1>4 DEF Init, SocketOk, PendingOnly, Load
<1> QED
  BY <1>2, <1>5, <1>6, <1>7 DEF IInv
-----------------------------------------------------------------------------
(* The channels and the pages. *)

LEMMA GoHolds == ASSUME IInv, NEW c \in Channels, Go(c) PROVE IInv'
<1> DEFINE before == IF loading THEN cache ELSE Cached(cache, c, msgs)
<1>1. /\ key' = c /\ loads' = Append(loads, Load(c)) /\ UNCHANGED <<post, rows>>
      /\ listening' = FALSE /\ frames' = <<>>
      /\ \/ Show(cache[c].list, before, FALSE)
         \/ Show(<<>>, before, TRUE)
  BY DEF Go
<1>2. PanelOk'
  <2>1. CacheOk(before, post) /\ Fine(cache[c].list, post) /\ Fine(<<>>, post)
    BY CachedOk, FineEmpty DEF IInv, PanelOk, CacheOk
  <2>2. loading' \in BOOLEAN /\ Fine(msgs', post) /\ CacheOk(cache', post)
    BY <1>1, <2>1, ShowOk
  <2> QED
    BY <1>1, <2>2 DEF PanelOk
<1>3. Load(c) \in Loads /\ PageOk(Load(c).page, post)
  BY EmptySeq, FineEmpty DEF Load, Loads, PageOk
<1>4. /\ loads' \in Seq(Loads) /\ Len(loads') = Len(loads) + 1 /\ Len(loads) \in Nat
      /\ DOMAIN loads' = 1..(Len(loads) + 1) /\ DOMAIN loads = 1..Len(loads)
      /\ \A j \in 1..Len(loads) : loads'[j] = loads[j]
      /\ loads'[Len(loads) + 1] = Load(c)
  BY <1>1, <1>3, AppendProperties, LenProperties DEF IInv, LoadsOk, LoadsTyped
<1>5. LoadsOk'
  <2>1. LoadsTyped'
    BY <1>1, <1>4, AppendProperties DEF IInv, LoadsOk, LoadsTyped
  <2>2. ASSUME NEW j \in DOMAIN loads' PROVE PageOk(loads'[j].page, post)
    <3>1. CASE j = Len(loads) + 1
      BY <1>3, <1>4, <3>1
    <3>2. CASE j \in DOMAIN loads
      BY <1>4, <3>2 DEF IInv, LoadsOk
    <3> QED
      BY <1>4, <3>1, <3>2
  <2> QED
    BY <1>1, <2>1, <2>2 DEF LoadsOk
<1>6. RowsOk' /\ SocketOk'
  BY <1>1, EmptySeq DEF IInv, RowsOk, SocketOk
<1>7. PendingOnly'
  <2>1. loads'[Len(loads')].state = "asked"
    BY <1>4 DEF Load
  <2> QED
    BY <2>1 DEF PendingOnly
<1> QED
  BY <1>2, <1>5, <1>6, <1>7 DEF IInv

LEMMA ReadHolds == ASSUME IInv, NEW i \in DOMAIN loads, Read(i) PROVE IInv'
<1>1. PICK table \in {rows[loads[i].to], <<>>} :
         loads' = [loads EXCEPT ![i].state = "read",
                                ![i].page = [n \in DOMAIN table |-> Message(table[n])]]
  BY DEF Read
<1> DEFINE page == [n \in DOMAIN table |-> Message(table[n])]
           load == [loads[i] EXCEPT !.state = "read", !.page = page]
<1>2. /\ loads \in Seq(Loads) /\ Len(loads) \in Nat /\ DOMAIN loads = 1..Len(loads)
      /\ \A j \in DOMAIN loads : loads[j] \in Loads
  BY LenProperties, ElementOfSeq DEF IInv, LoadsOk, LoadsTyped
<1>3. table \in Seq(Posts) /\ IsInjective(table)
  <2>1. rows[loads[i].to] \in Seq(Posts) /\ IsInjective(rows[loads[i].to])
    BY <1>2 DEF IInv, RowsOk, Loads
  <2>2. <<>> \in Seq(Posts) /\ IsInjective(<<>>)
    BY EmptySeq DEF IsInjective
  <2> QED
    BY <2>1, <2>2
<1>4. PageOk(page, post)
  <2>1. Len(table) \in Nat /\ DOMAIN table = 1..Len(table)
    BY <1>3, LenProperties
  <2>2. ASSUME NEW n \in DOMAIN table
        PROVE  page[n] \in Entries /\ ~page[n].local /\ page[n].post = table[n]
    <3>1. table[n] \in Posts
      BY <1>3, <2>1, ElementOfSeq
    <3> QED
      BY <3>1 DEF Message, Entries
  <2>3. page \in Seq(Entries)
    BY <2>1, <2>2, IsASeq
  <2>4. IsInjective(page)
    BY <1>3, <2>2 DEF IsInjective
  <2> QED
    BY <2>2, <2>3, <2>4 DEF PageOk, Fine
<1> HIDE DEF page
<1>5. load \in Loads /\ load.page = page /\ load.state = "read"
  <2>1. page \in Seq(Entries)
    BY <1>4 DEF PageOk, Fine
  <2> QED
    BY <1>2, <2>1 DEF Loads
<1>6. loads' = [loads EXCEPT ![i] = load]
  BY <1>1 DEF page
<1> HIDE DEF load
<1>7. /\ loads' \in Seq(Loads) /\ DOMAIN loads' = DOMAIN loads
      /\ \A j \in DOMAIN loads : loads'[j] = IF j = i THEN load ELSE loads[j]
  BY <1>2, <1>5, <1>6, ExceptSeq
<1>8. Len(loads') = Len(loads) /\ LoadsTyped'
  BY <1>2, <1>7, LenProperties, EmptySeq DEF LoadsTyped
<1>9. UNCHANGED <<panel, socket, post, rows>>
  BY DEF Read
<1>10. LoadsOk'
  BY <1>4, <1>5, <1>7, <1>8, <1>9 DEF IInv, LoadsOk
<1>11. PanelOk' /\ RowsOk' /\ SocketOk'
  BY <1>9 DEF IInv, PanelOk, RowsOk, SocketOk, panel, socket
<1>12. PendingOnly'
  <2>1. Len(loads) \in DOMAIN loads
    BY <1>2, EmptySeq DEF IInv, LoadsOk, LoadsTyped
  <2> QED
    BY <1>5, <1>7, <1>8, <1>9, <2>1 DEF IInv, PendingOnly, panel
<1> QED
  BY <1>10, <1>11, <1>12 DEF IInv

(* The steps of a load that has a page: the loads, and what is not shown.  *)
LEMMA LoadSteps == ASSUME IInv, NEW i \in DOMAIN loads,
                          NEW state \in {"shown", "done", "failed"}, Stage(i, state),
                          UNCHANGED <<socket, post, rows>>
                   PROVE  LoadsOk' /\ RowsOk' /\ SocketOk'
<1>1. LoadsOk'
  BY Staged DEF IInv, LoadsOk
<1> QED
  BY <1>1 DEF IInv, RowsOk, SocketOk, socket

LEMMA LoadedHolds == ASSUME IInv, NEW i \in DOMAIN loads, Loaded(i) PROVE IInv'
<1>1. /\ Stage(i, "shown") /\ UNCHANGED <<socket, post, rows, key>>
      /\ Show(loads[i].page, cache, loading)
  BY DEF Loaded
<1>2. LoadsOk' /\ RowsOk' /\ SocketOk'
  BY <1>1, LoadSteps
<1>3. PageOk(loads[i].page, post)
  BY DEF IInv, LoadsOk
<1>4. PanelOk'
  <2>1. key' \in Channels /\ CacheOk(cache, post) /\ loading \in BOOLEAN /\ Fine(loads[i].page, post)
    BY <1>1, <1>3 DEF IInv, PanelOk, PageOk
  <2>2. loading' \in BOOLEAN /\ Fine(msgs', post) /\ CacheOk(cache', post)
    BY <1>1, <2>1, ShowOk
  <2> QED
    BY <1>1, <2>1, <2>2 DEF PanelOk
<1>5. PendingOnly'
  <2>1. msgs' = loads[i].page
    BY <1>1 DEF Show
  <2>2. \A p \in Posts : ~Contains(msgs', Local(p))
    BY <1>3, <2>1, LenProperties DEF PageOk, Fine, Contains, Local
  <2> QED
    BY <2>2 DEF PendingOnly
<1> QED
  BY <1>2, <1>4, <1>5 DEF IInv

LEMMA LoadEndsHolds == ASSUME IInv, NEW i \in DOMAIN loads, LoadEnds(i) PROVE IInv'
<1> DEFINE kept == Cached(cache, key, loads[i].page)
<1>1. /\ loads[i].state = "shown" /\ Stage(i, "done") /\ UNCHANGED <<socket, post, rows, key, msgs>>
      /\ \/ UNCHANGED <<cache, loading>>
         \/ Show(msgs, kept, FALSE)
         \/ cache' = kept /\ UNCHANGED loading
  BY DEF LoadEnds
<1>2. LoadsOk' /\ RowsOk' /\ SocketOk'
  BY <1>1, LoadSteps
<1>3. PanelOk'
  <2>1. /\ key \in Channels /\ CacheOk(cache, post) /\ loading \in BOOLEAN
        /\ Fine(msgs, post) /\ Fine(loads[i].page, post)
    BY DEF IInv, PanelOk, LoadsOk, PageOk
  <2>2. CacheOk(kept, post)
    BY <2>1, CachedOk
  <2> HIDE DEF kept
  <2>3. CASE Show(msgs, kept, FALSE)
    <3>1. loading' \in BOOLEAN /\ Fine(msgs', post) /\ CacheOk(cache', post)
      BY <1>1, <2>1, <2>2, <2>3, ShowOk
    <3> QED
      BY <1>1, <2>1, <3>1 DEF PanelOk
  <2>4. CASE UNCHANGED loading /\ cache' \in {cache, kept}
    BY <1>1, <2>1, <2>2, <2>4 DEF PanelOk
  <2> QED
    BY <1>1, <2>3, <2>4
<1>4. PendingOnly'
  BY <1>1, Staged DEF IInv, LoadsOk, PendingOnly
<1> QED
  BY <1>2, <1>3, <1>4 DEF IInv

LEMMA LoadFailsHolds == ASSUME IInv, NEW i \in DOMAIN loads, LoadFails(i) PROVE IInv'
<1>1. /\ Stage(i, "failed") /\ UNCHANGED <<socket, post, rows, key>>
      /\ \/ UNCHANGED <<msgs, cache, loading>>
         \/ Current(i) /\ Show(<<>>, cache, FALSE)
  BY DEF LoadFails
<1>2. LoadsOk' /\ RowsOk' /\ SocketOk'
  BY <1>1, LoadSteps
<1>3. PanelOk'
  <2>1. key \in Channels /\ CacheOk(cache, post) /\ Fine(<<>>, post)
    BY FineEmpty DEF IInv, PanelOk
  <2>2. CASE UNCHANGED <<msgs, cache, loading>>
    BY <1>1, <2>2 DEF IInv, PanelOk
  <2>3. CASE Show(<<>>, cache, FALSE)
    <3>1. loading' \in BOOLEAN /\ Fine(msgs', post) /\ CacheOk(cache', post)
      BY <1>1, <2>1, <2>3, ShowOk
    <3> QED
      BY <1>1, <2>1, <3>1 DEF PanelOk
  <2> QED
    BY <1>1, <2>2, <2>3
<1>4. PendingOnly'
  <2>1. CASE UNCHANGED msgs
    BY <1>1, <2>1, Staged DEF IInv, LoadsOk, PendingOnly
  <2>2. CASE Current(i)
    <3>1. loads'[Len(loads')].state = "failed"
      BY <1>1, <2>2, Staged DEF IInv, LoadsOk, Current
    <3> QED
      BY <3>1 DEF PendingOnly
  <2> QED
    BY <1>1, <2>1, <2>2
<1> QED
  BY <1>2, <1>3, <1>4 DEF IInv
-----------------------------------------------------------------------------
(* Sending. *)

(* applyMessagesUpdate, with a list that is fine. *)
LEMMA ApplyHolds == ASSUME IInv, \A q \in Posts : post[q] # NoPost => post'[q] # NoPost,
                           UNCHANGED <<loads, socket, rows>>,
                           NEW c \in Channels, NEW list, Fine(list, post'), Apply(c, list)
                    PROVE  PanelOk' /\ LoadsOk' /\ SocketOk' /\ msgs' = list
<1>1. /\ key' = key /\ key \in Channels /\ loading \in BOOLEAN
      /\ Show(list, Cached(cache, c, list), loading)
  BY DEF Apply, IInv, PanelOk
<1>2. /\ CacheOk(cache, post')
      /\ \A i \in DOMAIN loads : PageOk(loads[i].page, post')
  BY ListsLater
<1>3. CacheOk(Cached(cache, c, list), post')
  BY <1>2, CachedOk
<1>4. loading' \in BOOLEAN /\ Fine(msgs', post') /\ CacheOk(cache', post')
  BY <1>1, <1>3, ShowOk
<1> QED
  BY <1>1, <1>2, <1>4 DEF IInv, PanelOk, LoadsOk, LoadsTyped, SocketOk, Show, socket

(* The rows, when a message that is stored goes on. *)
LEMMA RowsGoOn == ASSUME IInv, NEW p \in Posts, post[p] # NoPost, rows' = rows,
                         NEW stage \in Stages \ {"none", "sent"}, Step(p, stage)
                  PROVE  RowsOk'
<1>1. /\ post' \in [Posts -> {NoPost} \union Sent]
      /\ post'[p].stage = stage
      /\ \A q \in Posts : q # p => post'[q] = post[q]
  BY Stepped DEF IInv, RowsOk
<1>2. ASSUME NEW c \in Channels, NEW n \in DOMAIN rows[c]
      PROVE  post'[rows[c][n]].stage \notin {"none", "sent"}
  <2>1. rows[c] \in Seq(Posts) /\ post[rows[c][n]].stage \notin {"none", "sent"}
    BY DEF IInv, RowsOk
  <2>2. rows[c][n] \in Posts
    BY <2>1, ElementOfSeq, LenProperties
  <2> QED
    BY <1>1, <2>1, <2>2
<1> QED
  BY <1>1, <1>2 DEF IInv, RowsOk

LEMMA SendHolds == ASSUME IInv, NEW p \in Posts, NEW t \in Texts, Send(p, t) PROVE IInv'
<1> DEFINE sent == [stage |-> "sent", to |-> key, text |-> t, mine |-> TRUE]
           list == Append(msgs, Local(p))
<1>1. /\ post[p] = NoPost /\ post' = [post EXCEPT ![p] = sent] /\ Apply(key, list)
      /\ UNCHANGED <<loads, socket, rows>>
  BY DEF Send
<1>2. /\ post \in [Posts -> {NoPost} \union Sent] /\ key \in Channels /\ Fine(msgs, post)
      /\ \A c \in Channels : rows[c] \in Seq(Posts)
  BY DEF IInv, RowsOk, PanelOk
<1>3. sent \in Sent /\ sent # NoPost /\ sent.stage = "sent"
  BY <1>2 DEF Sent, Stages, NoPost
<1> HIDE DEF sent
<1>4. /\ post' \in [Posts -> {NoPost} \union Sent]
      /\ post'[p] = sent
      /\ \A q \in Posts : post[q] # NoPost => post'[q] # NoPost
      /\ \A q \in Posts : q # p => post'[q] = post[q]
  BY <1>1, <1>2, <1>3
<1>5. Fine(list, post')
  <2>1. Fine(msgs, post') /\ ~Contains(msgs, Local(p))
    BY <1>1, <1>2, <1>4, ListsLater, NotThere
  <2>2. Local(p) \in Entries /\ post'[Local(p).post] # NoPost
    BY <1>3, <1>4 DEF Local, Entries
  <2> QED
    BY <2>1, <2>2, FineAppended
<1>6. PanelOk' /\ LoadsOk' /\ SocketOk' /\ msgs' = list
  BY <1>1, <1>2, <1>4, <1>5, ApplyHolds
<1>7. RowsOk'
  <2>1. ASSUME NEW c \in Channels, NEW n \in DOMAIN rows[c]
        PROVE  post'[rows[c][n]].stage \notin {"none", "sent"}
    <3>1. rows[c][n] \in Posts /\ post[rows[c][n]].stage \notin {"none", "sent"}
      BY <1>2, ElementOfSeq, LenProperties DEF IInv, RowsOk
    <3>2. rows[c][n] # p
      BY <1>1, <3>1 DEF NoPost
    <3> QED
      BY <1>4, <3>1, <3>2
  <2>2. UNCHANGED rows
    BY <1>1
  <2> QED
    BY <1>4, <2>1, <2>2 DEF IInv, RowsOk
<1>8. PendingOnly'
  <2>1. ASSUME loads[Len(loads)].state \in {"shown", "done"},
               NEW q \in Posts, Contains(msgs', Local(q))
        PROVE  post'[q].stage # "done"
    <3>1. CASE q = p
      BY <1>3, <1>4, <3>1
    <3>2. CASE q # p
      <4>1. Contains(msgs, Local(q))
        <5>1. msgs \in Seq(Entries) /\ Local(p) # Local(q)
          BY <1>2, <3>2 DEF Fine, Local
        <5> QED
          BY <1>6, <2>1, <5>1, LenProperties, AppendProperties DEF Contains, Local, Entries
      <4> QED
        BY <1>4, <2>1, <3>2, <4>1 DEF IInv, PendingOnly
    <3> QED
      BY <3>1, <3>2
  <2>2. UNCHANGED loads
    BY <1>1
  <2> QED
    BY <2>1, <2>2 DEF PendingOnly
<1> QED
  BY <1>6, <1>7, <1>8 DEF IInv

(* Only what is not p's is left over. *)
LEMMA Purify == ASSUME IInv, NEW p \in Posts, NEW q \in Posts, Contains(Without(p), Local(q))
                PROVE  q # p /\ Contains(msgs, Local(q))
<1>1. msgs \in Seq(Entries)
  BY DEF IInv, PanelOk, Fine
<1>2. /\ Without(p) \in Seq(Entries)
      /\ \A n \in DOMAIN Without(p) :
            Without(p)[n] # Local(p) /\ \E i \in DOMAIN msgs : Without(p)[n] = msgs[i]
  BY <1>1, Purged
<1> QED
  BY <1>1, <1>2, LenProperties DEF Contains

LEMMA AnsweredHolds == ASSUME IInv, NEW p \in Posts, Answered(p) PROVE IInv'
<1> DEFINE list == IF Contains(Without(p), Message(p))
                   THEN Without(p) ELSE Append(Without(p), Message(p))
<1>1. /\ post[p].stage = "published" /\ Apply(post[p].to, list) /\ Step(p, "done")
      /\ UNCHANGED <<loads, socket, rows>>
  BY DEF Answered
<1>2. post[p] \in Sent /\ post[p] # NoPost
  BY <1>1 DEF IInv, RowsOk, NoPost
<1>3. /\ \A q \in Posts : post[q] # NoPost => post'[q] # NoPost
      /\ \A q \in Posts : q # p => post'[q] = post[q]
  BY <1>1, <1>2, Stepped DEF IInv, RowsOk, Stages
<1>4. Without(p) \in Seq(Entries) /\ Message(p) \in Entries
  BY Purged DEF Message, Entries, IInv, PanelOk, Fine
<1>5. Fine(list, post')
  <2>1. Fine(Without(p), post)
    BY FinePurged DEF IInv, PanelOk
  <2>2. Fine(Without(p), post')
    BY <1>3, <2>1, FineLater DEF IInv, RowsOk
  <2> QED
    BY <1>4, <2>2, FineAppended DEF Message
<1>6. PanelOk' /\ LoadsOk' /\ SocketOk' /\ msgs' = list
  BY <1>1, <1>2, <1>3, <1>5, ApplyHolds DEF Sent
<1>7. RowsOk'
  BY <1>1, <1>2, RowsGoOn DEF Stages
<1>8. PendingOnly'
  <2>1. ASSUME loads[Len(loads)].state \in {"shown", "done"},
               NEW q \in Posts, Contains(msgs', Local(q))
        PROVE  post'[q].stage # "done"
    <3>1. Message(p) # Local(q)
      BY DEF Message, Local
    <3>2. Contains(Without(p), Local(q))
      BY <1>4, <1>6, <2>1, <3>1, LenProperties, AppendProperties DEF Contains
    <3> QED
      BY <1>3, <2>1, <3>2, Purify DEF IInv, PendingOnly
  <2>2. UNCHANGED loads
    BY <1>1
  <2> QED
    BY <2>1, <2>2 DEF PendingOnly
<1> QED
  BY <1>6, <1>7, <1>8 DEF IInv

LEMMA RefusedHolds == ASSUME IInv, NEW p \in Posts, Refused(p) PROVE IInv'
<1>1. /\ post[p].stage = "failed" /\ Apply(post[p].to, Without(p)) /\ Step(p, "done")
      /\ UNCHANGED <<loads, socket, rows>>
  BY DEF Refused
<1>2. post[p] \in Sent /\ post[p] # NoPost
  BY <1>1 DEF IInv, RowsOk, NoPost
<1>3. /\ \A q \in Posts : post[q] # NoPost => post'[q] # NoPost
      /\ \A q \in Posts : q # p => post'[q] = post[q]
  BY <1>1, <1>2, Stepped DEF IInv, RowsOk, Stages
<1>4. Fine(Without(p), post')
  <2>1. Fine(Without(p), post)
    BY FinePurged DEF IInv, PanelOk
  <2> QED
    BY <1>3, <2>1, FineLater DEF IInv, RowsOk
<1>5. PanelOk' /\ LoadsOk' /\ SocketOk' /\ msgs' = Without(p)
  BY <1>1, <1>2, <1>3, <1>4, ApplyHolds DEF Sent
<1>6. RowsOk'
  BY <1>1, <1>2, RowsGoOn DEF Stages
<1>7. PendingOnly'
  BY <1>1, <1>3, <1>5, Purify DEF IInv, PendingOnly
<1> QED
  BY <1>5, <1>6, <1>7 DEF IInv
-----------------------------------------------------------------------------
(* The socket. *)

LEMMA ListenHolds == ASSUME IInv, Listen \/ Disconnect PROVE IInv'
BY EmptySeq DEF IInv, PanelOk, LoadsOk, LoadsTyped, RowsOk, SocketOk, PendingOnly,
                Listen, Disconnect, panel

LEMMA HearHolds == ASSUME IInv, Hear PROVE IInv'
<1> DEFINE p == Head(frames)
           list == Merged(p)
<1>1. /\ frames # <<>> /\ frames' = Tail(frames) /\ UNCHANGED <<loads, listening, post, rows, key>>
      /\ \/ list = msgs /\ UNCHANGED <<msgs, cache, loading>>
         \/ Show(list, cache, loading)
  BY DEF Hear
<1>2. p \in Posts /\ frames' \in Seq(Posts)
  BY <1>1, HeadTailProperties DEF IInv, SocketOk
<1>3. /\ Fine(list, post)
      /\ \A n \in DOMAIN list : \/ list[n] = Message(p)
                                \/ \E i \in DOMAIN msgs : list[n] = msgs[i]
  BY <1>2, FineMerged DEF IInv, PanelOk
<1>4. msgs' = list /\ PanelOk'
  <2>1. CASE list = msgs /\ UNCHANGED <<msgs, cache, loading>>
    BY <1>1, <2>1 DEF IInv, PanelOk
  <2>2. CASE Show(list, cache, loading)
    <3>1. key' \in Channels /\ CacheOk(cache, post) /\ loading \in BOOLEAN
      BY <1>1 DEF IInv, PanelOk
    <3>2. loading' \in BOOLEAN /\ Fine(msgs', post) /\ CacheOk(cache', post)
      BY <1>3, <2>2, <3>1, ShowOk
    <3> QED
      BY <1>1, <2>2, <3>1, <3>2 DEF PanelOk, Show
  <2> QED
    BY <1>1, <2>1, <2>2
<1>5. PendingOnly'
  <2>1. ASSUME NEW q \in Posts, Contains(msgs', Local(q)) PROVE Contains(msgs, Local(q))
    <3>1. msgs \in Seq(Entries) /\ list \in Seq(Entries)
      BY <1>3 DEF Fine, IInv, PanelOk
    <3>2. Message(p) # Local(q)
      BY DEF Message, Local
    <3> QED
      BY <1>3, <1>4, <2>1, <3>1, <3>2, LenProperties DEF Contains
  <2> QED
    BY <1>1, <2>1 DEF IInv, PendingOnly
<1> QED
  BY <1>1, <1>2, <1>4, <1>5 DEF IInv, LoadsOk, LoadsTyped, RowsOk, SocketOk
-----------------------------------------------------------------------------
(* The backend. *)

(* What a step of a handler, or another user's, leaves alone. *)
LEMMA Apart == ASSUME IInv, NEW p \in Posts,
                      \A q \in Posts : post[q] # NoPost => post'[q] # NoPost,
                      \A q \in Posts : q # p => post'[q] = post[q],
                      post'[p].stage # "done", UNCHANGED <<panel, loads>>
               PROVE  PanelOk' /\ LoadsOk' /\ PendingOnly'
<1>1. /\ Fine(msgs, post') /\ CacheOk(cache, post')
      /\ \A i \in DOMAIN loads : PageOk(loads[i].page, post')
  BY ListsLater
<1>2. PendingOnly'
  BY DEF IInv, PendingOnly, panel
<1> QED
  BY <1>1, <1>2 DEF IInv, PanelOk, LoadsOk, LoadsTyped, panel

(* A message is inserted at the end of a channel where it is not yet. *)
LEMMA RowsInserted ==
    ASSUME IInv, NEW p \in Posts, post[p].stage \in {"none", "sent"}, NEW c \in Channels,
           rows' = [rows EXCEPT ![c] = Append(@, p)],
           post' \in [Posts -> {NoPost} \union Sent], post'[p].stage = "inserted",
           \A q \in Posts : q # p => post'[q] = post[q]
    PROVE  RowsOk'
<1>1. ASSUME NEW d \in Channels
      PROVE  /\ rows[d] \in Seq(Posts) /\ IsInjective(rows[d])
             /\ Len(rows[d]) \in Nat /\ DOMAIN rows[d] = 1..Len(rows[d])
             /\ \A n \in DOMAIN rows[d] :
                   /\ rows[d][n] \in Posts /\ rows[d][n] # p
                   /\ post[rows[d][n]].stage \notin {"none", "sent"}
  BY ElementOfSeq, LenProperties DEF IInv, RowsOk
<1>2. /\ Append(rows[c], p) \in Seq(Posts)
      /\ DOMAIN Append(rows[c], p) = 1..(Len(rows[c]) + 1)
      /\ \A n \in DOMAIN Append(rows[c], p) :
            Append(rows[c], p)[n] = IF n = Len(rows[c]) + 1 THEN p ELSE rows[c][n]
  BY <1>1, AppendProperties, LenProperties
<1>3. /\ rows' \in [Channels -> Seq(Posts)] /\ rows'[c] = Append(rows[c], p)
      /\ \A d \in Channels : d # c => rows'[d] = rows[d]
  BY <1>2 DEF IInv, RowsOk
<1>4. IsInjective(rows'[c])
  BY <1>1, <1>2, <1>3 DEF IsInjective
<1>5. \A n \in DOMAIN rows'[c] : post'[rows'[c][n]].stage \notin {"none", "sent"}
  BY <1>1, <1>2, <1>3
<1>6. ASSUME NEW d \in Channels, d # c
      PROVE  /\ IsInjective(rows'[d])
             /\ \A n \in DOMAIN rows'[d] : post'[rows'[d][n]].stage \notin {"none", "sent"}
  BY <1>1, <1>3, <1>6
<1> QED
  BY <1>3, <1>4, <1>5, <1>6 DEF RowsOk

LEMMA PostHolds == ASSUME IInv, NEW p \in Posts, NEW c \in Channels, NEW t \in Texts,
                          Post(p, c, t)
                   PROVE  IInv'
<1> DEFINE other == [stage |-> "inserted", to |-> c, text |-> t, mine |-> FALSE]
<1>1. /\ post[p] = NoPost /\ post' = [post EXCEPT ![p] = other]
      /\ rows' = [rows EXCEPT ![c] = Append(@, p)] /\ UNCHANGED <<panel, loads, socket>>
  BY DEF Post
<1>2. other \in Sent /\ other # NoPost /\ other.stage = "inserted"
  BY DEF Sent, Stages, NoPost
<1> HIDE DEF other
<1>3. /\ post' \in [Posts -> {NoPost} \union Sent] /\ post'[p].stage = "inserted"
      /\ \A q \in Posts : post[q] # NoPost => post'[q] # NoPost
      /\ \A q \in Posts : q # p => post'[q] = post[q]
  BY <1>1, <1>2 DEF IInv, RowsOk
<1>4. RowsOk'
  <2>1. post[p].stage \in {"none", "sent"}
    BY <1>1 DEF NoPost
  <2> QED
    BY <1>1, <1>3, <2>1, RowsInserted
<1>5. PanelOk' /\ LoadsOk' /\ PendingOnly'
  BY <1>1, <1>3, Apart
<1> QED
  BY <1>1, <1>4, <1>5 DEF IInv, SocketOk, socket

LEMMA InsertHolds == ASSUME IInv, NEW p \in Posts, Insert(p) PROVE IInv'
<1>1. /\ post[p].stage = "sent" /\ rows' = [rows EXCEPT ![post[p].to] = Append(@, p)]
      /\ Step(p, "inserted") /\ UNCHANGED <<panel, loads, socket>>
  BY DEF Insert
<1>2. post[p] \in Sent /\ post[p] # NoPost /\ post[p].to \in Channels
  BY <1>1 DEF IInv, RowsOk, NoPost, Sent
<1>3. /\ post' \in [Posts -> {NoPost} \union Sent] /\ post'[p].stage = "inserted"
      /\ \A q \in Posts : post[q] # NoPost => post'[q] # NoPost
      /\ \A q \in Posts : q # p => post'[q] = post[q]
  BY <1>1, <1>2, Stepped DEF IInv, RowsOk, Stages
<1>4. RowsOk'
  BY <1>1, <1>2, <1>3, RowsInserted
<1>5. PanelOk' /\ LoadsOk' /\ PendingOnly'
  BY <1>1, <1>3, Apart
<1> QED
  BY <1>1, <1>4, <1>5 DEF IInv, SocketOk, socket

LEMMA PublishHolds == ASSUME IInv, NEW p \in Posts, Publish(p) PROVE IInv'
<1>1. /\ post[p].stage = "inserted" /\ frames' \in {frames, Append(frames, p)}
      /\ Step(p, "published") /\ UNCHANGED <<panel, loads, listening, rows>>
  BY DEF Publish
<1>2. post[p] # NoPost
  BY <1>1 DEF NoPost
<1>3. /\ post'[p].stage = "published"
      /\ \A q \in Posts : post[q] # NoPost => post'[q] # NoPost
      /\ \A q \in Posts : q # p => post'[q] = post[q]
  BY <1>1, <1>2, Stepped DEF IInv, RowsOk, Stages
<1>4. RowsOk'
  BY <1>1, <1>2, RowsGoOn DEF Stages
<1>5. PanelOk' /\ LoadsOk' /\ PendingOnly'
  BY <1>1, <1>3, Apart
<1>6. frames' \in Seq(Posts)
  BY <1>1, AppendProperties DEF IInv, SocketOk
<1> QED
  BY <1>1, <1>4, <1>5, <1>6 DEF IInv, SocketOk

LEMMA FailHolds == ASSUME IInv, NEW p \in Posts, Fail(p) PROVE IInv'
<1>1. /\ post[p].stage \in {"sent", "inserted", "published"}
      /\ Step(p, "failed") /\ UNCHANGED <<panel, loads, socket, rows>>
  BY DEF Fail
<1>2. post[p] # NoPost
  BY <1>1 DEF NoPost
<1>3. /\ post'[p].stage = "failed"
      /\ \A q \in Posts : post[q] # NoPost => post'[q] # NoPost
      /\ \A q \in Posts : q # p => post'[q] = post[q]
  BY <1>1, <1>2, Stepped DEF IInv, RowsOk, Stages
<1>4. RowsOk'
  BY <1>1, <1>2, RowsGoOn DEF Stages
<1>5. PanelOk' /\ LoadsOk' /\ PendingOnly'
  BY <1>1, <1>3, Apart
<1> QED
  BY <1>1, <1>4, <1>5 DEF IInv, SocketOk, socket
-----------------------------------------------------------------------------
LEMMA StutterHolds == ASSUME IInv, UNCHANGED vars PROVE IInv'
BY DEF IInv, PanelOk, LoadsOk, LoadsTyped, RowsOk, SocketOk, PendingOnly, vars, panel, socket

LEMMA Invariance == Spec => []IInv
<1>1. Init => IInv
  BY InitHolds
<1>2. IInv /\ [Next]_vars => IInv'
  <2> SUFFICES ASSUME IInv, [Next]_vars PROVE IInv'
    OBVIOUS
  <2>1. ASSUME NEW c \in Channels, Go(c) PROVE IInv'
    BY <2>1, GoHolds
  <2>2. ASSUME NEW i \in DOMAIN loads, Read(i) \/ Loaded(i) \/ LoadEnds(i) \/ LoadFails(i)
        PROVE  IInv'
    BY <2>2, ReadHolds, LoadedHolds, LoadEndsHolds, LoadFailsHolds
  <2>3. ASSUME NEW p \in Posts, NEW t \in Texts, Send(p, t) \/ \E c \in Channels : Post(p, c, t)
        PROVE  IInv'
    BY <2>3, SendHolds, PostHolds
  <2>4. ASSUME NEW p \in Posts,
               Answered(p) \/ Refused(p) \/ Insert(p) \/ Publish(p) \/ Fail(p)
        PROVE  IInv'
    BY <2>4, AnsweredHolds, RefusedHolds, InsertHolds, PublishHolds, FailHolds
  <2>5. CASE Listen \/ Disconnect \/ Hear
    BY <2>5, ListenHolds, HearHolds
  <2>6. CASE UNCHANGED vars
    BY <2>6, StutterHolds
  <2> QED
    BY <2>1, <2>2, <2>3, <2>4, <2>5, <2>6 DEF Next
<1> QED
  BY <1>1, <1>2, PTL DEF Spec

(* The state of the panel, of its loads and of the messages has the types   *)
(* the code gives them, after any steps.                                   *)
THEOREM Types == Spec => []TypeOK
<1>1. IInv => TypeOK
  <2> SUFFICES ASSUME IInv PROVE TypeOK
    OBVIOUS
  <2>1. key \in Channels /\ loading \in BOOLEAN /\ msgs \in Seq(Entries) /\ cache \in Caches
    BY DEF IInv, PanelOk, Fine, CacheOk
  <2>2. \A i \in DOMAIN loads : loads[i] \in Loads
    BY ElementOfSeq, LenProperties DEF IInv, LoadsOk, LoadsTyped
  <2>3. \A p \in Posts : post[p] = NoPost \/ post[p] \in Sent
    BY DEF IInv, RowsOk
  <2>4. rows \in [Channels -> Seq(Posts)] /\ SocketOk
    BY DEF IInv, RowsOk
  <2> QED
    BY <2>1, <2>2, <2>3, <2>4 DEF TypeOK, Caches, Loads, Sent, SocketOk
<1> QED
  BY <1>1, Invariance, PTL

(* No list, shown or cached, has a message twice: not after an answer that  *)
(* comes behind its frame, or a frame behind the page that has it.         *)
THEOREM NeverTwice == Spec => []NoTwice
<1>1. IInv => NoTwice
  BY DEF IInv, PanelOk, CacheOk, Fine, NoTwice, Lists
<1> QED
  BY <1>1, Invariance, PTL

(* An optimistic entry that is shown, once the channel's page came, is one  *)
(* whose answer is awaited.                                                *)
THEOREM OnlyPending == Spec => []PendingOnly
<1>1. IInv => PendingOnly
  BY DEF IInv
<1> QED
  BY <1>1, Invariance, PTL
=============================================================================
