---------------------------- MODULE ConsoleProofs ----------------------------
(***************************************************************************)
(* What the console shows, for every set of pages, any number of changes,  *)
(* lost channels, renewed tokens and failed requests; and what the         *)
(* policies on members promise those who use it, for teams of any size and *)
(* any number of overlapping updates.                                      *)
(***************************************************************************)
EXTENDS Console, Team, Session, TLAPS

CachedData == [has : BOOLEAN, misses : SUBSET Kinds, invalid : BOOLEAN,
               unheard : BOOLEAN]

LEMMA ChangeTopics ==
    ASSUME NEW change \in Changes
    PROVE  change.topics \subseteq Topics
BY DEF Changes, Change, Topics, EventApplied, FailureApplied, IncidentMoved,
       ReplayRequested, ReplayProcessed, ApprovalDecided, CredentialStored,
       SourceCreated, EnvironmentAdded, RuleChanged, ProfileSaved, RoleChanged

LEMMA UnreadFetch ==
    ASSUME ConsoleTypeOK
    PROVE  /\ Unread \in Fetches(page)
           /\ Unread # NoFetch
<1>1. Unread \in Fetches(page)
  BY DEF Unread, Fetches
<1>2. NoFetch \notin Fetches(page)
  BY ConsoleAssumption DEF ConsoleTypeOK
<1>. QED
  BY <1>1, <1>2

\* An invalidated query is being fetched: from the beginning, or, in its
\* first fetch, with the refresh ignored.
LEMMA Refetched ==
    ASSUME ConsoleTypeOK
    PROVE  /\ Refetch \in Fetches(page)
           /\ Refetch # NoFetch
           /\ Refetch.ignored \/ Refetch.misses = {}
           /\ \/ Refetch.misses = {}
              \/ /\ fetch # NoFetch
                 /\ ~ cached.has
                 /\ Refetch.misses = fetch.misses
<1>1. CASE fetch # NoFetch /\ ~ cached.has
  <2>1. fetch \in Fetches(page) /\ Refetch = [fetch EXCEPT !.ignored = TRUE]
    BY <1>1 DEF ConsoleTypeOK, Refetch
  <2>2. /\ Refetch \in Fetches(page)
        /\ Refetch.ignored
        /\ Refetch.misses = fetch.misses
    BY <2>1 DEF Fetches
  <2>3. Refetch # NoFetch
    BY <2>2, ConsoleAssumption DEF ConsoleTypeOK
  <2>. QED
    BY <1>1, <2>2, <2>3
<1>2. CASE ~ (fetch # NoFetch /\ ~ cached.has)
  <2>1. Refetch = Unread
    BY <1>2 DEF Refetch
  <2>. QED
    BY <2>1, UnreadFetch DEF Unread
<1>. QED
  BY <1>1, <1>2

LEMMA MissedKinds ==
    ASSUME NEW read, NEW misses \in SUBSET Kinds, NEW change,
           NEW kinds \in SUBSET Kinds
    PROVE  /\ Missed(read, misses, change, kinds) \in SUBSET Kinds
           /\ misses \subseteq Missed(read, misses, change, kinds)
           /\ Missed(read, misses, change, kinds) \subseteq misses \cup kinds
BY DEF Missed

\* What a write does to what the browser has and waits for.
WriteEffect(change, kinds) ==
    /\ changes' \in 0..MaxChanges
    /\ cached' \in CachedData
    /\ fetch' \in Fetches(page) \cup {NoFetch}
    /\ cached'.has = cached.has
    /\ cached'.invalid = cached.invalid
    /\ cached'.unheard = cached.unheard
    /\ cached'.misses \subseteq cached.misses \cup kinds
    /\ fetch' = NoFetch <=> fetch = NoFetch
    /\ fetch # NoFetch =>
          /\ fetch'.misses \subseteq fetch.misses \cup kinds
          /\ fetch'.ignored = fetch.ignored
    /\ arriving' = arriving \cup (change.topics \cap joined)

LEMMA WriteTypes ==
    ASSUME ConsoleTypeOK, NEW change \in Changes, NEW kinds \in SUBSET Kinds,
           Write(change, kinds)
    PROVE  WriteEffect(change, kinds)
<1>1. changes' \in 0..MaxChanges
  BY ConsoleAssumption DEF Write, ConsoleTypeOK
<1>2. arriving' = arriving \cup (change.topics \cap joined)
  BY DEF Write
<1>3. cached \in CachedData
  BY DEF ConsoleTypeOK, CachedData
<1>4. /\ cached' \in CachedData
      /\ cached'.has = cached.has
      /\ cached'.invalid = cached.invalid
      /\ cached'.unheard = cached.unheard
      /\ cached'.misses \subseteq cached.misses \cup kinds
  <2>1. CASE ~ cached.has
    BY <1>3, <2>1 DEF Write
  <2>2. CASE cached.has
    <3>. DEFINE misses == Missed(page.requests, cached.misses, change, kinds)
    <3>1. misses \in SUBSET Kinds /\ misses \subseteq cached.misses \cup kinds
      BY <1>3, MissedKinds DEF CachedData
    <3>2. cached' = [cached EXCEPT !.misses = misses]
      BY <2>2 DEF Write
    <3>. HIDE DEF misses
    <3>. QED
      BY <1>3, <3>1, <3>2 DEF CachedData
  <2>. QED
    BY <2>1, <2>2
<1>5. /\ fetch' \in Fetches(page) \cup {NoFetch}
      /\ fetch' = NoFetch <=> fetch = NoFetch
      /\ fetch # NoFetch =>
            /\ fetch'.misses \subseteq fetch.misses \cup kinds
            /\ fetch'.ignored = fetch.ignored
  <2>1. CASE fetch = NoFetch
    BY <2>1 DEF Write
  <2>2. CASE fetch # NoFetch
    <3>. DEFINE misses == Missed(fetch.read, fetch.misses, change, kinds)
    <3>1. fetch \in Fetches(page)
      BY <2>2 DEF ConsoleTypeOK
    <3>2. misses \in SUBSET Kinds /\ misses \subseteq fetch.misses \cup kinds
      BY <3>1, MissedKinds DEF Fetches
    <3>3. fetch' = [fetch EXCEPT !.misses = misses]
      BY <2>2 DEF Write
    <3>. HIDE DEF misses
    <3>4. /\ fetch' \in Fetches(page)
          /\ fetch'.misses = misses
          /\ fetch'.ignored = fetch.ignored
      BY <3>1, <3>2, <3>3 DEF Fetches
    <3>5. fetch' # NoFetch
      BY <3>4, ConsoleAssumption DEF ConsoleTypeOK
    <3>. QED
      BY <2>2, <3>2, <3>4, <3>5
  <2>. QED
    BY <2>1, <2>2
<1>. QED
  BY <1>1, <1>2, <1>4, <1>5 DEF WriteEffect

LEMMA FaultTypes ==
    ASSUME ConsoleTypeOK, Fault
    PROVE  faults' \in 0..MaxFaults
BY ConsoleAssumption DEF Fault, ConsoleTypeOK

\* Mounting a page begins a fetch, if any.
LEMMA Mounted ==
    ASSUME ConsoleTypeOK, Mount
    PROVE  fetch' = fetch \/ (fetch = NoFetch /\ fetch' = Unread)
BY DEF Mount

-----------------------------------------------------------------------------
(* Types.                                                                  *)

\* A step either writes, or leaves the data alone, or does one of three
\* things to the query.
Refreshed == fetch' = Refetch /\ cached' = cached

Began == /\ fetch' = fetch \/ (fetch = NoFetch /\ fetch' = Unread)
         /\ cached' = cached

Forgot ==
    /\ cached' \in {[Forget(cached) EXCEPT !.invalid = i] :
                      i \in {cached.invalid, TRUE}}
    /\ FetchForgets

LEMMA ForgotTypes ==
    ASSUME ConsoleTypeOK, Forgot
    PROVE  /\ cached' \in CachedData
           /\ cached'.has = cached.has
           /\ cached.invalid => cached'.invalid
           /\ cached'.unheard = cached.unheard
           /\ cached'.misses = cached.misses \ {"mine"}
           /\ fetch' \in Fetches(page) \cup {NoFetch}
           /\ fetch' = NoFetch <=> fetch = NoFetch
           /\ fetch # NoFetch => /\ fetch'.misses = fetch.misses \ {"mine"}
                                 /\ fetch'.ignored = fetch.ignored
<1>1. cached \in CachedData
  BY DEF ConsoleTypeOK, CachedData
<1>2. /\ cached' \in CachedData
      /\ cached'.has = cached.has
      /\ cached.invalid => cached'.invalid
      /\ cached'.unheard = cached.unheard
      /\ cached'.misses = cached.misses \ {"mine"}
  BY <1>1 DEF Forgot, Forget, CachedData
<1>3. CASE fetch = NoFetch
  BY <1>2, <1>3 DEF Forgot, FetchForgets
<1>4. CASE fetch # NoFetch
  <2>1. fetch \in Fetches(page) /\ fetch' = Forget(fetch)
    BY <1>4 DEF Forgot, FetchForgets, ConsoleTypeOK
  <2>2. /\ fetch' \in Fetches(page)
        /\ fetch'.misses = fetch.misses \ {"mine"}
        /\ fetch'.ignored = fetch.ignored
    BY <2>1 DEF Forget, Fetches
  <2>3. fetch' # NoFetch
    BY <2>2, ConsoleAssumption DEF ConsoleTypeOK
  <2>. QED
    BY <1>2, <1>4, <2>2, <2>3
<1>. QED
  BY <1>3, <1>4

\* The answers to one's own change.
LEMMA OwnAnswered ==
    ASSUME ConsoleTypeOK, AnswerOwn \/ OwnFails
    PROVE  /\ own' = NoChange
           /\ UNCHANGED <<page, selected, joined, arriving, changes>>
           /\ \/ own.at = "done" /\ Refreshed
              \/ own.at = "done" /\ Forgot
              \/ own.at = "refused" /\ UNCHANGED <<cached, fetch>>
<1>1. ASSUME FetchForgets, cached' = Forget(cached) PROVE Forgot
  <2>1. cached' = [Forget(cached) EXCEPT !.invalid = cached.invalid]
    BY <1>1 DEF Forget, ConsoleTypeOK
  <2>. QED
    BY <1>1, <2>1 DEF Forgot
<1>2. ASSUME FetchForgets, NEW signedOut \in BOOLEAN,
             cached' = [Forget(cached) EXCEPT
                          !.invalid = @ \/ (signedOut /\ cached.has)]
      PROVE  Forgot
  <2>1. \/ cached' = [Forget(cached) EXCEPT !.invalid = cached.invalid]
        \/ cached' = [Forget(cached) EXCEPT !.invalid = TRUE]
    BY <1>2 DEF Forget, ConsoleTypeOK
  <2>. QED
    BY <1>2, <2>1 DEF Forgot
<1>. QED
  BY <1>1, <1>2
     DEF AnswerOwn, OwnFails, Invalidate, Refreshed, viewVars

LEMMA InitTypes == Init => ConsoleTypeOK
<1>. SUFFICES ASSUME Init PROVE ConsoleTypeOK
  OBVIOUS
<1>1. cached \in CachedData
  BY DEF Init, Empty, CachedData
<1>2. changes \in 0..MaxChanges /\ faults \in 0..MaxFaults
  BY ConsoleAssumption DEF Init
<1>. QED
  BY <1>1, <1>2 DEF Init, ConsoleTypeOK, CachedData

LEMMA QueryTypes ==
    ASSUME ConsoleTypeOK,
           \/ UNCHANGED <<cached, fetch>> \/ Refreshed \/ Began \/ Forgot
    PROVE  cached' \in CachedData /\ fetch' \in Fetches(page) \cup {NoFetch}
<1>1. cached \in CachedData /\ fetch \in Fetches(page) \cup {NoFetch}
  BY DEF ConsoleTypeOK, CachedData
<1>. QED
  BY <1>1, Refetched, UnreadFetch, ForgotTypes DEF Refreshed, Began

\* The rest of the state, which most steps leave alone.
RestOK ==
    /\ page \in Pages
    /\ selected \in BOOLEAN
    /\ joined \subseteq Topics
    /\ arriving \subseteq joined
    /\ own \in OwnChange \cup {NoChange}
    /\ changes \in 0..MaxChanges
    /\ faults \in 0..MaxFaults

LEMMA TypeParts ==
    ConsoleTypeOK <=> /\ RestOK
                      /\ cached \in CachedData
                      /\ fetch \in Fetches(page) \cup {NoFetch}
BY DEF ConsoleTypeOK, RestOK, CachedData

LEMMA NextTypes == ConsoleTypeOK /\ [Next]_vars => ConsoleTypeOK'
<1>. SUFFICES ASSUME ConsoleTypeOK, [Next]_vars PROVE ConsoleTypeOK'
  OBVIOUS
<1>0. /\ RestOK
      /\ cached \in CachedData
      /\ fetch \in Fetches(page) \cup {NoFetch}
  BY TypeParts
<1>1. ASSUME RestOK', UNCHANGED page,
             \/ UNCHANGED <<cached, fetch>> \/ Refreshed \/ Began \/ Forgot
      PROVE  ConsoleTypeOK'
  BY <1>1, QueryTypes DEF ConsoleTypeOK, RestOK, CachedData
<1>2. CASE UNCHANGED vars
  BY <1>0, <1>1, <1>2 DEF vars, viewVars, RestOK
<1>3. ASSUME NEW q \in page.requests, ReadRequest(q) PROVE ConsoleTypeOK'
  <2>1. /\ fetch \in Fetches(page)
        /\ fetch' = [fetch EXCEPT !.read = @ \cup {q}]
        /\ UNCHANGED <<viewVars, cached, own, changes, faults>>
    BY <1>0, <1>3 DEF ReadRequest
  <2>2. fetch' \in Fetches(page)
    BY <2>1 DEF Fetches
  <2>. QED
    BY <2>1, <2>2 DEF viewVars, ConsoleTypeOK
<1>4. ASSUME FetchReturns PROVE ConsoleTypeOK'
  <2>1. fetch \in Fetches(page)
    BY <1>0, <1>4 DEF FetchReturns
  <2>2. cached' \in CachedData /\ fetch' = NoFetch
    BY <1>4, <2>1 DEF FetchReturns, CachedData, Fetches
  <2>3. RestOK' /\ UNCHANGED page
    BY <1>0, <1>4 DEF FetchReturns, viewVars, RestOK
  <2>. QED
    BY <2>2, <2>3 DEF ConsoleTypeOK, RestOK, CachedData
<1>5. ASSUME FetchFails PROVE ConsoleTypeOK'
  <2>1. fetch' \in Fetches(page) \cup {NoFetch}
    BY <1>5, UnreadFetch DEF FetchFails
  <2>2. cached' \in CachedData
    BY <1>0, <1>5 DEF FetchFails, CachedData
  <2>3. RestOK' /\ UNCHANGED page
    BY <1>0, <1>5, FaultTypes DEF FetchFails, viewVars, RestOK
  <2>. QED
    BY <2>1, <2>2, <2>3 DEF ConsoleTypeOK, RestOK, CachedData
<1>6. ASSUME Focus \/ Select PROVE ConsoleTypeOK'
  <2>1. Began
    BY <1>6, Mounted DEF Focus, Select, Began
  <2>2. RestOK' /\ UNCHANGED page
    BY <1>0, <1>6 DEF Focus, Select, viewVars, RestOK
  <2>. QED
    BY <1>1, <2>1, <2>2
<1>7. ASSUME Leave \/ RenewToken PROVE ConsoleTypeOK'
  <2>1. RestOK' /\ UNCHANGED <<page, cached, fetch>>
    BY <1>0, <1>7, FaultTypes DEF Leave, RenewToken, Unsubscribe, RestOK
  <2>. QED
    BY <1>1, <2>1
<1>8. ASSUME NEW t \in Topics, Subscribed(t) \/ Broadcast(t)
      PROVE  ConsoleTypeOK'
  <2>1. RestOK' /\ UNCHANGED page /\ Refreshed
    BY <1>0, <1>8 DEF Subscribed, Broadcast, Invalidate, Refreshed, RestOK
  <2>. QED
    BY <1>1, <2>1
<1>9. ASSUME NEW t \in Topics, ChannelLost(t) PROVE ConsoleTypeOK'
  <2>1. RestOK' /\ UNCHANGED <<page, cached, fetch>>
    BY <1>0, <1>9, FaultTypes DEF ChannelLost, RestOK
  <2>. QED
    BY <1>1, <2>1
<1>10. ASSUME NEW c \in Changes, ChangeByOthers(c) PROVE ConsoleTypeOK'
  <2>1. WriteEffect(c, {"sent"}) /\ UNCHANGED <<page, selected, joined, own, faults>>
    BY <1>10, WriteTypes DEF ChangeByOthers, Kinds
  <2>. QED
    BY <1>0, <2>1 DEF WriteEffect, ConsoleTypeOK, RestOK, CachedData
<1>11. ASSUME NEW c \in Changes, Mutate(c) PROVE ConsoleTypeOK'
  <2>1. own' \in OwnChange
    BY <1>11 DEF Mutate, OwnChange
  <2>. QED
    BY <1>0, <1>1, <1>11, <2>1 DEF Mutate, viewVars, RestOK
<1>12. ASSUME CommitOwn PROVE ConsoleTypeOK'
  <2>1. own \in OwnChange
    BY <1>0, <1>12 DEF CommitOwn, RestOK
  <2>. DEFINE kinds == IF own.change.topics = {} THEN {"mine"}
                                                 ELSE {"mine", "sent"}
  <2>2. WriteEffect(own.change, kinds)
    BY <1>12, <2>1, WriteTypes DEF CommitOwn, Kinds, OwnChange
  <2>3. own' \in OwnChange /\ UNCHANGED <<page, selected, joined, faults>>
    BY <1>12, <2>1 DEF CommitOwn, OwnChange
  <2>. HIDE DEF kinds
  <2>. QED
    BY <1>0, <2>2, <2>3 DEF WriteEffect, ConsoleTypeOK, RestOK, CachedData
<1>13. ASSUME RefuseOwn PROVE ConsoleTypeOK'
  <2>1. own' \in OwnChange
    BY <1>0, <1>13 DEF RefuseOwn, RestOK, OwnChange
  <2>. QED
    BY <1>0, <1>1, <1>13, <2>1 DEF RefuseOwn, viewVars, RestOK
<1>14. ASSUME AnswerOwn \/ OwnFails PROVE ConsoleTypeOK'
  <2>1. faults' \in 0..MaxFaults
    BY <1>0, <1>14, FaultTypes DEF AnswerOwn, OwnFails, RestOK
  <2>. QED
    BY <1>0, <1>1, <1>14, <2>1, OwnAnswered DEF RestOK
<1>15. ASSUME AnswerElsewhere PROVE ConsoleTypeOK'
  <2>1. RestOK' /\ UNCHANGED page /\ Refreshed
    BY <1>0, <1>15, ConsoleAssumption
       DEF AnswerElsewhere, Invalidate, Refreshed, viewVars, RestOK
  <2>. QED
    BY <1>1, <2>1
<1>. QED
  BY <1>2, <1>3, <1>4, <1>5, <1>6, <1>7, <1>8, <1>9, <1>10, <1>11, <1>12,
     <1>13, <1>14, <1>15 DEF Next, FetchStep

\* Every reachable state of Console is well typed.
THEOREM ConsoleTypeCorrect == Spec => []ConsoleTypeOK
BY InitTypes, NextTypes, PTL DEF Spec

-----------------------------------------------------------------------------
(* One's own changes.                                                      *)

\* The change was made, and its answer has not come yet.
Awaited == own # NoChange /\ own.at = "done"

\* Only data that is shown has buttons; and once the answer has come, what
\* misses the change is being fetched again or known to be invalid.
OwnInv ==
    /\ own # NoChange => cached.has
    /\ ~ Awaited =>
          /\ "mine" \in cached.misses => fetch # NoFetch \/ cached.invalid
          /\ fetch # NoFetch => "mine" \notin fetch.misses

LEMMA OwnPreserved ==
    ASSUME ConsoleTypeOK, ConsoleTypeOK', OwnInv, [Next]_vars
    PROVE  OwnInv'
<1>0. /\ cached \in CachedData
      /\ fetch \in Fetches(page) \cup {NoFetch}
      /\ own \in OwnChange \cup {NoChange}
  BY TypeParts DEF RestOK
<1>1. ASSUME UNCHANGED own,
             UNCHANGED <<cached, fetch>> \/ Refreshed \/ Began
      PROVE  OwnInv'
  <2>1. CASE UNCHANGED <<cached, fetch>>
    BY <1>1, <2>1 DEF OwnInv, Awaited
  <2>2. CASE Refreshed
    BY <1>1, <2>2, Refetched DEF Refreshed, OwnInv, Awaited
  <2>3. CASE Began
    BY <1>1, <2>3, UnreadFetch DEF Began, Unread, OwnInv, Awaited
  <2>. QED
    BY <1>1, <2>1, <2>2, <2>3
<1>2. CASE UNCHANGED vars
  BY <1>1, <1>2 DEF vars
<1>3. ASSUME NEW q \in page.requests, ReadRequest(q) PROVE OwnInv'
  <2>1. /\ fetch \in Fetches(page)
        /\ fetch' = [fetch EXCEPT !.read = @ \cup {q}]
        /\ UNCHANGED <<cached, own>>
        /\ fetch # NoFetch
    BY <1>0, <1>3 DEF ReadRequest
  <2>2. fetch'.misses = fetch.misses /\ fetch' # NoFetch
    BY <2>1, ConsoleAssumption DEF Fetches, ConsoleTypeOK
  <2>. QED
    BY <2>1, <2>2 DEF OwnInv, Awaited
<1>4. ASSUME FetchReturns PROVE OwnInv'
  BY <1>4 DEF FetchReturns, OwnInv, Awaited
<1>5. ASSUME FetchFails PROVE OwnInv'
  <2>1. \/ fetch' = Unread /\ UNCHANGED cached
        \/ /\ fetch' = NoFetch
           /\ cached'.invalid
           /\ cached'.has = cached.has
    BY <1>0, <1>5 DEF FetchFails, CachedData
  <2>. QED
    BY <1>5, <2>1, UnreadFetch DEF FetchFails, Unread, OwnInv, Awaited
<1>6. ASSUME Focus \/ Select PROVE OwnInv'
  BY <1>1, <1>6, Mounted DEF Focus, Select, Began
<1>7. ASSUME \/ Leave \/ RenewToken
             \/ \E t \in Topics : ChannelLost(t)
      PROVE  OwnInv'
  BY <1>1, <1>7 DEF Leave, RenewToken, ChannelLost
<1>8. ASSUME \/ \E t \in Topics : Subscribed(t) \/ Broadcast(t)
             \/ AnswerElsewhere
      PROVE  OwnInv'
  BY <1>1, <1>8
     DEF Subscribed, Broadcast, AnswerElsewhere, Invalidate, Refreshed
<1>9. ASSUME NEW c \in Changes, ChangeByOthers(c) PROVE OwnInv'
  <2>1. WriteEffect(c, {"sent"}) /\ UNCHANGED own
    BY <1>9, WriteTypes DEF ChangeByOthers, Kinds
  <2>. QED
    BY <2>1 DEF WriteEffect, OwnInv, Awaited
<1>10. ASSUME NEW c \in Changes, Mutate(c) PROVE OwnInv'
  BY <1>10 DEF Mutate, OwnInv, Awaited
<1>11. ASSUME CommitOwn PROVE OwnInv'
  <2>1. own \in OwnChange
    BY <1>0, <1>11 DEF CommitOwn
  <2>. DEFINE kinds == IF own.change.topics = {} THEN {"mine"}
                                                 ELSE {"mine", "sent"}
  <2>2. WriteEffect(own.change, kinds)
    BY <1>11, <2>1, WriteTypes DEF CommitOwn, Kinds, OwnChange
  <2>3. own' \in OwnChange /\ own'.at = "done"
    BY <1>11, <2>1 DEF CommitOwn, OwnChange
  <2>4. own' # NoChange
    BY <2>3, ConsoleAssumption
  <2>5. cached'.has = cached.has /\ own # NoChange
    BY <1>11, <2>2 DEF WriteEffect, CommitOwn
  <2>. QED
    BY <2>3, <2>4, <2>5 DEF OwnInv, Awaited
<1>12. ASSUME RefuseOwn PROVE OwnInv'
  BY <1>12 DEF RefuseOwn, OwnInv, Awaited
<1>13. ASSUME AnswerOwn \/ OwnFails PROVE OwnInv'
  <2>1. own' = NoChange /\ own # NoChange
    BY <1>13, OwnAnswered DEF AnswerOwn, OwnFails
  <2>2. CASE Refreshed
    BY <2>1, <2>2, Refetched DEF Refreshed, OwnInv
  <2>3. CASE Forgot
    BY <2>1, <2>3, ForgotTypes DEF OwnInv
  <2>4. CASE own.at = "refused" /\ UNCHANGED <<cached, fetch>>
    BY <2>1, <2>4 DEF OwnInv, Awaited
  <2>. QED
    BY <1>13, <2>2, <2>3, <2>4, OwnAnswered
<1>. QED
  BY <1>2, <1>3, <1>4, <1>5, <1>6, <1>7, <1>8, <1>9, <1>10, <1>11, <1>12,
     <1>13 DEF Next, FetchStep

\* A settled page shows every change of one's own that was reported.
THEOREM OwnChangesAreShown == Spec => []OwnChangesShown
<1>1. Init => OwnInv
  BY DEF Init, OwnInv, Empty
<1>2. ConsoleTypeOK /\ OwnInv /\ [Next]_vars => (ConsoleTypeOK /\ OwnInv)'
  BY NextTypes, OwnPreserved
<1>3. OwnInv => OwnChangesShown
  BY DEF OwnInv, Awaited, OwnChangesShown, Settled
<1>. QED
  BY <1>1, <1>2, <1>3, InitTypes, PTL DEF Spec

-----------------------------------------------------------------------------
(* Changes that were announced.                                            *)

\* Something is still to come: a channel that joins, or a message.
MoreToCome == joined # Topics \/ arriving # {}

\* What is on screen or being fetched misses a change only while more is to
\* come, or another fetch has begun, or the refresh was ignored.
AnnouncedInv ==
    /\ /\ "sent" \in cached.misses
       /\ cached.has /\ ~ cached.invalid /\ ~ cached.unheard
       /\ fetch = NoFetch
       => MoreToCome
    /\ fetch # NoFetch /\ "sent" \in fetch.misses /\ ~ fetch.ignored =>
          MoreToCome

LEMMA AnnouncedPreserved ==
    ASSUME ConsoleTypeOK, ConsoleTypeOK', AnnouncedInv, [Next]_vars
    PROVE  AnnouncedInv'
<1>0. /\ cached \in CachedData
      /\ fetch \in Fetches(page) \cup {NoFetch}
      /\ joined \subseteq Topics /\ arriving \subseteq joined
  BY TypeParts DEF RestOK
<1>1. ASSUME \/ UNCHANGED <<cached, fetch>> \/ Began,
             MoreToCome => MoreToCome'
      PROVE  AnnouncedInv'
  <2>1. CASE UNCHANGED <<cached, fetch>>
    BY <1>1, <2>1 DEF AnnouncedInv
  <2>2. CASE Began
    BY <1>1, <2>2, UnreadFetch DEF Began, Unread, AnnouncedInv
  <2>. QED
    BY <1>1, <2>1, <2>2
<1>2. ASSUME Refreshed PROVE AnnouncedInv'
  BY <1>2, Refetched DEF Refreshed, AnnouncedInv
<1>3. CASE UNCHANGED vars
  BY <1>1, <1>3 DEF vars, viewVars, MoreToCome
<1>4. ASSUME NEW q \in page.requests, ReadRequest(q) PROVE AnnouncedInv'
  <2>1. /\ fetch \in Fetches(page)
        /\ fetch' = [fetch EXCEPT !.read = @ \cup {q}]
        /\ UNCHANGED <<cached, joined, arriving>>
        /\ fetch # NoFetch
    BY <1>0, <1>4 DEF ReadRequest, viewVars
  <2>2. fetch'.misses = fetch.misses /\ fetch'.ignored = fetch.ignored
        /\ fetch' # NoFetch
    BY <2>1, ConsoleAssumption DEF Fetches, ConsoleTypeOK
  <2>. QED
    BY <2>1, <2>2 DEF AnnouncedInv, MoreToCome
<1>5. ASSUME FetchReturns PROVE AnnouncedInv'
  BY <1>5 DEF FetchReturns, viewVars, AnnouncedInv, MoreToCome
<1>6. ASSUME FetchFails PROVE AnnouncedInv'
  <2>1. \/ fetch' = Unread /\ UNCHANGED cached
        \/ fetch' = NoFetch /\ cached'.invalid
    BY <1>0, <1>6 DEF FetchFails, CachedData
  <2>. QED
    BY <2>1, UnreadFetch DEF Unread, AnnouncedInv
<1>7. ASSUME Focus \/ Select PROVE AnnouncedInv'
  BY <1>1, <1>7, Mounted DEF Focus, Select, Began, viewVars, MoreToCome
<1>8. ASSUME Leave \/ RenewToken \/ \E t \in Topics : ChannelLost(t)
      PROVE  AnnouncedInv'
  <2>1. UNCHANGED <<cached, fetch>> /\ joined' # Topics
    BY <1>0, <1>8 DEF Leave, RenewToken, Unsubscribe, ChannelLost, Topics
  <2>. QED
    BY <1>1, <2>1 DEF MoreToCome
<1>9. ASSUME \/ \E t \in Topics : Subscribed(t) \/ Broadcast(t)
             \/ AnswerElsewhere
      PROVE  AnnouncedInv'
  BY <1>2, <1>9
     DEF Subscribed, Broadcast, AnswerElsewhere, Invalidate, Refreshed
<1>10. ASSUME NEW change \in Changes, NEW kinds \in SUBSET Kinds,
              WriteEffect(change, kinds), UNCHANGED joined,
              "sent" \in kinds => change.topics # {}
       PROVE  AnnouncedInv'
  <2>1. MoreToCome => MoreToCome'
    BY <1>10 DEF WriteEffect, MoreToCome
  <2>2. "sent" \in kinds => MoreToCome'
    BY <1>10, ChangeTopics DEF WriteEffect, MoreToCome
  <2>. QED
    BY <1>10, <2>1, <2>2 DEF WriteEffect, AnnouncedInv
<1>11. ASSUME NEW c \in Changes, ChangeByOthers(c) PROVE AnnouncedInv'
  BY <1>10, <1>11, WriteTypes DEF ChangeByOthers, Kinds
<1>12. ASSUME CommitOwn PROVE AnnouncedInv'
  <2>1. own.change \in Changes
    BY <1>12 DEF CommitOwn, ConsoleTypeOK, OwnChange
  <2>. DEFINE kinds == IF own.change.topics = {} THEN {"mine"}
                                                 ELSE {"mine", "sent"}
  <2>2. kinds \in SUBSET Kinds /\ ("sent" \in kinds => own.change.topics # {})
    BY DEF Kinds
  <2>3. Write(own.change, kinds) /\ UNCHANGED joined
    BY <1>12 DEF CommitOwn
  <2>. HIDE DEF kinds
  <2>. QED
    BY <1>10, <2>1, <2>2, <2>3, WriteTypes
<1>13. ASSUME AnswerOwn \/ OwnFails PROVE AnnouncedInv'
  <2>1. UNCHANGED <<joined, arriving>>
    BY <1>13, OwnAnswered
  <2>2. CASE Forgot
    BY <2>1, <2>2, ForgotTypes DEF AnnouncedInv, MoreToCome
  <2>3. CASE UNCHANGED <<cached, fetch>>
    BY <1>1, <2>1, <2>3 DEF MoreToCome
  <2>. QED
    BY <1>2, <1>13, <2>2, <2>3, OwnAnswered
<1>14. ASSUME RefuseOwn \/ \E c \in Changes : Mutate(c) PROVE AnnouncedInv'
  BY <1>1, <1>14 DEF RefuseOwn, Mutate, viewVars, MoreToCome
<1>. QED
  BY <1>3, <1>4, <1>5, <1>6, <1>7, <1>8, <1>9, <1>11, <1>12, <1>13, <1>14
     DEF Next, FetchStep

\* While every channel is joined and no message on its way, a settled page
\* shows every change that was announced, unless a refresh was ignored.
THEOREM ShowsWhatWasAnnounced == Spec => []FreshWhenSubscribed
<1>1. Init => AnnouncedInv
  BY DEF Init, AnnouncedInv, Empty
<1>2. ConsoleTypeOK /\ AnnouncedInv /\ [Next]_vars =>
        (ConsoleTypeOK /\ AnnouncedInv)'
  BY NextTypes, AnnouncedPreserved
<1>3. AnnouncedInv => FreshWhenSubscribed
  BY DEF AnnouncedInv, MoreToCome, FreshWhenSubscribed, Settled
<1>. QED
  BY <1>1, <1>2, <1>3, InitTypes, PTL DEF Spec

-----------------------------------------------------------------------------
(* The members of the organization and their roles.                        *)

Update == [target : Users, new : Roles, sees : Roles, saw : Roles]

\* Every reachable state of Team is well typed.
THEOREM TeamTypeCorrect == TeamSpec => []TeamTypeOK
<1>1. TeamInit => TeamTypeOK
  BY TeamAssumption DEF TeamInit, TeamTypeOK
<1>2. TeamTypeOK /\ [TeamNext]_teamVars => TeamTypeOK'
  <2>. SUFFICES ASSUME TeamTypeOK, [TeamNext]_teamVars PROVE TeamTypeOK'
    OBVIOUS
  <2>1. ASSUME NEW u \in Users, NEW target \in Users, NEW new \in Roles,
               BeginUpdate(u, target, new)
        PROVE  TeamTypeOK'
    BY <2>1 DEF BeginUpdate, TeamTypeOK
  <2>2. ASSUME NEW u \in Users, CommitUpdate(u) PROVE TeamTypeOK'
    <3>1. update[u] \in Update
      BY <2>2 DEF CommitUpdate, TeamTypeOK, Update
    <3>2. role' \in [Users -> Roles]
      BY <2>2, <3>1 DEF CommitUpdate, TeamTypeOK, Update
    <3>. QED
      BY <2>2, <3>2 DEF CommitUpdate, TeamTypeOK
  <2>3. CASE UNCHANGED teamVars
    BY <2>3 DEF teamVars, TeamTypeOK
  <2>. QED
    BY <2>1, <2>2, <2>3 DEF TeamNext
<1>. QED
  BY <1>1, <1>2, PTL DEF TeamSpec

\* A caller that still has the role it saw keeps the last owner: whoever may
\* demote an owner is another owner, and stays one.
LEMMA OwnerStays ==
    ASSUME TeamTypeOK, NEW u \in Users, CommitUpdate(u), HasOwner,
           role[u] = update[u].sees
    PROVE  HasOwner'
<1>1. update[u] \in Update
  BY DEF CommitUpdate, TeamTypeOK, Update
<1>. DEFINE target == update[u].target
<1>2. CASE Outcome(u) # "applied"
  BY <1>2 DEF CommitUpdate, HasOwner
<1>3. CASE Outcome(u) = "applied"
  <2>1. /\ target # u
        /\ MayManage(role[u], role[target])
        /\ \A v \in Users \ {target} : role'[v] = role[v]
    BY <1>1, <1>3 DEF Outcome, RowMatches, CommitUpdate, TeamTypeOK, Update
  <2>2. CASE role[target] = "owner"
    BY <2>1, <2>2 DEF MayManage, HasOwner
  <2>3. CASE role[target] # "owner"
    BY <2>1, <2>3 DEF HasOwner
  <2>. QED
    BY <2>2, <2>3
<1>. QED
  BY <1>2, <1>3

\* The organization only loses its last owner to an update that overlapped
\* with the demotion of its caller.
THEOREM LastOwnerLostByOverlap == TeamSpec => OwnerLostOnlyByOverlap
<1>1. TeamTypeOK /\ [TeamNext]_teamVars =>
        [HasOwner /\ ~ HasOwner' =>
          \E u \in Users :
              /\ update[u] # NoUpdate
              /\ update'[u] = NoUpdate
              /\ role[u] # update[u].sees]_teamVars
  <2>. SUFFICES ASSUME TeamTypeOK, TeamNext, HasOwner, ~ HasOwner'
                PROVE  \E u \in Users : /\ update[u] # NoUpdate
                                        /\ update'[u] = NoUpdate
                                        /\ role[u] # update[u].sees
    OBVIOUS
  <2>1. ASSUME NEW u \in Users, NEW target \in Users, NEW new \in Roles,
               BeginUpdate(u, target, new)
        PROVE  FALSE
    BY <2>1 DEF BeginUpdate, HasOwner
  <2>2. PICK u \in Users : CommitUpdate(u)
    BY <2>1 DEF TeamNext
  <2>3. role[u] # update[u].sees
    BY <2>2, OwnerStays
  <2>4. update[u] # NoUpdate /\ update'[u] = NoUpdate
    BY <2>2 DEF CommitUpdate, TeamTypeOK
  <2>. QED
    BY <2>3, <2>4
<1>. QED
  BY <1>1, TeamTypeCorrect, PTL DEF TeamSpec, OwnerLostOnlyByOverlap
-----------------------------------------------------------------------------
(* The session of a tab.                                                   *)

List == [has : BOOLEAN, list : SUBSET Orgs, failed : BOOLEAN]
Reading == [at : {"none", "sent", "read"}, of : Persons \cup {NoPerson},
            list : SUBSET Orgs]

\* Every organization of a person is in its history, and so is the lack.
StaffInv ==
    /\ member \in [Persons -> SUBSET Orgs]
    /\ been \in [Persons -> SUBSET Orgs]
    /\ lacked \subseteq Persons
    /\ staffMoves \in 0..MaxStaffMoves
    /\ \A p \in Persons :
          /\ member[p] \subseteq been[p]
          /\ member[p] = {} => p \in lacked

\* What has been read of a person's memberships was true at some time.
True(p, list) == list \subseteq been[p] /\ (list = {} => p \in lacked)

FetchInv ==
    /\ lists \in [Persons -> List]
    /\ reading \in [Persons -> Reading]
    /\ \A p \in Persons :
          /\ lists[p].has => True(p, lists[p].list)
          /\ ~ lists[p].has => lists[p].list = {}
          /\ reading[p].at = "read" => True(p, reading[p].list)
          /\ reading[p].at # "none" => reading[p].of = p

\* The selection is one of the memberships, and what is missing on screen is
\* being fetched or was given up.
ShownInv ==
    /\ account \in Persons \cup {NoPerson}
    /\ starting \in BOOLEAN
    /\ route \in Routes
    /\ saved \in Orgs \cup {NoOrg}
    /\ chosen \in Orgs \cup {NoOrg}
    /\ tabFaults \in 0..MaxTabFaults
    /\ Memberships # {} => chosen \in Memberships
    /\ User # NoPerson => \/ lists[User].has
                          \/ reading[User].at # "none"
                          \/ lists[User].failed

\* Topics are only heard of channels that joined and may be lost again.
WireInv ==
    /\ badge \in Badges
    /\ heard \subseteq Channels
    /\ up \subseteq Channels
    /\ lost \subseteq Channels
    /\ rejoined \in BOOLEAN
    /\ oldies \in BOOLEAN
    /\ heard \subseteq up \cup lost
    /\ badge = "live" => heard = Channels /\ rejoined

TabInv == StaffInv /\ FetchInv /\ ShownInv /\ WireInv

LEMMA TabInvImplies == TabInv => SessionTypeOK /\ WorkspaceIsOwn /\ LiveBadge
<1>. SUFFICES ASSUME TabInv PROVE SessionTypeOK /\ WorkspaceIsOwn /\ LiveBadge
  OBVIOUS
<1>1. SessionTypeOK
  BY DEF TabInv, StaffInv, FetchInv, ShownInv, WireInv, SessionTypeOK, List,
         Reading
<1>2. LiveBadge
  BY DEF TabInv, WireInv, LiveBadge
<1>3. User \in Persons \cup {NoPerson}
  BY DEF TabInv, ShownInv, User
<1>4. ASSUME View = "page" PROVE Workspace \in been[User]
  <2>1. User \in Persons /\ Memberships # {} /\ Workspace = chosen
    BY <1>3, <1>4 DEF View, Workspace
  <2>2. chosen \in lists[User].list
    BY <2>1, SessionAssumption
       DEF TabInv, ShownInv, Memberships, KeyOf
  <2>. QED
    BY <2>1, <2>2 DEF TabInv, FetchInv, True
<1>5. ASSUME View = "setup" PROVE User \in lacked \/ lists[User].failed
  <2>1. User \in Persons /\ Workspace = NoOrg
    BY <1>3, <1>5 DEF View
  <2>2. Memberships = {}
    BY <2>1, SessionAssumption
       DEF TabInv, ShownInv, FetchInv, Workspace, Memberships, List, KeyOf
  <2>3. lists[User].list = {}
    BY <2>1, <2>2, SessionAssumption DEF Memberships, KeyOf
  <2>4. lists[User].has \/ lists[User].failed
    BY <1>5, <2>1, SessionAssumption DEF TabInv, ShownInv, View, KeyOf
  <2>. QED
    BY <2>1, <2>3, <2>4 DEF TabInv, FetchInv, True
<1>. QED
  BY <1>1, <1>2, <1>4, <1>5 DEF WorkspaceIsOwn, KeyOf

LEMMA TabInit == SessionInit => TabInv
<1>. SUFFICES ASSUME SessionInit PROVE TabInv
  OBVIOUS
<1>1. StaffInv
  BY SessionAssumption DEF SessionInit, StaffInv
<1>2. FetchInv
  BY DEF SessionInit, FetchInv, Unfetched, NoReading, List, Reading
<1>3. ShownInv
  BY SessionAssumption DEF SessionInit, ShownInv, Routes, Memberships, User
<1>4. WireInv
  BY DEF SessionInit, WireInv, Badges
<1>. QED
  BY <1>1, <1>2, <1>3, <1>4 DEF TabInv

\* Effects.
LEMMA RewireKeeps ==
    ASSUME WireInv, NEW renewed \in BOOLEAN, Rewire(renewed)
    PROVE  WireInv'
BY DEF WireInv, Rewire, wireVars, Badges, NothingHeard, Open

LEMMA FallBackSettles ==
    ASSUME ShownInv, FetchInv', User' \in Persons \cup {NoPerson}, FallBack
    PROVE  /\ chosen' \in Orgs \cup {NoOrg}
           /\ saved' \in Orgs \cup {NoOrg}
           /\ Memberships' # {} => chosen' \in Memberships'
<1>1. Memberships' \subseteq Orgs
  BY DEF Memberships, KeyOf, FetchInv, List
<1>. QED
  BY <1>1 DEF FallBack, ShownInv

\* Another session, or the same with another token.
LEMMA SessionOfKeeps ==
    ASSUME TabInv, NEW p \in Persons \cup {NoPerson}, SessionOf(p),
           UNCHANGED <<route, staffVars>>, tabFaults' \in 0..MaxTabFaults
    PROVE  TabInv'
<1>1. StaffInv'
  BY DEF TabInv, StaffInv, staffVars
<1>2. FetchInv'
  <2>1. lists' = lists /\ UNCHANGED <<been, lacked>>
    BY DEF SessionOf, staffVars
  <2>2. CASE UNCHANGED reading
    BY <2>1, <2>2 DEF TabInv, FetchInv, True
  <2>3. CASE p \in Persons /\ reading' = [reading EXCEPT ![p] = SentReading(p)]
    BY <2>1, <2>3 DEF TabInv, FetchInv, True, SentReading, Reading
  <2>. QED
    BY <2>2, <2>3 DEF SessionOf, MountList, KeyOf
<1>3. User' = p
  BY DEF SessionOf, User
<1>4. ShownInv'
  <2>1. /\ chosen' \in Orgs \cup {NoOrg}
        /\ saved' \in Orgs \cup {NoOrg}
        /\ Memberships' # {} => chosen' \in Memberships'
    BY <1>2, <1>3, FallBackSettles DEF TabInv, SessionOf
  <2>2. ASSUME p # NoPerson
        PROVE  \/ lists'[p].has
               \/ reading'[p].at # "none"
               \/ lists'[p].failed
    <3>1. p \in Persons /\ lists' = lists
      BY <2>2 DEF SessionOf
    <3>2. CASE p = User
      BY <2>2, <3>1, <3>2 DEF SessionOf, TabInv, ShownInv
    <3>3. CASE p # User
      <4>1. \/ reading[p].at # "none" /\ UNCHANGED reading
            \/ reading' = [reading EXCEPT ![p] = SentReading(p)]
            \/ lists[p].has
        BY <2>2, <3>3 DEF SessionOf, MountList, KeyOf
      <4>. QED
        BY <3>1, <4>1 DEF TabInv, FetchInv, SentReading
    <3>. QED
      BY <3>2, <3>3
  <2>3. account' = p /\ starting' = FALSE /\ route' = route
    BY DEF SessionOf
  <2>. QED
    BY <1>3, <2>1, <2>2, <2>3 DEF TabInv, ShownInv
<1>5. WireInv'
  BY RewireKeeps DEF TabInv, SessionOf
<1>. QED
  BY <1>1, <1>2, <1>4, <1>5 DEF TabInv

\* A page that is loaded knows nothing.
LEMMA LoadKeeps ==
    ASSUME TabInv, NEW r \in Routes, Load(r), StaffInv',
           account' \in Persons \cup {NoPerson}, tabFaults' \in 0..MaxTabFaults
    PROVE  TabInv'
<1>1. FetchInv'
  BY DEF Load, FetchInv, Unfetched, NoReading, List, Reading
<1>2. ShownInv'
  BY DEF Load, TabInv, ShownInv, Memberships, User
<1>3. WireInv'
  BY RewireKeeps DEF TabInv, Load
<1>. QED
  BY <1>1, <1>2, <1>3 DEF TabInv

LEMMA TabFaultType ==
    ASSUME tabFaults \in 0..MaxTabFaults, TabFault
    PROVE  tabFaults' \in 0..MaxTabFaults
BY SessionAssumption DEF TabFault

LEMMA MembershipsKept ==
    ASSUME UNCHANGED <<account, starting, lists>>
    PROVE  UNCHANGED <<User, Memberships>>
BY DEF User, Memberships

LEMMA SetMembershipsKeeps ==
    ASSUME TabInv, NEW p \in Persons, NEW orgs \in SUBSET Orgs,
           SetMemberships(p, orgs)
    PROVE  /\ StaffInv'
           /\ \A q \in Persons : been[q] \subseteq been'[q]
           /\ lacked \subseteq lacked'
BY SessionAssumption DEF TabInv, StaffInv, SetMemberships

\* Nothing that was true of the memberships becomes false.
LEMMA HistoryKeepsFetches ==
    ASSUME FetchInv, UNCHANGED <<lists, reading>>,
           \A q \in Persons : been[q] \subseteq been'[q],
           lacked \subseteq lacked'
    PROVE  FetchInv'
BY DEF FetchInv, True

LEMMA SessionSteps ==
    ASSUME TabInv,
           \/ GetSession \/ SignOut \/ TokenRefreshed
           \/ \E p \in Persons : SignIn(p)
    PROVE  TabInv'
<1>1. account \in Persons \cup {NoPerson} /\ tabFaults \in 0..MaxTabFaults
  BY DEF TabInv, ShownInv
<1>. QED
  BY <1>1, SessionOfKeeps, TabFaultType
     DEF GetSession, SignOut, TokenRefreshed, SignIn

LEMMA RouteSteps ==
    ASSUME TabInv, Reload \/ FollowLink \/ Redirect
    PROVE  TabInv'
<1>1. CASE Reload
  <2>1. StaffInv'
    BY <1>1 DEF Reload, TabInv, StaffInv, staffVars
  <2>2. /\ account' \in Persons \cup {NoPerson}
        /\ tabFaults' \in 0..MaxTabFaults
    BY <1>1, TabFaultType DEF Reload, TabInv, ShownInv
  <2>. QED
    BY <1>1, <2>1, <2>2, LoadKeeps DEF Reload, Routes
<1>2. ASSUME UNCHANGED <<account, starting, listVars, staffVars, tabFaults>>,
             route' \in Routes, WireInv'
      PROVE  TabInv'
  <2>1. UNCHANGED <<account, starting, lists, reading, saved, chosen, tabFaults>>
    BY <1>2 DEF listVars
  <2>2. StaffInv' /\ FetchInv'
    BY <1>2, <2>1 DEF TabInv, StaffInv, FetchInv, True, staffVars
  <2>3. ShownInv'
    BY <1>2, <2>1, MembershipsKept DEF TabInv, ShownInv
  <2>. QED
    BY <1>2, <2>2, <2>3 DEF TabInv
<1>3. CASE FollowLink
  BY <1>2, <1>3 DEF FollowLink, Routes, TabInv, WireInv, wireVars
<1>4. CASE Redirect
  BY <1>2, <1>4, RewireKeeps DEF Redirect, Routes, TabInv
<1>. QED
  BY <1>1, <1>3, <1>4

LEMMA ListSteps ==
    ASSUME TabInv, NEW k \in Persons,
           \/ ReadList(k) \/ ListReturns(k) \/ ListFails(k) \/ ListForgotten(k)
           \/ FocusTab
    PROVE  TabInv'
<1>1. /\ UNCHANGED <<account, starting, route>>
      /\ UNCHANGED <<member, been, lacked, staffMoves>>
  BY DEF ReadList, ListReturns, ListFails, ListForgotten, FocusTab, authVars,
         staffVars
<1>2. StaffInv' /\ User' = User
  BY <1>1 DEF TabInv, StaffInv, User
<1>3. tabFaults' \in 0..MaxTabFaults
  BY TabFaultType DEF ReadList, ListReturns, ListFails, ListForgotten,
                      FocusTab, TabInv, ShownInv
<1>4. User \in Persons \cup {NoPerson}
  BY DEF TabInv, ShownInv, User
<1>5. FetchInv'
  <2>1. CASE ReadList(k)
    <3>. DEFINE read == [reading[k] EXCEPT !.at = "read", !.list = member[k]]
    <3>1. reading[k].of = k
      BY <2>1 DEF ReadList, TabInv, FetchInv
    <3>2. reading' = [reading EXCEPT ![k] = read] /\ lists' = lists
      BY <2>1, <3>1 DEF ReadList
    <3>3. read \in Reading
      <4>1. reading[k] \in Reading /\ member[k] \in SUBSET Orgs
        BY DEF TabInv, StaffInv, FetchInv
      <4>. QED
        BY <4>1 DEF Reading
    <3>4. reading' \in [Persons -> Reading]
      <4>. HIDE DEF read
      <4>. QED
        BY <3>2, <3>3 DEF TabInv, FetchInv
    <3>5. True(k, member[k])
      BY DEF TabInv, StaffInv, True
    <3>6. /\ reading'[k].at = "read"
          /\ reading'[k].of = k
          /\ reading'[k].list = member[k]
          /\ \A q \in Persons \ {k} : reading'[q] = reading[q]
      BY <2>1, <3>1 DEF ReadList, TabInv, FetchInv, Reading
    <3>. QED
      BY <1>1, <3>2, <3>4, <3>5, <3>6 DEF TabInv, FetchInv, True
  <2>2. CASE ListReturns(k)
    <3>1. True(k, reading[k].list) /\ reading[k].list \in SUBSET Orgs
      BY <2>2 DEF ListReturns, TabInv, FetchInv, Reading
    <3>2. lists' \in [Persons -> List] /\ reading' \in [Persons -> Reading]
      BY <2>2, <3>1 DEF ListReturns, TabInv, FetchInv, NoReading, Reading, List
    <3>. QED
      BY <1>1, <2>2, <3>1, <3>2 DEF ListReturns, TabInv, FetchInv, NoReading, True
  <2>3. CASE ListFails(k)
    <3>1. CASE UNCHANGED lists /\ reading' = [reading EXCEPT ![k] = SentReading(k)]
      BY <1>1, <3>1 DEF SentReading, TabInv, FetchInv, True, Reading
    <3>2. CASE /\ reading' = [reading EXCEPT ![k] = NoReading]
               /\ lists' = [lists EXCEPT ![k].failed = TRUE]
      <4>1. NoReading \in Reading
        BY DEF NoReading, Reading
      <4>2. reading' \in [Persons -> Reading]
        BY <3>2, <4>1 DEF TabInv, FetchInv
      <4>3. lists[k] \in List /\ [lists[k] EXCEPT !.failed = TRUE] \in List
        BY DEF TabInv, FetchInv, List
      <4>4. lists' \in [Persons -> List]
        BY <3>2, <4>3 DEF TabInv, FetchInv
      <4>5. \A q \in Persons : /\ lists'[q].has = lists[q].has
                               /\ lists'[q].list = lists[q].list
        BY <3>2 DEF TabInv, FetchInv, List
      <4>6. \A q \in Persons :
               reading'[q] = reading[q] \/ reading'[q].at = "none"
        BY <3>2 DEF TabInv, FetchInv, NoReading
      <4>. QED
        BY <1>1, <4>2, <4>4, <4>5, <4>6 DEF TabInv, FetchInv, True
    <3>. QED
      BY <2>3, <3>1, <3>2 DEF ListFails, KeyOf
  <2>4. CASE ListForgotten(k)
    BY <1>1, <2>4 DEF ListForgotten, Unfetched, TabInv, FetchInv, True, List
  <2>5. CASE FocusTab
    BY <1>1, <1>4, <2>5
       DEF FocusTab, KeyOf, SentReading, TabInv, FetchInv, True, Reading
  <2>. QED
    BY <2>1, <2>2, <2>3, <2>4, <2>5
<1>6. /\ chosen' \in Orgs \cup {NoOrg}
      /\ saved' \in Orgs \cup {NoOrg}
      /\ Memberships' # {} => chosen' \in Memberships'
  <2>1. CASE ListReturns(k) \/ ListFails(k)
    BY <1>2, <1>4, <1>5, <2>1, FallBackSettles DEF ListReturns, ListFails, TabInv
  <2>2. CASE ReadList(k) \/ FocusTab
    BY <1>1, <2>2, MembershipsKept DEF ReadList, FocusTab, TabInv, ShownInv
  <2>3. CASE ListForgotten(k)
    <3>1. Memberships' = Memberships
      BY <1>2, <2>3 DEF ListForgotten, Memberships, KeyOf, TabInv, FetchInv
    <3>. QED
      BY <2>3, <3>1 DEF ListForgotten, TabInv, ShownInv
  <2>. QED
    BY <2>1, <2>2, <2>3
<1>7. ASSUME User # NoPerson
      PROVE  \/ lists'[User].has
             \/ reading'[User].at # "none"
             \/ lists'[User].failed
  <2>1. /\ User \in Persons
        /\ lists[User] \in List
        /\ \/ lists[User].has \/ reading[User].at # "none"
           \/ lists[User].failed
    BY <1>4, <1>7 DEF TabInv, ShownInv, FetchInv
  <2>2. CASE ReadList(k)
    BY <2>1, <2>2 DEF ReadList, TabInv, FetchInv, Reading
  <2>3. CASE ListReturns(k)
    BY <2>1, <2>3 DEF ListReturns, TabInv, FetchInv
  <2>4. CASE ListFails(k)
    BY <2>1, <2>4 DEF ListFails, SentReading, NoReading, TabInv, FetchInv, List
  <2>5. CASE ListForgotten(k)
    BY <1>7, <2>1, <2>5 DEF ListForgotten, KeyOf, TabInv, FetchInv
  <2>6. CASE FocusTab
    BY <2>1, <2>6 DEF FocusTab, SentReading, KeyOf, TabInv, FetchInv
  <2>. QED
    BY <2>2, <2>3, <2>4, <2>5, <2>6
<1>8. ShownInv'
  BY <1>1, <1>2, <1>3, <1>6, <1>7 DEF TabInv, ShownInv
<1>9. WireInv'
  BY RewireKeeps DEF ReadList, ListReturns, ListFails, ListForgotten, FocusTab,
                     TabInv, WireInv, wireVars
<1>. QED
  BY <1>2, <1>5, <1>8, <1>9 DEF TabInv

LEMMA SelectionSteps ==
    ASSUME TabInv, NEW o \in Orgs, SelectOrganization(o) \/ SelectedElsewhere(o)
    PROVE  TabInv'
<1>1. UNCHANGED <<account, starting, route, lists, reading, member, been,
                  lacked, staffMoves, tabFaults>>
  BY DEF SelectOrganization, SelectedElsewhere, authVars, staffVars
<1>2. StaffInv' /\ FetchInv'
  BY <1>1 DEF TabInv, StaffInv, FetchInv, True
<1>3. ShownInv'
  BY <1>1, MembershipsKept
     DEF SelectOrganization, SelectedElsewhere, TabInv, ShownInv
<1>4. WireInv'
  BY RewireKeeps DEF SelectOrganization, SelectedElsewhere, TabInv, WireInv,
                     wireVars
<1>. QED
  BY <1>2, <1>3, <1>4 DEF TabInv

LEMMA StaffSteps ==
    ASSUME TabInv, NEW o \in Orgs,
           CreateOrganization(o) \/ \E p \in Persons : ChangeMembership(p, o)
    PROVE  TabInv'
<1>1. ASSUME UNCHANGED <<authVars, listVars, wireVars>>, StaffInv',
             \A q \in Persons : been[q] \subseteq been'[q],
             lacked \subseteq lacked', tabFaults' \in 0..MaxTabFaults
      PROVE  TabInv'
  <2>1. UNCHANGED <<account, starting, route, lists, reading, saved, chosen>>
    BY <1>1 DEF authVars, listVars
  <2>2. FetchInv'
    BY <1>1, <2>1, HistoryKeepsFetches DEF TabInv
  <2>3. ShownInv'
    BY <1>1, <2>1, MembershipsKept DEF TabInv, ShownInv
  <2>4. WireInv'
    BY <1>1 DEF TabInv, WireInv, wireVars
  <2>. QED
    BY <1>1, <2>2, <2>3, <2>4 DEF TabInv
<1>2. ASSUME NEW p \in Persons, ChangeMembership(p, o) PROVE TabInv'
  <2>. DEFINE orgs == IF o \in member[p] THEN member[p] \ {o}
                                         ELSE member[p] \cup {o}
  <2>1. SetMemberships(p, orgs) /\ orgs \in SUBSET Orgs
    BY <1>2 DEF ChangeMembership, TabInv, StaffInv
  <2>. HIDE DEF orgs
  <2>. QED
    BY <1>1, <1>2, <2>1, SetMembershipsKeeps
       DEF ChangeMembership, TabInv, ShownInv
<1>3. CASE CreateOrganization(o)
  <2>. DEFINE orgs == member[account] \cup {o}
  <2>1. account \in Persons
    BY <1>3, SessionAssumption
       DEF CreateOrganization, View, User, TabInv, ShownInv
  <2>2. SetMemberships(account, orgs) /\ orgs \in SUBSET Orgs
    BY <1>3, <2>1 DEF CreateOrganization, TabInv, StaffInv
  <2>. HIDE DEF orgs
  <2>3. /\ StaffInv'
        /\ \A q \in Persons : been[q] \subseteq been'[q]
        /\ lacked \subseteq lacked'
    BY <2>1, <2>2, SetMembershipsKeeps
  <2>4. CASE UNCHANGED <<account, tabFaults>> /\ Load("app")
    BY <2>1, <2>3, <2>4, LoadKeeps DEF TabInv, ShownInv, Routes
  <2>5. CASE TabFault /\ UNCHANGED <<authVars, listVars, wireVars>>
    BY <1>1, <2>3, <2>5, TabFaultType DEF TabInv, ShownInv
  <2>. QED
    BY <1>3, <2>4, <2>5 DEF CreateOrganization
<1>. QED
  BY <1>2, <1>3

LEMMA ChannelSteps ==
    ASSUME TabInv,
           OldChannelClosed \/ \E c \in Channels : ChannelUp(c) \/ ChannelDown(c)
    PROVE  TabInv'
<1>1. /\ UNCHANGED <<authVars, listVars, staffVars>>
      /\ tabFaults' \in 0..MaxTabFaults
  BY TabFaultType DEF OldChannelClosed, ChannelUp, ChannelDown, TabInv, ShownInv
<1>2. UNCHANGED <<account, starting, route, lists, reading, saved, chosen,
                  member, been, lacked, staffMoves>>
  BY <1>1 DEF authVars, listVars, staffVars
<1>3. StaffInv' /\ FetchInv'
  BY <1>2 DEF TabInv, StaffInv, FetchInv, True
<1>4. ShownInv'
  BY <1>1, <1>2, MembershipsKept DEF TabInv, ShownInv
<1>5. WireInv'
  BY DEF OldChannelClosed, ChannelUp, ChannelDown, TabInv, WireInv, Badges
<1>. QED
  BY <1>3, <1>4, <1>5 DEF TabInv

LEMMA TabStep == TabInv /\ [SessionNext]_tabVars => TabInv'
<1>. SUFFICES ASSUME TabInv, [SessionNext]_tabVars PROVE TabInv'
  OBVIOUS
<1>1. CASE UNCHANGED tabVars
  BY <1>1, MembershipsKept
     DEF tabVars, authVars, listVars, staffVars, wireVars, TabInv, StaffInv,
         FetchInv, True, ShownInv, WireInv
<1>2. CASE FocusTab
  <2>1. User \in Persons
    BY <1>2 DEF FocusTab, User, TabInv, ShownInv
  <2>. QED
    BY <1>2, <2>1, ListSteps
<1>3. ASSUME NEW p \in Persons,
             ReadList(p) \/ ListReturns(p) \/ ListFails(p) \/ ListForgotten(p)
      PROVE  TabInv'
  BY <1>3, ListSteps
<1>4. ASSUME NEW o \in Orgs,
             \/ SelectOrganization(o) \/ SelectedElsewhere(o)
             \/ CreateOrganization(o)
             \/ \E p \in Persons : ChangeMembership(p, o)
      PROVE  TabInv'
  BY <1>4, SelectionSteps, StaffSteps
<1>. QED
  BY <1>1, <1>2, <1>3, <1>4, SessionSteps, RouteSteps, ChannelSteps
     DEF SessionNext

LEMMA TabInvariant == SessionSpec => []TabInv
BY TabInit, TabStep, PTL DEF SessionSpec

\* Every reachable state of Session is well typed.
THEOREM SessionTypeCorrect == SessionSpec => []SessionTypeOK
BY TabInvariant, TabInvImplies, PTL

\* For any number of persons and organizations, however often they sign in
\* and out, select, join and leave: the pages shown are those of an own
\* organization, and the set-up is not shown to who is known to have one.
THEOREM WorkspaceAlwaysOwn == SessionSpec => []WorkspaceIsOwn
BY TabInvariant, TabInvImplies, PTL

\* For any set of channels: a badge says "live" only after every channel of
\* this organization, person and token has joined.
THEOREM LiveBadgeEarned == SessionSpec => []LiveBadge
BY TabInvariant, TabInvImplies, PTL
=============================================================================
