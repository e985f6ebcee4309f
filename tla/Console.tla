------------------------------ MODULE Console ------------------------------
(***************************************************************************)
(* One browser with the console open at one page, and what it knows of one *)
(* organization: the page's query in the query cache, the subscriptions    *)
(* while the organization is selected, and the change the page itself      *)
(* makes.  Others change the organization's data meanwhile.                *)
(*                                                                         *)
(* Other organizations have queries and subscriptions of their own; all    *)
(* they share with this one is that only one is selected.                  *)
(*                                                                         *)
(* Of the data only this is kept: which kinds of changes it misses.        *)
(*   "sent"   a message was sent of the change                             *)
(*   "mine"   this browser made the change and waits for the answer, or    *)
(*            was told that it succeeded                                   *)
(* Changes of which nothing will tell this browser are left out.           *)
(***************************************************************************)
EXTENDS Naturals, ConsolePages

CONSTANTS
    NoFetch,     \* no fetch in flight
    NoChange,    \* no change of one's own in flight
    Pages,       \* the pages that may be open, for the member's role
    MaxChanges,  \* bound: changes of the database
    MaxFaults    \* bound: faults, and renewals of the access token

VARIABLES
    page,        \* the page that is open
    selected,    \* whether this organization is the one selected
    joined,      \* its topics that are subscribed
    arriving,    \* those of them with a message on its way
    cached,      \* the page's data
    fetch,       \* the fetch of it in flight
    own,         \* the change this browser has asked for
    changes, faults

viewVars == <<page, selected, joined, arriving>>
vars == <<viewVars, cached, fetch, own, changes, faults>>

Kinds == {"sent", "mine"}
Topics == {"runs", "incidents", "approvals", "notifications"}

Fetches(p) ==
    [read : SUBSET p.requests, misses : SUBSET Kinds, ignored : BOOLEAN]
OwnChange == [change : Changes, at : {"sent", "done", "refused"}]

ASSUME ConsoleAssumption ==
    /\ MaxChanges \in Nat
    /\ MaxFaults \in Nat
    /\ \A p \in Pages : NoFetch \notin Fetches(p)
    /\ NoChange \notin OwnChange

Empty == [has |-> FALSE, misses |-> {}, invalid |-> FALSE, unheard |-> FALSE]

\* A fetch that has read nothing yet.
Unread == [read |-> {}, misses |-> {}, ignored |-> FALSE]

Init ==
    /\ page \in Pages
    /\ selected = FALSE
    /\ joined = {}
    /\ arriving = {}
    /\ cached = Empty
    /\ fetch = NoFetch
    /\ own = NoChange
    /\ changes = 0
    /\ faults = 0

Fault == faults < MaxFaults /\ faults' = faults + 1

-----------------------------------------------------------------------------
(* The query cache.                                                        *)

\* Mutant of Refetch: a fetch in flight is always left alone.
RefetchIdle ==
    IF fetch = NoFetch THEN Unread
    ELSE [fetch EXCEPT !.ignored = ~ cached.has]

\* What invalidating the query on screen does to its fetch.  One in flight
\* is cancelled and begun again, unless it is the first: then nothing
\* happens, and what it has read already counts as fresh.
Refetch ==
    IF fetch # NoFetch /\ ~ cached.has
    THEN [fetch EXCEPT !.ignored = TRUE]
    ELSE Unread

\* invalidateQueries, while the organization is selected.
Invalidate == fetch' = Refetch /\ UNCHANGED cached

\* Data that is shown again is fetched if it is invalid or 15 seconds old.
Mount ==
    \/ fetch # NoFetch /\ UNCHANGED fetch
    \/ fetch = NoFetch /\ fetch' = Unread
    \/ cached.has /\ ~ cached.invalid /\ UNCHANGED fetch

ReadRequest(q) ==
    /\ fetch # NoFetch
    /\ q \in page.requests \ fetch.read
    /\ fetch' = [fetch EXCEPT !.read = @ \cup {q}]
    /\ UNCHANGED <<viewVars, cached, own, changes, faults>>

FetchReturns ==
    /\ fetch # NoFetch
    /\ fetch.read = page.requests
    /\ cached' = [has |-> TRUE, invalid |-> FALSE, misses |-> fetch.misses,
                  unheard |-> fetch.ignored]
    /\ fetch' = NoFetch
    /\ UNCHANGED <<viewVars, own, changes, faults>>

\* A request fails: the fetch is tried once more, from the beginning, and
\* then given up; the page shows the error.
FetchFails ==
    /\ fetch # NoFetch
    /\ \/ fetch' = Unread /\ UNCHANGED cached
       \/ fetch' = NoFetch /\ cached' = [cached EXCEPT !.invalid = TRUE]
    /\ Fault
    /\ UNCHANGED <<viewVars, own, changes>>

\* The window gets the focus again.
Focus ==
    /\ selected
    /\ fetch = NoFetch
    /\ Mount
    /\ UNCHANGED <<viewVars, cached, own, changes, faults>>

-----------------------------------------------------------------------------
(* Session, organization and subscriptions.                                *)

\* The user signs in, or selects this organization instead of another one.
Select ==
    /\ ~ selected
    /\ selected' = TRUE
    /\ Mount
    /\ UNCHANGED <<page, joined, arriving, cached, own, changes, faults>>

Unsubscribe == joined' = {} /\ arriving' = {}

\* The user signs out, or selects another organization.
Leave ==
    /\ selected
    /\ selected' = FALSE
    /\ Unsubscribe
    /\ UNCHANGED <<page, cached, fetch, own, changes, faults>>

\* With a new access token every channel is removed and made again.
RenewToken ==
    /\ selected
    /\ Unsubscribe
    /\ Fault
    /\ UNCHANGED <<page, selected, cached, fetch, own, changes>>

\* Mutant of Subscribed: nothing is refreshed.
SubscribedOnly(t) ==
    /\ selected
    /\ t \notin joined
    /\ joined' = joined \cup {t}
    /\ UNCHANGED <<page, selected, arriving, cached, fetch, own, changes,
                   faults>>

Subscribed(t) ==
    /\ selected
    /\ t \notin joined
    /\ joined' = joined \cup {t}
    /\ Invalidate
    /\ UNCHANGED <<page, selected, arriving, own, changes, faults>>

\* CHANNEL_ERROR or TIMED_OUT, after which the client library joins again.  (It
\* does not after a CLOSED sent by the server, which is not modelled.)
ChannelLost(t) ==
    /\ t \in joined
    /\ joined' = joined \ {t}
    /\ arriving' = arriving \ {t}
    /\ Fault
    /\ UNCHANGED <<page, selected, cached, fetch, own, changes>>

\* A broadcast message, whatever it says.
Broadcast(t) ==
    /\ t \in arriving
    /\ arriving' = arriving \ {t}
    /\ Invalidate
    /\ UNCHANGED <<page, selected, joined, own, changes, faults>>

-----------------------------------------------------------------------------
(* Changes of the database.                                                *)

\* What has been read of the tables of a change now misses it.
Missed(read, misses, change, kinds) ==
    IF \E q \in read : Touches(q, change) THEN misses \cup kinds ELSE misses

Write(change, kinds) ==
    /\ changes < MaxChanges
    /\ changes' = changes + 1
    /\ cached' = IF ~ cached.has THEN cached
                 ELSE [cached EXCEPT !.misses =
                          Missed(page.requests, @, change, kinds)]
    /\ fetch' = IF fetch = NoFetch THEN fetch
                ELSE [fetch EXCEPT !.misses =
                         Missed(fetch.read, @, change, kinds)]
    /\ arriving' = arriving \cup (change.topics \cap joined)

\* Somebody else changes what the page shows, and messages are sent.
ChangeByOthers(change) ==
    /\ change.topics # {}
    /\ \E q \in page.requests : Touches(q, change)
    /\ Write(change, {"sent"})
    /\ UNCHANGED <<page, selected, joined, own, faults>>

\* A button of the page, or of a dialog opened before another organization
\* was selected.
Mutate(change) ==
    /\ own = NoChange
    /\ cached.has
    /\ change \in IF selected THEN page.offers ELSE page.dialogs
    /\ own' = [change |-> change, at |-> "sent"]
    /\ UNCHANGED <<viewVars, cached, fetch, changes, faults>>

\* The server makes the change, of which this browser will be told.
CommitOwn ==
    /\ own # NoChange
    /\ own.at = "sent"
    /\ Write(own.change, IF own.change.topics = {} THEN {"mine"}
                                                   ELSE {"mine", "sent"})
    /\ own' = [own EXCEPT !.at = "done"]
    /\ UNCHANGED <<page, selected, joined, faults>>

\* It refuses; or a table's policy skips the row, which is no error.
RefuseOwn ==
    /\ own # NoChange
    /\ own.at = "sent"
    /\ \/ own' = [own EXCEPT !.at = "refused"]
       \/ own.change \in DirectUpdates /\ own' = [own EXCEPT !.at = "done"]
    /\ UNCHANGED <<viewVars, cached, fetch, changes, faults>>

\* This browser does not follow its own change any longer.
Forget(data) == [data EXCEPT !.misses = @ \ {"mine"}]

FetchForgets == fetch' = IF fetch = NoFetch THEN NoFetch ELSE Forget(fetch)

\* Mutant of AnswerOwn: the page is not refreshed.
AnswerOnly ==
    /\ own # NoChange
    /\ own.at = "done"
    /\ own' = NoChange
    /\ UNCHANGED <<viewVars, cached, fetch, changes, faults>>

\* onSuccess invalidates the queries of the organization that is selected by
\* then, or, once signed out, was the last one.
AnswerOwn ==
    /\ own # NoChange
    /\ own.at = "done"
    /\ own' = NoChange
    /\ \/ selected /\ Invalidate
       \/ /\ ~ selected
          /\ FetchForgets
          /\ \E signedOut \in BOOLEAN :
                cached' = [Forget(cached) EXCEPT
                             !.invalid = @ \/ (signedOut /\ cached.has)]
    /\ UNCHANGED <<viewVars, changes, faults>>

\* The answer to a change made for another organization comes only now.
AnswerElsewhere ==
    /\ selected
    /\ changes < MaxChanges
    /\ changes' = changes + 1
    /\ Invalidate
    /\ UNCHANGED <<viewVars, own, faults>>

\* onError: the change was refused, or the answer is lost.
OwnFails ==
    /\ own # NoChange
    /\ own' = NoChange
    /\ \/ own.at = "refused" /\ UNCHANGED <<cached, fetch, faults>>
       \/ /\ own.at = "done"
          /\ FetchForgets
          /\ cached' = Forget(cached)
          /\ Fault
    /\ UNCHANGED <<viewVars, changes>>

FetchStep == FetchReturns \/ \E q \in page.requests : ReadRequest(q)

Next ==
    \/ FetchStep \/ FetchFails \/ Focus
    \/ Select \/ Leave \/ RenewToken
    \/ \E t \in Topics : Subscribed(t) \/ ChannelLost(t) \/ Broadcast(t)
    \/ \E c \in Changes : ChangeByOthers(c) \/ Mutate(c)
    \/ CommitOwn \/ RefuseOwn \/ AnswerOwn \/ AnswerElsewhere \/ OwnFails

\* Channels join and deliver, and requests are answered.
Fairness ==
    /\ WF_vars(FetchStep)
    /\ \A t \in Topics : WF_vars(Subscribed(t)) /\ WF_vars(Broadcast(t))

Spec == Init /\ [][Next]_vars /\ Fairness

-----------------------------------------------------------------------------
(* What the console promises.                                              *)

ConsoleTypeOK ==
    /\ page \in Pages
    /\ selected \in BOOLEAN
    /\ joined \subseteq Topics
    /\ arriving \subseteq joined
    /\ cached \in [has : BOOLEAN, misses : SUBSET Kinds, invalid : BOOLEAN,
                   unheard : BOOLEAN]
    /\ fetch \in Fetches(page) \cup {NoFetch}
    /\ own \in OwnChange \cup {NoChange}
    /\ changes \in 0..MaxChanges
    /\ faults \in 0..MaxFaults

\* Data is on screen, no fetch is in flight and no error shown.
Settled == selected /\ cached.has /\ ~ cached.invalid /\ fetch = NoFetch

\* ASSUMPTIONS.md: "the browser refetches authoritative rows after messages
\* or reconnection."  So while every channel is joined and no message on its
\* way, a settled page misses no change that was announced, however reading
\* its tables, changes, messages and lost channels interleave; but for a
\* refresh that found the page's first fetch in flight and was ignored.
FreshWhenSubscribed ==
    /\ Settled
    /\ joined = Topics
    /\ arriving = {}
    /\ "sent" \in cached.misses
    => cached.unheard

\* A change of one's own that succeeded, announced or not, is shown as soon
\* as the page has settled, if its organization was still selected when the
\* answer came.
OwnChangesShown == Settled /\ own = NoChange => "mine" \notin cached.misses

\* A change that was announced is shown in the end, unless the user looks at
\* another organization or an error, or the refresh was ignored.
ShownEventually ==
    selected /\ "sent" \in cached.misses ~>
        \/ "sent" \notin cached.misses
        \/ ~ selected
        \/ cached.invalid
        \/ cached.unheard
=============================================================================
