------------------------------ MODULE Session ------------------------------
(***************************************************************************)
(* One tab of the console: who is signed in (AuthContext), of which        *)
(* organizations that person is a member (OrganizationContext), what       *)
(* ProtectedRoute therefore shows, and the badge that says whether the     *)
(* organization's channels are live (useRealtimeOrganization).             *)
(*                                                                         *)
(* The session and the saved selection are in the browser's storage, which *)
(* all tabs share; signing in or out in another tab is an event in this    *)
(* one.  A successful action of the auth client and the event it sends are *)
(* one step; one that fails changes nothing.                               *)
(***************************************************************************)
EXTENDS Naturals

CONSTANTS
    Persons, Orgs,
    NoPerson, NoOrg,
    Channels,       \* the topics an organization's data is announced on
    Staff,          \* the active memberships there may be in the beginning
    MaxStaffMoves,  \* bound: memberships that begin or end
    MaxTabFaults    \* bound: faults, lost channels and renewed tokens

VARIABLES
    account,   \* the person whose session the auth client keeps
    starting,  \* AuthContext.loading
    route,     \* the page the URL names
    saved,     \* localStorage: the organization selected last
    chosen,    \* selectedId
    lists,     \* per person: the cached memberships query
    reading,   \* per person: the fetch of it in flight
    member,    \* per person: the organizations it is an active member of
    been,      \* per person: those it was a member of at some time
    lacked,    \* the persons that were without any at some time
    badge,     \* the status useRealtimeOrganization returns
    heard,     \* liveTopics
    up,        \* the channels that are joined
    lost,      \* those lost since they were set up
    rejoined,  \* whether a channel joining was the last thing heard of them
    oldies,    \* channels that were removed may still report that they closed
    staffMoves, tabFaults

authVars == <<account, starting, route>>
listVars == <<saved, chosen, lists, reading>>
staffVars == <<member, been, lacked, staffMoves>>
wireVars == <<badge, heard, up, lost, rejoined, oldies>>
tabVars == <<authVars, listVars, staffVars, wireVars, tabFaults>>

ASSUME SessionAssumption ==
    /\ NoPerson \notin Persons
    /\ NoOrg \notin Orgs
    /\ Staff \subseteq [Persons -> SUBSET Orgs]
    /\ MaxStaffMoves \in Nat
    /\ MaxTabFaults \in Nat

Routes == {"app", "sign-in", "reset", "callback"}
Badges == {"none", "connecting", "live", "offline"}

Unfetched == [has |-> FALSE, list |-> {}, failed |-> FALSE]
NoReading == [at |-> "none", of |-> NoPerson, list |-> {}]
SentReading(p) == [at |-> "sent", of |-> p, list |-> {}]

SessionTypeOK ==
    /\ account \in Persons \cup {NoPerson}
    /\ starting \in BOOLEAN
    /\ route \in Routes
    /\ saved \in Orgs \cup {NoOrg}
    /\ chosen \in Orgs \cup {NoOrg}
    /\ lists \in [Persons -> [has : BOOLEAN, list : SUBSET Orgs,
                              failed : BOOLEAN]]
    /\ reading \in [Persons -> [at : {"none", "sent", "read"},
                                of : Persons \cup {NoPerson},
                                list : SUBSET Orgs]]
    /\ member \in [Persons -> SUBSET Orgs]
    /\ been \in [Persons -> SUBSET Orgs]
    /\ lacked \subseteq Persons
    /\ badge \in Badges
    /\ heard \subseteq Channels
    /\ up \subseteq Channels
    /\ lost \subseteq Channels
    /\ rejoined \in BOOLEAN
    /\ oldies \in BOOLEAN
    /\ staffMoves \in 0..MaxStaffMoves
    /\ tabFaults \in 0..MaxTabFaults

SessionInit ==
    /\ account \in Persons \cup {NoPerson}
    /\ starting = TRUE
    /\ route = "app"
    /\ saved \in Orgs \cup {NoOrg}
    /\ chosen = saved
    /\ lists = [p \in Persons |-> Unfetched]
    /\ reading = [p \in Persons |-> NoReading]
    /\ member \in Staff
    /\ been = member
    /\ lacked = {p \in Persons : member[p] = {}}
    /\ badge = "none"
    /\ heard = {} /\ up = {} /\ lost = {}
    /\ rejoined = FALSE
    /\ oldies = FALSE
    /\ staffMoves = 0
    /\ tabFaults = 0

TabFault == tabFaults < MaxTabFaults /\ tabFaults' = tabFaults + 1

-----------------------------------------------------------------------------
(* What the tab shows.                                                     *)

\* useAuth().user
User == IF starting THEN NoPerson ELSE account

\* Mutant of KeyOf: the memberships query is not keyed by the person.
KeyOfAll(p) == CHOOSE q \in Persons : TRUE

\* The cache entry of a person's memberships: queryKey has user.id.
KeyOf(p) == p

Memberships == IF User = NoPerson THEN {} ELSE lists[KeyOf(User)].list

\* useOrganization().organization.  The effect of OrganizationProvider keeps
\* the selection among the memberships.
Workspace == IF Memberships = {} THEN NoOrg ELSE chosen

\* ProtectedRoute; query.isLoading is the first fetch in flight.
View ==
    IF starting THEN "checking"
    ELSE IF User = NoPerson THEN "sign-in"
    ELSE IF ~ lists[KeyOf(User)].has /\ reading[KeyOf(User)].at # "none"
         THEN "checking"
    ELSE IF Workspace = NoOrg THEN "setup"
    ELSE "page"

\* AppShell is on screen.
Open == route = "app" /\ View = "page"

-----------------------------------------------------------------------------
(* Effects, after the variables they depend on have changed.               *)

\* A selection that is not among the memberships is replaced by the first,
\* whichever that is, and saved; without memberships nothing happens.
FallBack ==
    IF Memberships' = {} \/ chosen \in Memberships'
    THEN UNCHANGED <<chosen, saved>>
    ELSE \E o \in Memberships' : chosen' = o /\ saved' = o

\* Mutant of NothingHeard: liveTopics outlives the effect.
HeardBefore == heard

\* What the hook knows of channels it has just set up.
NothingHeard == {}

\* The hook's effect: when the shell appears, or another organization or
\* another access token comes, the channels are set up afresh; those of
\* before are removed and will report that they closed.
Rewire(renewed) ==
    IF ~ Open'
    THEN /\ badge' = "none" /\ heard' = {} /\ up' = {} /\ lost' = {}
         /\ rejoined' = FALSE /\ oldies' = FALSE
    ELSE IF ~ Open \/ Workspace' # Workspace \/ User' # User \/ renewed
    THEN /\ badge' = "connecting" /\ heard' = NothingHeard
         /\ up' = {} /\ lost' = {} /\ rejoined' = FALSE
         /\ oldies' = Open
    ELSE UNCHANGED wireVars

\* The memberships query of p comes on screen: a first fetch is begun;
\* data is fetched again if it is old or invalid.
MountList(p) ==
    LET k == KeyOf(p) IN
    IF reading[k].at # "none" THEN UNCHANGED reading
    ELSE \/ reading' = [reading EXCEPT ![k] = SentReading(p)]
         \/ lists[k].has /\ UNCHANGED reading

\* Nobody is signed in any longer, or somebody else.
SessionOf(p) ==
    /\ account' = p
    /\ starting' = FALSE
    /\ IF p = NoPerson \/ p = User THEN UNCHANGED reading ELSE MountList(p)
    /\ UNCHANGED lists
    /\ FallBack
    /\ Rewire(TRUE)

-----------------------------------------------------------------------------
(* Sessions.                                                               *)

\* getSession answers; a person is signed in since before.
GetSession ==
    /\ starting
    /\ UNCHANGED <<route, staffVars, tabFaults>>
    /\ SessionOf(account)

\* signInWithPassword, or signUp if addresses need not be confirmed, here or
\* in another tab.
SignIn(p) ==
    /\ account = NoPerson
    /\ UNCHANGED <<route, staffVars, tabFaults>>
    /\ SessionOf(p)

\* handleSignOut here, or in another tab, or the session has expired.
SignOut ==
    /\ account # NoPerson
    /\ UNCHANGED <<route, staffVars, tabFaults>>
    /\ SessionOf(NoPerson)

\* The same person, with a new access token.
TokenRefreshed ==
    /\ account # NoPerson /\ ~ starting
    /\ TabFault
    /\ UNCHANGED <<route, staffVars>>
    /\ SessionOf(account)

\* The page is loaded: what was in memory is gone.
Load(r) ==
    /\ starting' = TRUE
    /\ route' = r
    /\ chosen' = saved
    /\ lists' = [p \in Persons |-> Unfetched]
    /\ reading' = [p \in Persons |-> NoReading]
    /\ UNCHANGED saved
    /\ Rewire(FALSE)

\* The user loads the page anew, or follows the link of an email, which
\* may hold a session.
Reload ==
    /\ TabFault
    /\ \/ UNCHANGED account /\ Load("app")
       \/ account' \in Persons \cup {account} /\ Load("callback")
    /\ UNCHANGED staffVars

\* Between the pages for those who are not signed in.
FollowLink ==
    /\ route \in {"sign-in", "reset"}
    /\ route' \in {"sign-in", "reset"} \ {route}
    /\ UNCHANGED <<account, starting, listVars, staffVars, wireVars, tabFaults>>

\* <Navigate>: those signed in have no business at the sign-in page, and
\* those not signed in none elsewhere.  The callback page asks the auth
\* client itself, which may fail.
Redirect ==
    /\ \/ route = "sign-in" /\ User # NoPerson /\ route' = "app"
       \/ route = "app" /\ View = "sign-in" /\ route' = "sign-in"
       \/ /\ route = "callback"
          /\ \/ route' = "sign-in"
             \/ account # NoPerson /\ route' = "app"
    /\ UNCHANGED <<account, starting, listVars, staffVars, tabFaults>>
    /\ Rewire(FALSE)

-----------------------------------------------------------------------------
(* Memberships.                                                            *)

\* The database answers loadMemberships.
ReadList(k) ==
    /\ reading[k].at = "sent"
    /\ reading' = [reading EXCEPT ![k].at = "read",
                                  ![k].list = member[reading[k].of]]
    /\ UNCHANGED <<authVars, saved, chosen, lists, staffVars, wireVars,
                   tabFaults>>

ListReturns(k) ==
    /\ reading[k].at = "read"
    /\ lists' = [lists EXCEPT ![k] = [has |-> TRUE, list |-> reading[k].list,
                                      failed |-> FALSE]]
    /\ reading' = [reading EXCEPT ![k] = NoReading]
    /\ UNCHANGED <<authVars, staffVars, tabFaults>>
    /\ FallBack
    /\ Rewire(FALSE)

\* The fetch is tried once more, while it is on screen, or given up.
ListFails(k) ==
    /\ reading[k].at # "none"
    /\ TabFault
    /\ \/ /\ User # NoPerson /\ KeyOf(User) = k
          /\ reading' = [reading EXCEPT ![k] = SentReading(User)]
          /\ UNCHANGED lists
       \/ /\ reading' = [reading EXCEPT ![k] = NoReading]
          /\ lists' = [lists EXCEPT ![k].failed = TRUE]
    /\ UNCHANGED <<authVars, staffVars>>
    /\ FallBack
    /\ Rewire(FALSE)

\* A query that is not on screen for five minutes is forgotten.
ListForgotten(k) ==
    /\ User = NoPerson \/ KeyOf(User) # k
    /\ lists[k].has
    /\ reading[k].at = "none"
    /\ lists' = [lists EXCEPT ![k] = Unfetched]
    /\ UNCHANGED <<authVars, saved, chosen, reading, staffVars, wireVars,
                   tabFaults>>

\* The window gets the focus: old data is fetched again.
FocusTab ==
    /\ User # NoPerson
    /\ reading[KeyOf(User)].at = "none"
    /\ reading' = [reading EXCEPT ![KeyOf(User)] = SentReading(User)]
    /\ UNCHANGED <<authVars, lists, chosen, saved, staffVars, tabFaults>>
    /\ Rewire(FALSE)

\* selectOrganization, from the list in the shell.
SelectOrganization(o) ==
    /\ Open
    /\ o \in Memberships
    /\ chosen' = o
    /\ saved' = o
    /\ UNCHANGED <<authVars, lists, reading, staffVars, tabFaults>>
    /\ Rewire(FALSE)

\* Another tab saves its selection; this one reads it when it is loaded.
SelectedElsewhere(o) ==
    /\ account # NoPerson
    /\ o \in been[account]
    /\ saved' = o
    /\ UNCHANGED <<authVars, chosen, lists, reading, staffVars, wireVars,
                   tabFaults>>

\* The memberships of p are now these.
SetMemberships(p, orgs) ==
    /\ staffMoves < MaxStaffMoves
    /\ staffMoves' = staffMoves + 1
    /\ member' = [member EXCEPT ![p] = orgs]
    /\ been' = [been EXCEPT ![p] = @ \cup orgs]
    /\ lacked' = IF orgs = {} THEN lacked \cup {p} ELSE lacked

\* A manager makes somebody a member, or ends a membership.
ChangeMembership(p, o) ==
    /\ SetMemberships(p, IF o \in member[p] THEN member[p] \ {o}
                                            ELSE member[p] \cup {o})
    /\ UNCHANGED <<authVars, listVars, wireVars, tabFaults>>

\* OrganizationSetup: create_organization_with_owner, and the page is loaded
\* anew, unless the answer is lost.  A slug in use is an error.
CreateOrganization(o) ==
    /\ route = "app"
    /\ View = "setup"
    /\ \A p \in Persons : o \notin been[p]
    /\ SetMemberships(account, member[account] \cup {o})
    /\ \/ UNCHANGED <<account, tabFaults>> /\ Load("app")
       \/ TabFault /\ UNCHANGED <<authVars, listVars, wireVars>>

-----------------------------------------------------------------------------
(* Channels.                                                               *)

\* SUBSCRIBED
ChannelUp(c) ==
    /\ Open
    /\ c \notin up
    /\ up' = up \cup {c}
    /\ heard' = heard \cup {c}
    /\ badge' = IF heard' = Channels THEN "live" ELSE badge
    /\ rejoined' = TRUE
    /\ UNCHANGED <<authVars, listVars, staffVars, lost, oldies, tabFaults>>

\* CHANNEL_ERROR or TIMED_OUT of one joined or joining, or CLOSED.
ChannelDown(c) ==
    /\ Open
    /\ TabFault
    /\ up' = up \ {c}
    /\ lost' = IF c \in up THEN lost \cup {c} ELSE lost
    /\ badge' \in {"offline", "connecting"}
    /\ rejoined' = FALSE
    /\ UNCHANGED <<authVars, listVars, staffVars, heard, oldies>>

\* CLOSED of a channel of before, with the same setStatus.
OldChannelClosed ==
    /\ oldies
    /\ badge' = "connecting"
    /\ rejoined' = FALSE
    /\ oldies' \in BOOLEAN
    /\ UNCHANGED <<authVars, listVars, staffVars, heard, up, lost, tabFaults>>

SessionNext ==
    \/ GetSession \/ SignOut \/ TokenRefreshed \/ Reload
    \/ FollowLink \/ Redirect \/ FocusTab \/ OldChannelClosed
    \/ \E p \in Persons :
          \/ SignIn(p) \/ ReadList(p) \/ ListReturns(p) \/ ListFails(p)
          \/ ListForgotten(p)
          \/ \E o \in Orgs : ChangeMembership(p, o)
    \/ \E o \in Orgs :
          SelectOrganization(o) \/ SelectedElsewhere(o) \/ CreateOrganization(o)
    \/ \E c \in Channels : ChannelUp(c) \/ ChannelDown(c)

SessionSpec == SessionInit /\ [][SessionNext]_tabVars

-----------------------------------------------------------------------------
(* What a tab promises.                                                    *)

\* Whoever was signed in before, in this tab or another, and whatever
\* selection was saved: the pages are those of an organization of which the
\* person now signed in was a member when its memberships were read, and the
\* set-up of a new organization is only offered to a person that was found
\* without one, or whose memberships could not be read.
WorkspaceIsOwn ==
    /\ View = "page" => Workspace \in been[User]
    /\ View = "setup" => User \in lacked \/ lists[KeyOf(User)].failed

\* A badge that says "live" is wrong only about channels that were lost and
\* have not come back, and then another one has joined since; channels of
\* another organization, person or token do not count.
LiveBadge ==
    badge = "live" =>
        /\ up \cup lost = Channels
        /\ rejoined
=============================================================================
