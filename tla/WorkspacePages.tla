--------------------------- MODULE WorkspacePages ---------------------------
(***************************************************************************)
(* The store of workspaces of the web front end, and the dashboard page    *)
(* that is shown (src/frontend/src/lib/workspace.ts,                       *)
(* components/enterprise/shell.tsx, app/dashboard/layout.tsx; the pages    *)
(* are the table of module DashboardPages).                                *)
(*                                                                         *)
(* One tab.  A task of JavaScript runs to its end, and what React does     *)
(* because of it (closing and opening the gate, the effects of a page) is  *)
(* over before the next one: each action is an act of the user or the      *)
(* arrival of one answer, with Rendered as its last part.  Calls under way *)
(* may be answered in any order, or fail.                                  *)
(*                                                                         *)
(* Of a page one resource, any of its resources, is followed; of what is   *)
(* typed or picked to select what it loads, which of a few queries it is.  *)
(***************************************************************************)
EXTENDS DashboardPages, Sequences, SequencesExt, FiniteSets

CONSTANTS Workspaces, \* ids of workspaces
          Accounts,   \* accounts that sign in at this browser
          Pages,      \* the pages of the table that are visited
          RoleIn,     \* the role of a member of each workspace
          FeaturesOf, \* what the plan of each workspace includes
          Queries,    \* what may be typed or picked, of which 1 is the first
          FirstLists, \* the workspaces of each account to begin with, newest first
          MaxCalls,   \* bound: calls of listWorkspaces under way
          MaxEvents   \* bound: sign-outs, pages loaded anew, failed lists, and
                      \* workspaces created, deleted and joined

\* A list of workspaces, each at most once.
List == {s \in UNION {[1 .. n -> Workspaces] : n \in 0 .. Cardinality(Workspaces)} : IsInjective(s)}

ASSUME WorkspacePagesAssumption ==
    /\ IsFiniteSet(Workspaces)
    /\ None \notin Workspaces \cup Accounts
    /\ "overview" \in Pages /\ Pages \subseteq DOMAIN Page
    /\ \A p \in Pages : Page[p] \in PageType
    /\ RoleIn \in [Workspaces -> Roles]
    /\ FeaturesOf \in [Workspaces -> SUBSET Features]
    /\ 1 \in Queries /\ Queries \subseteq Nat \ {0}
    /\ FirstLists \subseteq [Accounts -> List]
    /\ MaxCalls \in Nat
    /\ MaxEvents \in Nat

VARIABLES
    account,      \* who is signed in
    lists,        \* server: the workspaces of each account, newest first
    unborn,       \* server: workspaces not created yet
    workspaces,   \* the store: the list,
    activeId,     \*   the active workspace, which localStorage has too,
    entitlements, \*   the workspace whose entitlements it has,
    loading, loaded,
    failed,       \*   error # null
    listings,     \* calls of listWorkspaces under way: whose list, and the list
    asked,        \* calls of entitlements under way: of which workspace
    saved,        \* "qrit_active_workspace" in localStorage
    page,         \* the page shown, None outside the dashboard
    view,         \* what it keeps while it is mounted
    owner,        \* history: whose list the store has
    leftBehind,   \* history: was an account signed out with the store as it was,
                  \* or with a call of listWorkspaces under way
    events        \* history: what MaxEvents bounds

server == <<lists, unborn>>
store == <<workspaces, activeId, entitlements, loading, loaded, failed>>
calls == <<listings, asked>>
history == <<owner, leftBehind>>
vars == <<account, server, store, calls, saved, page, view, history, events>>

Id == Workspaces \cup {None}
Key == Id \X Queries
NoData == <<None, 0>>

Views == [resource : Resources \cup {None}, taken : Id, query : Queries,
          data : Key \cup {NoData}, loading : BOOLEAN, failed : BOOLEAN,
          fetches : SUBSET Key, saving : BOOLEAN, astray : SUBSET Targets]

\* No page is mounted.
Closed == [resource |-> None, taken |-> None, query |-> 1, data |-> NoData, loading |-> TRUE,
           failed |-> FALSE, fetches |-> {}, saving |-> FALSE, astray |-> {}]

TypeOK ==
    /\ account \in Accounts \cup {None}
    /\ lists \in [Accounts -> List]
    /\ unborn \subseteq Workspaces
    /\ workspaces \in List
    /\ {activeId, entitlements, saved} \subseteq Id
    /\ {loading, loaded, failed, leftBehind} \subseteq BOOLEAN
    /\ listings \subseteq [of : Accounts, list : List]
    /\ asked \subseteq Workspaces
    /\ page \in Pages \cup {None}
    /\ view \in Views
    /\ owner \in Accounts \cup {None}
    /\ events \in 0 .. MaxEvents

\* A fresh browser.
Init ==
    /\ account = None
    /\ lists \in FirstLists
    /\ unborn = Workspaces \ UNION {ToSet(lists[a]) : a \in Accounts}
    /\ workspaces = << >> /\ activeId = None /\ entitlements = None
    /\ loading = FALSE /\ loaded = FALSE /\ failed = FALSE
    /\ listings = {} /\ asked = {}
    /\ saved = None
    /\ page = None /\ view = Closed
    /\ owner = None /\ leftBehind = FALSE
    /\ events = 0

\* Bound.
Event == events < MaxEvents /\ events' = events + 1

FirstOf(list) == IF list = << >> THEN None ELSE Head(list)

-----------------------------------------------------------------------------
(* The gate, and what a page does when it is mounted *)

\* The role of the list, or that of the entitlements where the list does not
\* have the active workspace.
atLeast(minimum) ==
    \/ activeId \in ToSet(workspaces) /\ roleAtLeast(RoleIn[activeId], minimum)
    \/ /\ activeId \notin ToSet(workspaces)
       /\ entitlements # None /\ roleAtLeast(RoleIn[entitlements], minimum)

can(feature) == entitlements # None /\ feature \in FeaturesOf[entitlements]

WorkspaceGate(p) ==
    /\ loaded /\ ~loading /\ ~failed
    /\ activeId # None
    /\ Page[p].role # "viewer" => atLeast(Page[p].role)
    /\ Page[p].feature # None => can(Page[p].feature)

\* Is the content of the page mounted?
Open == /\ account # None /\ page # None
        /\ Page[page].gated => WorkspaceGate(page)

\* What a page takes as its workspace when it is rendered at first.
Taken(p, active, disk) ==
    CASE Page[p].from = "store" -> active
      [] Page[p].from \in {"saved", "savedNow"} -> disk
      [] OTHER -> None

\* The effect of a page of the account, and of one that has its workspace, calls
\* the server at once; the others wait for what Take does.
Mounted(p, resource, id) ==
    [Closed EXCEPT !.resource = resource, !.taken = id,
                   !.fetches = IF /\ resource # None
                                  /\ id # None \/ Page[p].from \in {"savedNow", "account"}
                               THEN {<<id, 1>>} ELSE {}]

\* Mutation: the call for the workspace or the query before is not cancelled.
RefetchedLate(v, id, query) ==
    [v EXCEPT !.query = query, !.loading = TRUE, !.failed = FALSE,
              !.fetches = @ \cup (IF v.resource # None THEN {<<id, query>>} ELSE {})]

\* The effect runs again.  That of useResource cancels what was under way; that
\* of a page of its own does not.
Refetched(v, id, query) ==
    [v EXCEPT !.query = query, !.loading = TRUE, !.failed = FALSE,
              !.fetches = (IF Page[page].hook THEN {} ELSE @)
                          \cup (IF v.resource # None THEN {<<id, query>>} ELSE {})]

ResourcesOf(p) == IF Page[p].resources = {} THEN {None} ELSE Page[p].resources

Mounting == \E resource \in ResourcesOf(page') :
                view' = Mounted(page', resource, Taken(page', activeId', saved'))

\* The last part of every action that changes the store: React unmounts the page
\* where the gate closed, mounts it where it opened, and runs the effects that
\* depend on the active workspace.
Rendered ==
    \/ ~Open' /\ view' = Closed
    \/ Open' /\ ~(Open /\ page' = page) /\ Mounting
    \/ /\ Open' /\ Open /\ page' = page
       /\ view' = IF Page[page].from = "store" /\ activeId' # activeId /\ activeId' # None
                  THEN Refetched(view, activeId', view.query)
                  ELSE view

-----------------------------------------------------------------------------
(* The store *)

\* Nothing to do while a list is under way, nor when there is one, whoever's.
load(who) ==
    IF loading \/ loaded
    THEN UNCHANGED <<loading, failed, listings>>
    ELSE /\ Cardinality(listings) < MaxCalls
         /\ loading' = TRUE /\ failed' = FALSE
         /\ listings' = listings \cup {[of |-> who, list |-> lists[who]]}

\* The button of the gate that shows an error.
Retry ==
    /\ account # None /\ page # None /\ Page[page].gated
    /\ loaded /\ ~loading /\ failed
    /\ Cardinality(listings) < MaxCalls
    /\ loading' = TRUE /\ failed' = FALSE
    /\ listings' = listings \cup {[of |-> account, list |-> lists[account]]}
    /\ UNCHANGED <<account, server, workspaces, activeId, entitlements, loaded, asked, saved,
                   page, history, events>>
    /\ Rendered

\* The id is read before the answer is waited for.
refreshEntitlements(id) ==
    asked' = IF id = None THEN asked ELSE asked \cup {id}

\* The list arrives: the active workspace stays where the list has it.
Loaded(ask) ==
    LET id == IF activeId \in ToSet(ask.list) THEN activeId ELSE FirstOf(ask.list) IN
    /\ ask \in listings
    /\ listings' = listings \ {ask}
    /\ workspaces' = ask.list
    /\ activeId' = id
    /\ loading' = FALSE /\ loaded' = TRUE
    /\ saved' = IF id = None THEN saved ELSE id
    /\ refreshEntitlements(id)
    /\ owner' = ask.of
    /\ UNCHANGED <<account, server, entitlements, failed, page, leftBehind, events>>
    /\ Rendered

\* It fails; where the tokens could not be renewed, whoever is signed in is
\* signed out (enterprise.ts), and the store stays as it is.
LoadFailed(ask) ==
    /\ Event
    /\ ask \in listings
    /\ listings' = listings \ {ask}
    /\ loading' = FALSE /\ loaded' = TRUE /\ failed' = TRUE
    /\ \/ UNCHANGED <<account, page, leftBehind>>
       \/ account # None /\ account' = None /\ page' = None /\ leftBehind' = TRUE
    /\ UNCHANGED <<server, workspaces, activeId, entitlements, asked, saved, owner>>
    /\ Rendered

\* The answer is stored, whichever workspace is active by now.
Entitled(id) ==
    /\ id \in asked
    /\ asked' = asked \ {id}
    /\ entitlements' \in {id, None}
    /\ UNCHANGED <<account, server, workspaces, activeId, loading, loaded, failed, listings,
                   saved, page, history, events>>
    /\ Rendered

\* The switcher of the sidebar.
setActive(id) ==
    /\ account # None /\ page # None
    /\ id \in ToSet(workspaces) /\ id # activeId
    /\ activeId' = id /\ entitlements' = None
    /\ saved' = id
    /\ refreshEntitlements(id)
    /\ UNCHANGED <<account, server, workspaces, loading, loaded, failed, listings, page, history, events>>
    /\ Rendered

-----------------------------------------------------------------------------
(* Signing in and out *)

\* The dashboard asks for the list when it sees somebody signed in.
SignIn(a) ==
    /\ account = None
    /\ account' = a
    /\ page' \in Pages
    /\ load(a)
    /\ UNCHANGED <<server, workspaces, activeId, entitlements, loaded, asked, saved, history, events>>
    /\ Rendered

\* Mutation: the store is not reset.
SignOutKeeping ==
    /\ Event
    /\ account # None /\ page # None
    /\ account' = None /\ page' = None
    /\ leftBehind' = (leftBehind \/ listings # {})
    /\ UNCHANGED <<server, store, calls, saved, owner>>
    /\ Rendered

\* handleLogout of the layout.  localStorage keeps the id that pages read, and
\* calls under way will be answered.
SignOut ==
    /\ Event
    /\ account # None /\ page # None
    /\ account' = None /\ page' = None
    /\ workspaces' = << >> /\ activeId' = None /\ entitlements' = None
    /\ loading' = FALSE /\ loaded' = FALSE /\ failed' = FALSE
    /\ owner' = None
    /\ leftBehind' = (leftBehind \/ listings # {})
    /\ UNCHANGED <<server, calls, saved>>
    /\ Rendered

\* A call of a page met 401 and the tokens could not be renewed.
SessionExpires ==
    /\ Event
    /\ account # None /\ page # None
    /\ account' = None /\ page' = None
    /\ leftBehind' = TRUE
    /\ UNCHANGED <<server, store, calls, saved, owner>>
    /\ Rendered

\* The scripts start anew, with what localStorage has; the layout asks for the
\* list where it is shown.
Reloaded(p) ==
    /\ workspaces' = << >> /\ entitlements' = None
    /\ loaded' = FALSE /\ failed' = FALSE /\ loading' = (p # None)
    /\ listings' = IF p = None THEN {} ELSE {[of |-> account, list |-> lists'[account]]}
    /\ asked' = {}
    /\ page' = p
    /\ owner' = None /\ leftBehind' = FALSE
    /\ UNCHANGED <<account, activeId>>
    /\ IF Open' THEN Mounting ELSE view' = Closed

Reload ==
    /\ Event
    /\ UNCHANGED <<server, saved>>
    /\ Reloaded(page)

-----------------------------------------------------------------------------
(* Pages *)

\* The layout, the gate and the page that creates codes ask for the list.
Visit(p) ==
    /\ account # None /\ p # page
    /\ page' = p
    /\ load(account)
    /\ UNCHANGED <<account, server, workspaces, activeId, entitlements, loaded, asked, saved,
                   history, events>>
    /\ Rendered

\* To a page outside the dashboard.
Leave ==
    /\ account # None /\ page # None
    /\ page' = None
    /\ UNCHANGED <<account, server, store, calls, saved, history, events>>
    /\ Rendered

\* A filter, a period or a page number.
Filter(query) ==
    /\ Open /\ view.resource = "filtered"
    /\ query # view.query
    /\ view' = Refetched(view, IF Page[page].from = "store" THEN activeId ELSE view.taken, query)
    /\ UNCHANGED <<account, server, store, calls, saved, page, history, events>>

\* The page takes its workspace: the first of the list it asked for, or what the
\* store or localStorage has by the time it is rendered again.
Take ==
    /\ Open
    /\ \E id \in Id :
        /\ CASE Page[page].from = "first" -> view.taken = None /\ id = FirstOf(lists[account])
             [] Page[page].from = "saved" -> view.taken = None /\ id = FirstOf(lists[account])
             [] Page[page].from = "savedNow" -> id = saved
             [] Page[page].from = "copied" ->
                    id = IF activeId = None THEN FirstOf(lists[account]) ELSE activeId
             [] OTHER -> FALSE
        /\ id # view.taken
        /\ saved' = IF Page[page].from = "saved" THEN id ELSE saved
        /\ view' = [Refetched(view, id, view.query) EXCEPT !.taken = id]
    /\ UNCHANGED <<account, server, store, calls, page, history, events>>

\* An answer that was not cancelled.
Fetched(key) ==
    /\ key \in view.fetches
    /\ \/ view' = [view EXCEPT !.data = key, !.loading = FALSE, !.fetches = @ \ {key}]
       \/ view' = [view EXCEPT !.failed = TRUE, !.loading = FALSE, !.fetches = @ \ {key}]
    /\ UNCHANGED <<account, server, store, calls, saved, page, history, events>>

Target(button) ==
    CASE button.to \in {"first", "taken"} -> view.taken
      [] button.to = "active" -> activeId
      [] button.to = "loaded" -> view.data[1]
      [] OTHER -> None

\* A button that is shown sends a call; astray are those sent to a workspace
\* other than the active one.
Press(button) ==
    /\ Open /\ button \in Page[page].buttons
    /\ Page[page].gated /\ button.role # "viewer" => atLeast(button.role)
    /\ button.feature # None => can(button.feature)
    /\ button.to \in {"taken", "active", "loaded"} => Target(button) # None
    /\ view' = [view EXCEPT !.saving = @ \/ button.after = "reload",
                            !.astray = IF Target(button) \in {None, activeId} THEN @
                                       ELSE @ \cup {button.to}]
    /\ UNCHANGED <<account, server, store, calls, saved, page, history, events>>

\* It succeeded, and the resource is loaded again; or it failed.
Saved ==
    /\ view.saving
    /\ \/ view' = [Refetched(view, activeId, view.query) EXCEPT !.saving = FALSE]
       \/ view' = [view EXCEPT !.saving = FALSE]
    /\ UNCHANGED <<account, server, store, calls, saved, page, history, events>>

\* Creating a code counts against the plan.
Created ==
    /\ Open /\ page = "create" /\ activeId # None
    /\ refreshEntitlements(activeId)
    /\ UNCHANGED <<account, server, store, listings, saved, page, view, history, events>>

-----------------------------------------------------------------------------
(* Workspaces come and go *)

\* The settings page: the page is loaded anew.
CreateWorkspace ==
    /\ Event
    /\ Open /\ page = "settings"
    /\ \E id \in unborn :
        /\ unborn' = unborn \ {id}
        /\ lists' = [lists EXCEPT ![account] = <<id>> \o @]
    /\ UNCHANGED saved
    /\ Reloaded("settings")

\* The list without a workspace, which it has at most once.
Without(list, id) ==
    IF id \in ToSet(list)
    THEN RemoveAt(list, CHOOSE i \in DOMAIN list : list[i] = id) ELSE list

\* The answer is not looked at: it may be a refusal.
DeleteWorkspace ==
    /\ Event
    /\ Open /\ page = "settings" /\ view.taken # None
    /\ lists' \in {lists, [a \in Accounts |-> Without(lists[a], view.taken)]}
    /\ saved' = None
    /\ UNCHANGED unborn
    /\ Reloaded("overview")

\* Mutation: a member accepts an invitation again.
AcceptInviteAgain ==
    /\ Event
    /\ account # None /\ page = None
    /\ \E id \in UNION {ToSet(lists[a]) : a \in Accounts} :
        /\ lists' = [lists EXCEPT ![account] = <<id>> \o @]
        /\ saved' = id
    /\ page' = "overview"
    /\ load(account)
    /\ UNCHANGED <<account, unborn, workspaces, activeId, entitlements, loaded, asked, history>>
    /\ Rendered

\* The page of an invitation makes the workspace active for pages that read
\* localStorage, and goes to the dashboard; the store is as it was.
AcceptInvite ==
    /\ Event
    /\ account # None /\ page = None
    /\ \E id \in (UNION {ToSet(lists[a]) : a \in Accounts}) \ ToSet(lists[account]) :
        /\ \E i \in 1 .. Len(lists[account]) + 1 :
            lists' = [lists EXCEPT ![account] = InsertAt(@, i, id)]
        /\ saved' = id
    /\ page' = "overview"
    /\ load(account)
    /\ UNCHANGED <<account, unborn, workspaces, activeId, entitlements, loaded, asked, history>>
    /\ Rendered

-----------------------------------------------------------------------------

Next ==
    \/ \E a \in Accounts : SignIn(a)
    \/ SignOut \/ SessionExpires \/ Reload \/ Retry
    \/ \E ask \in listings : Loaded(ask) \/ LoadFailed(ask)
    \/ \E id \in asked : Entitled(id)
    \/ \E id \in Workspaces : setActive(id)
    \/ \E p \in Pages : Visit(p)
    \/ Leave
    \/ \E query \in Queries : Filter(query)
    \/ Take
    \/ \E key \in view.fetches : Fetched(key)
    \/ page # None /\ \E button \in Page[page].buttons : Press(button)
    \/ Saved \/ Created
    \/ CreateWorkspace \/ DeleteWorkspace \/ AcceptInvite

Spec == Init /\ [][Next]_vars

-----------------------------------------------------------------------------
(* Properties *)

\* What a panel of useResource shows, once it has loaded and did not fail, is of
\* the active workspace and of the query picked last, in whichever order the
\* answers come (shell.tsx:35).
PanelsAreCurrent ==
    Open /\ Page[page].hook /\ view.resource # None /\ ~view.loading /\ ~view.failed
        => view.data = <<activeId, view.query>>

\* A call goes to a workspace other than the active one only from a page that
\* does not take it from the store, or by a useMutation of a page without a
\* feature at its gate: the others are unmounted by every change of the active
\* workspace, before their first closure is stale (workspace.ts:66, shell.tsx:76).
StraysAreKnown ==
    \A to \in view.astray :
        \/ Page[page].from \notin {"store", "account"}
        \/ leftBehind
        \/ to = "first" /\ Page[page].feature = None

\* Where somebody is signed in, the store has a list of that account, unless
\* another was signed out by an error or while the list was under way
\* (layout.tsx:109, enterprise.ts:129).
StoreIsOfAccount ==
    account # None /\ owner # None => owner = account \/ leftBehind
=============================================================================
