------------------------ MODULE WorkspacePagesProofs ------------------------
(***************************************************************************)
(* Proofs about WorkspacePages, for any number of workspaces and accounts, *)
(* every page of the table, and without the bounds on calls and events.    *)
(***************************************************************************)
EXTENDS WorkspacePages, SequenceTheorems, FiniteSetTheorems, TLAPS

\* What the proofs use of the table of pages.
LEMMA Table ==
    ASSUME NEW p \in DOMAIN Page
    PROVE  /\ p # None
           /\ Page[p].hook => Page[p].gated /\ Page[p].from = "store"
           /\ Page[p].feature # None => Page[p].gated /\ Page[p].from = "store"
           /\ Page[p].from \in {"store", "account"} =>
                \A button \in Page[p].buttons : button.to \notin {"taken", "loaded"}
<1> USE DEF None, Gated, Plain, Button
<1>1. CASE p \in {"overview", "qrCodes", "campaigns", "analytics"}
  BY <1>1 DEF Page, OverviewPage, QRCodesPage, QRCodesList, QRCodesSelection, QRCodesToggle,
       CampaignsPage, CampaignsForm, CampaignsDelete, AnalyticsPage, AnalyticsExport
<1>2. CASE p \in {"team", "webhooks", "auditLog"}
  BY <1>2 DEF Page, TeamPage, TeamLists, TeamMembers, TeamInvites, WebhooksPage, WebhooksForm,
       WebhooksList, AuditLogPage, AuditLogExport
<1>3. CASE p \in {"create", "reports", "integrations", "leads", "settings"}
  BY <1>3 DEF Page, CreateQRPage, CreateFolders, CreateSubmit, ReportsPage, IntegrationsPage,
       IntegrationCard, LeadCapturePage, LeadsLists, LeadsPages, SettingsPage
<1>4. CASE p \in {"branding", "bulk", "edit", "code"}
  BY <1>4 DEF Page, BrandingPage, BrandingLoad, BrandingForms, BulkPage, BulkUpload,
       EditQRPage, EditRecord, EditSave, QRCodePage, CodeRecord, CodeSave
<1>5. CASE p \in {"history", "summary", "profile", "apiKeys"}
  BY <1>5 DEF Page, HistoryPage, SummaryPage, ProfilePage, ProfileForms, APIKeyPage
<1> QED
  BY <1>1, <1>2, <1>3, <1>4, <1>5 DEF Page

-----------------------------------------------------------------------------
(* The store *)

PageKnown == page \in Pages \cup {None} /\ (page # None => account # None)

\* The list the store has, and those it will get, are of whoever is signed in.
Kinship ==
    /\ owner # None => leftBehind \/ (account # None /\ owner = account)
    /\ \A ask \in listings : leftBehind \/ (account # None /\ ask.of = account)

\* One list at a time is asked for, and the store says so.
OneListing ==
    ~leftBehind => /\ listings # {} => loading
                   /\ \A x, y \in listings : x = y

StoreInv == PageKnown /\ Kinship /\ OneListing

LEMMA InitStore == Init => StoreInv
BY DEF Init, StoreInv, PageKnown, Kinship, OneListing

\* load adds a list of whom it is called for.
LEMMA LoadKeeps ==
    ASSUME StoreInv, NEW who, who # None, load(who),
           UNCHANGED <<owner, leftBehind>>, account' = who, account \in {None, who}
    PROVE  Kinship' /\ OneListing'
BY DEF load, StoreInv, Kinship, OneListing

\* A page that is loaded anew starts with an empty store.
LEMMA ReloadedStore ==
    ASSUME NEW p \in Pages \cup {None}, p # None => account # None, Reloaded(p)
    PROVE  StoreInv'
<1>1. /\ account' = account /\ page' = p /\ owner' = None /\ leftBehind' = FALSE
      /\ loading' = (p # None)
  BY DEF Reloaded
<1>2. p = None => listings' = {}
  BY DEF Reloaded
<1>3. p # None => \E list : listings' = {[of |-> account, list |-> list]}
  BY DEF Reloaded
<1>4. PageKnown'
  BY <1>1 DEF PageKnown
<1>5. Kinship'
  BY <1>1, <1>2, <1>3 DEF Kinship
<1>6. OneListing'
  BY <1>1, <1>2, <1>3 DEF OneListing
<1> QED
  BY <1>4, <1>5, <1>6 DEF StoreInv

LEMMA NextStore == StoreInv /\ [Next]_vars => StoreInv'
<1> SUFFICES ASSUME StoreInv, [Next]_vars PROVE StoreInv'
  OBVIOUS
<1>a. "overview" \in Pages /\ None \notin Accounts
  BY WorkspacePagesAssumption
<1>1. ASSUME NEW a \in Accounts, SignIn(a) PROVE StoreInv'
  <2>1. Kinship' /\ OneListing'
    BY <1>1, <1>a, LoadKeeps DEF SignIn, history
  <2> QED
    BY <1>1, <1>a, <2>1 DEF SignIn, StoreInv, PageKnown
<1>2. CASE SignOut
  BY <1>2 DEF SignOut, calls, StoreInv, PageKnown, Kinship, OneListing
<1>3. CASE SessionExpires
  BY <1>3 DEF SessionExpires, calls, StoreInv, PageKnown, Kinship, OneListing
<1>4. CASE Reload
  BY <1>4, ReloadedStore DEF Reload, StoreInv, PageKnown
<1>5. CASE Retry
  BY <1>5 DEF Retry, history, StoreInv, PageKnown, Kinship, OneListing
<1>6. ASSUME NEW ask \in listings, Loaded(ask) PROVE StoreInv'
  BY <1>6 DEF Loaded, StoreInv, PageKnown, Kinship, OneListing
<1>7. ASSUME NEW ask \in listings, LoadFailed(ask) PROVE StoreInv'
  BY <1>7 DEF LoadFailed, StoreInv, PageKnown, Kinship, OneListing
<1>8. ASSUME NEW p \in Pages, Visit(p) PROVE StoreInv'
  <2>1. Kinship' /\ OneListing'
    BY <1>8, LoadKeeps DEF Visit, history
  <2> QED
    BY <1>8, <2>1 DEF Visit, StoreInv, PageKnown
<1>9. CASE AcceptInvite
  <2>1. Kinship' /\ OneListing'
    BY <1>9, LoadKeeps DEF AcceptInvite, history
  <2> QED
    BY <1>9, <1>a, <2>1 DEF AcceptInvite, StoreInv, PageKnown
<1>10. CASE CreateWorkspace
  BY <1>10, ReloadedStore DEF CreateWorkspace, Open, StoreInv, PageKnown
<1>11. CASE DeleteWorkspace
  BY <1>11, <1>a, ReloadedStore DEF DeleteWorkspace, Open, StoreInv, PageKnown
<1>12. CASE Leave
  BY <1>12 DEF Leave, store, calls, history, StoreInv, PageKnown, Kinship, OneListing
<1>13. ASSUME UNCHANGED <<account, page, loading, listings, history>> PROVE StoreInv'
  BY <1>13 DEF history, StoreInv, PageKnown, Kinship, OneListing
<1>14. ASSUME \/ \E id \in asked : Entitled(id)
              \/ \E id \in Workspaces : setActive(id)
              \/ \E query \in Queries : Filter(query)
              \/ Take
              \/ \E key \in view.fetches : Fetched(key)
              \/ page # None /\ \E button \in Page[page].buttons : Press(button)
              \/ Saved \/ Created \/ UNCHANGED vars
       PROVE  StoreInv'
  BY <1>13, <1>14 DEF Entitled, setActive, Filter, Take, Fetched, Press, Saved, Created, vars,
       store, calls
<1> QED
  BY <1>1, <1>2, <1>3, <1>4, <1>5, <1>6, <1>7, <1>8, <1>9, <1>10, <1>11, <1>12, <1>14 DEF Next

\* The list in the store is of whoever is signed in, unless an earlier account
\* left without a reset of the store, or with a list under way (layout.tsx).
THEOREM StoreFollowsAccount == Spec => []StoreIsOfAccount
<1>1. StoreInv => StoreIsOfAccount
  BY DEF StoreInv, Kinship, StoreIsOfAccount
<1> QED
  BY InitStore, NextStore, <1>1, PTL DEF Spec

-----------------------------------------------------------------------------
(* The page *)

\* It is a record of the fields it was mounted with, and that of no page where
\* none is mounted.
Shape == DOMAIN view = DOMAIN Closed /\ (~Open => view = Closed)

Wanted == <<activeId, view.query>>

\* A panel of useResource waits for nothing but what is wanted now, so that it can
\* get nothing else.
PanelWaits ==
    Open /\ Page[page].hook /\ view.resource # None =>
        /\ view.fetches \subseteq {Wanted}
        /\ ~view.loading /\ ~view.failed => view.data = Wanted

\* A page with a feature at its gate has the active workspace since it was mounted.
GateRemounts ==
    Open /\ Page[page].feature # None /\ ~leftBehind => view.taken = activeId

ViewInv == Shape /\ PanelWaits /\ GateRemounts /\ StraysAreKnown

IInv == StoreInv /\ ViewInv

LEMMA InitView == Init => ViewInv
BY DEF Init, ViewInv, Shape, PanelWaits, GateRemounts, StraysAreKnown, Open, Closed

\* A page that is mounted has the active workspace, and asks for its first query.
LEMMA MountingKeeps ==
    ASSUME PageKnown', Open', Mounting
    PROVE  ViewInv'
<1>1. page' \in Pages /\ page' # None /\ page' \in DOMAIN Page
  BY WorkspacePagesAssumption DEF Open, PageKnown
<1>2. PICK resource : view' = Mounted(page', resource, Taken(page', activeId', saved'))
  BY DEF Mounting
<1>3. DOMAIN view' = DOMAIN Closed /\ view'.query = 1 /\ view'.loading /\ view'.astray = {}
      /\ view'.taken = Taken(page', activeId', saved') /\ view'.resource = resource
      /\ view'.fetches = IF /\ resource # None
                            /\ \/ Taken(page', activeId', saved') # None
                               \/ Page[page'].from \in {"savedNow", "account"}
                         THEN {<<Taken(page', activeId', saved'), 1>>} ELSE {}
  BY <1>2 DEF Mounted, Closed
<1>4. Page[page'].from = "store" => Taken(page', activeId', saved') = activeId'
  BY DEF Taken
<1>5. Shape'
  BY <1>3 DEF Shape, Closed
<1>6. PanelWaits'
  BY <1>1, <1>3, <1>4, Table DEF PanelWaits, Wanted
<1>7. GateRemounts'
  BY <1>1, <1>3, <1>4, Table DEF GateRemounts
<1>8. StraysAreKnown'
  BY <1>3 DEF StraysAreKnown
<1> QED
  BY <1>5, <1>6, <1>7, <1>8 DEF ViewInv

\* What is wanted is asked for again, and what was asked before is dropped by a
\* page of useResource.
LEMMA RefetchedKeeps ==
    ASSUME ViewInv, NEW id, NEW query, Open, Open', page' = page,
           view' = Refetched(view, id, query),
           Page[page].hook => id = activeId',
           Page[page].feature # None /\ ~leftBehind' => activeId' = activeId,
           leftBehind => leftBehind'
    PROVE  ViewInv'
<1>1. /\ DOMAIN view' = DOMAIN Closed
      /\ view'.query = query /\ view'.loading
      /\ view'.resource = view.resource /\ view'.taken = view.taken /\ view'.astray = view.astray
      /\ Page[page].hook /\ view.resource # None => view'.fetches = {<<id, query>>}
  BY DEF Refetched, ViewInv, Shape, Closed
<1>2. Shape'
  BY <1>1 DEF Shape, Closed
<1>3. PanelWaits'
  BY <1>1 DEF PanelWaits, Wanted
<1>4. GateRemounts'
  BY <1>1 DEF ViewInv, GateRemounts
<1>5. StraysAreKnown'
  BY <1>1 DEF ViewInv, StraysAreKnown
<1> QED
  BY <1>2, <1>3, <1>4, <1>5 DEF ViewInv

\* The active workspace of a page with a feature at its gate changes only where
\* the gate closes or was closed.
LEMMA RenderedKeeps ==
    ASSUME PageKnown', ViewInv, Rendered, leftBehind => leftBehind',
           Open /\ Open' /\ page' = page /\ Page[page].feature # None /\ ~leftBehind'
               => activeId' = activeId
    PROVE  ViewInv'
<1>1. CASE ~Open' /\ view' = Closed
  BY <1>1 DEF ViewInv, Shape, PanelWaits, GateRemounts, StraysAreKnown, Closed
<1>2. CASE Open' /\ Mounting
  BY <1>2, MountingKeeps
<1>3. ASSUME Open', Open, page' = page,
             Page[page].from = "store" /\ activeId' # activeId /\ activeId' # None,
             view' = Refetched(view, activeId', view.query)
      PROVE  ViewInv'
  BY <1>3, RefetchedKeeps
<1>4. ASSUME Open', Open, page' = page, view' = view,
             ~(Page[page].from = "store" /\ activeId' # activeId /\ activeId' # None)
      PROVE  ViewInv'
  <2>1. page \in DOMAIN Page
    BY <1>4, WorkspacePagesAssumption DEF Open, PageKnown
  <2>2. Page[page].hook => activeId' = activeId
    <3>1. Page[page].gated => activeId' # None
      BY <1>4 DEF Open, WorkspaceGate
    <3> QED
      BY <1>4, <2>1, <3>1, Table
  <2>3. Shape'
    BY <1>4 DEF ViewInv, Shape, Closed
  <2>4. PanelWaits'
    BY <1>4, <2>2 DEF ViewInv, PanelWaits, Wanted
  <2>5. GateRemounts'
    BY <1>4 DEF ViewInv, GateRemounts
  <2>6. StraysAreKnown'
    BY <1>4 DEF ViewInv, StraysAreKnown
  <2> QED
    BY <2>3, <2>4, <2>5, <2>6 DEF ViewInv
<1> QED
  BY <1>1, <1>2, <1>3, <1>4 DEF Rendered

LEMMA ReloadedView ==
    ASSUME NEW p, PageKnown', Reloaded(p)
    PROVE  ViewInv'
<1>1. CASE Open'
  BY <1>1, MountingKeeps DEF Reloaded
<1>2. CASE ~Open'
  BY <1>2 DEF Reloaded, ViewInv, Shape, PanelWaits, GateRemounts, StraysAreKnown, Closed
<1> QED
  BY <1>1, <1>2

-----------------------------------------------------------------------------
(* What happens on a page that stays *)

Stays == UNCHANGED <<account, page, store, leftBehind>>

LEMMA StaysOpen == Stays => (Open' <=> Open)
BY DEF Stays, store, Open, WorkspaceGate, atLeast, can

LEMMA FilterKeeps ==
    ASSUME IInv, NEW query \in Queries, Filter(query)
    PROVE  ViewInv'
<1>1. Stays /\ Open
  BY DEF Filter, Stays, history
<1>2. Open' /\ page' = page /\ activeId' = activeId /\ leftBehind' = leftBehind
  BY <1>1, StaysOpen DEF Stays, store
<1>3. page \in DOMAIN Page
  BY <1>1, WorkspacePagesAssumption DEF Open, IInv, StoreInv, PageKnown
<1>4. Page[page].hook => Page[page].from = "store"
  BY <1>3, Table
<1> QED
  BY <1>1, <1>2, <1>4, RefetchedKeeps DEF Filter, IInv

\* Only pages that call fetch themselves take their workspace.
LEMMA TakeKeeps ==
    ASSUME IInv, Take
    PROVE  ViewInv'
<1>1. Stays /\ Open
  BY DEF Take, Stays, history
<1>2. Open' /\ page' = page /\ activeId' = activeId /\ leftBehind' = leftBehind
  BY <1>1, StaysOpen DEF Stays, store
<1>3. page \in DOMAIN Page
  BY <1>1, WorkspacePagesAssumption DEF Open, IInv, StoreInv, PageKnown
<1>4. Page[page].from # "store"
  BY DEF Take
<1>5. ~Page[page].hook /\ Page[page].feature = None
  BY <1>3, <1>4, Table
<1>6. DOMAIN view' = DOMAIN Closed /\ view'.astray = view.astray
  BY DEF Take, Refetched, IInv, ViewInv, Shape, Closed
<1>7. Shape' /\ PanelWaits' /\ GateRemounts'
  BY <1>2, <1>5, <1>6 DEF Shape, PanelWaits, GateRemounts
<1>8. StraysAreKnown'
  BY <1>2, <1>6 DEF IInv, ViewInv, StraysAreKnown
<1> QED
  BY <1>7, <1>8 DEF ViewInv

\* An answer that a panel still waits for is the one it wants.
LEMMA FetchedKeeps ==
    ASSUME IInv, NEW key \in view.fetches, Fetched(key)
    PROVE  ViewInv'
<1>1. Stays
  BY DEF Fetched, Stays, history
<1>2. (Open' <=> Open) /\ page' = page /\ activeId' = activeId /\ leftBehind' = leftBehind
  BY <1>1, StaysOpen DEF Stays, store
<1>3. Open
  BY DEF IInv, ViewInv, Shape, Closed
<1>4. /\ DOMAIN view' = DOMAIN Closed
      /\ view'.query = view.query /\ view'.resource = view.resource
      /\ view'.taken = view.taken /\ view'.astray = view.astray
      /\ view'.fetches = view.fetches \ {key}
      /\ view'.data = key \/ view'.failed
  BY DEF Fetched, IInv, ViewInv, Shape, Closed
<1>5. Shape'
  BY <1>2, <1>3, <1>4 DEF Shape, Closed
<1>6. PanelWaits'
  BY <1>2, <1>3, <1>4 DEF IInv, ViewInv, PanelWaits, Wanted
<1>7. GateRemounts'
  BY <1>2, <1>4 DEF IInv, ViewInv, GateRemounts
<1>8. StraysAreKnown'
  BY <1>2, <1>4 DEF IInv, ViewInv, StraysAreKnown
<1> QED
  BY <1>5, <1>6, <1>7, <1>8 DEF ViewInv

\* A button that sends elsewhere is one of a page that does not take its workspace
\* from the store, or of a useMutation on a page without a feature at its gate.
LEMMA PressKeeps ==
    ASSUME IInv, page # None, NEW button \in Page[page].buttons, Press(button)
    PROVE  ViewInv'
<1>1. Stays /\ Open
  BY DEF Press, Stays, history
<1>2. Open' /\ page' = page /\ activeId' = activeId /\ leftBehind' = leftBehind
  BY <1>1, StaysOpen DEF Stays, store
<1>3. page \in DOMAIN Page
  BY <1>1, WorkspacePagesAssumption DEF Open, IInv, StoreInv, PageKnown
<1>4. /\ DOMAIN view' = DOMAIN Closed
      /\ view'.query = view.query /\ view'.resource = view.resource
      /\ view'.taken = view.taken /\ view'.fetches = view.fetches /\ view'.data = view.data
      /\ view'.loading = view.loading /\ view'.failed = view.failed
      /\ view'.astray = IF Target(button) \in {None, activeId} THEN view.astray
                        ELSE view.astray \cup {button.to}
  BY DEF Press, IInv, ViewInv, Shape, Closed
<1>5. Shape' /\ PanelWaits' /\ GateRemounts'
  BY <1>1, <1>2, <1>4 DEF IInv, ViewInv, Shape, PanelWaits, GateRemounts, Wanted, Closed
<1>6. ASSUME Target(button) \notin {None, activeId}, Page[page].from \in {"store", "account"},
             ~leftBehind
      PROVE  button.to = "first" /\ Page[page].feature = None
  <2>1. button.to \notin {"taken", "loaded"}
    BY <1>3, <1>6, Table
  <2>2. button.to = "first" /\ Target(button) = view.taken
    BY <1>6, <2>1 DEF Target
  <2>3. view.taken # activeId
    BY <1>6, <2>2
  <2> QED
    BY <1>1, <1>6, <2>2, <2>3 DEF IInv, ViewInv, GateRemounts
<1>7. StraysAreKnown'
  BY <1>2, <1>4, <1>6 DEF IInv, ViewInv, StraysAreKnown
<1> QED
  BY <1>5, <1>7 DEF ViewInv

LEMMA SavedKeeps ==
    ASSUME IInv, Saved
    PROVE  ViewInv'
<1>1. Stays
  BY DEF Saved, Stays, history
<1>2. (Open' <=> Open) /\ page' = page /\ activeId' = activeId /\ leftBehind' = leftBehind
  BY <1>1, StaysOpen DEF Stays, store
<1>3. Open
  BY DEF Saved, IInv, ViewInv, Shape, Closed
<1>4. /\ DOMAIN view' = DOMAIN Closed
      /\ view'.query = view.query /\ view'.resource = view.resource
      /\ view'.taken = view.taken /\ view'.astray = view.astray
      /\ \/ /\ view'.loading
            /\ Page[page].hook /\ view.resource # None => view'.fetches = {Wanted}
         \/ /\ view'.fetches = view.fetches /\ view'.data = view.data
            /\ view'.loading = view.loading /\ view'.failed = view.failed
  BY DEF Saved, Refetched, Wanted, IInv, ViewInv, Shape, Closed
<1>5. Shape' /\ GateRemounts'
  BY <1>2, <1>3, <1>4 DEF IInv, ViewInv, Shape, GateRemounts, Closed
<1>6. PanelWaits'
  BY <1>2, <1>3, <1>4 DEF IInv, ViewInv, PanelWaits, Wanted
<1>7. StraysAreKnown'
  BY <1>2, <1>4 DEF IInv, ViewInv, StraysAreKnown
<1> QED
  BY <1>5, <1>6, <1>7 DEF ViewInv

\* A step that leaves the page, and what decides whether it is shown, alone.
LEMMA StillKeeps ==
    ASSUME ViewInv, Stays, view' = view
    PROVE  ViewInv'
<1>1. (Open' <=> Open) /\ page' = page /\ activeId' = activeId /\ leftBehind' = leftBehind
  BY StaysOpen DEF Stays, store
<1> QED
  BY <1>1 DEF ViewInv, Shape, PanelWaits, GateRemounts, StraysAreKnown, Wanted, Closed

-----------------------------------------------------------------------------

LEMMA NextView == IInv /\ [Next]_vars => ViewInv'
<1> SUFFICES ASSUME IInv, [Next]_vars PROVE ViewInv'
  OBVIOUS
<1>p. StoreInv /\ ViewInv /\ PageKnown' /\ "overview" \in Pages
  BY NextStore, WorkspacePagesAssumption DEF IInv, StoreInv
<1>1. ASSUME NEW a \in Accounts, SignIn(a) PROVE ViewInv'
  BY <1>1, <1>p, RenderedKeeps DEF SignIn, history
<1>2. CASE SignOut
  BY <1>2, <1>p, RenderedKeeps DEF SignOut, Open
<1>3. CASE SessionExpires
  BY <1>3, <1>p, RenderedKeeps DEF SessionExpires, Open
<1>4. CASE Reload
  BY <1>4, <1>p, ReloadedView DEF Reload
<1>5. CASE Retry
  BY <1>5, <1>p, RenderedKeeps DEF Retry, history
<1>6. ASSUME NEW ask \in listings, Loaded(ask) PROVE ViewInv'
  \* A list is on its way, so the gate was closed.
  <2>1. ~leftBehind' => loading
    BY <1>6, <1>p DEF Loaded, StoreInv, OneListing
  <2>2. Open /\ Page[page].feature # None => ~loading
    <3>1. ASSUME Open, Page[page].feature # None PROVE Page[page].gated
      BY <3>1, <1>p, Table, WorkspacePagesAssumption DEF Open, StoreInv, PageKnown
    <3> QED
      BY <3>1 DEF Open, WorkspaceGate
  <2>3. Rendered /\ leftBehind' = leftBehind
    BY <1>6 DEF Loaded
  <2> QED
    BY <1>p, <2>1, <2>2, <2>3, RenderedKeeps
<1>7. ASSUME NEW ask \in listings, LoadFailed(ask) PROVE ViewInv'
  BY <1>7, <1>p, RenderedKeeps DEF LoadFailed
<1>8. ASSUME NEW id \in asked, Entitled(id) PROVE ViewInv'
  BY <1>8, <1>p, RenderedKeeps DEF Entitled, history
<1>9. ASSUME NEW id \in Workspaces, setActive(id) PROVE ViewInv'
  \* There are no entitlements now, so the gate of a feature is closed.
  <2>1. Rendered /\ leftBehind' = leftBehind /\ page' = page /\ entitlements' = None
    BY <1>9 DEF setActive, history
  <2>2. Open' /\ Page[page'].feature # None => FALSE
    <3>1. ASSUME Open', Page[page'].feature # None PROVE Page[page'].gated
      BY <3>1, <1>p, Table, WorkspacePagesAssumption DEF Open, PageKnown
    <3> QED
      BY <2>1, <3>1 DEF Open, WorkspaceGate, can
  <2> QED
    BY <1>p, <2>1, <2>2, RenderedKeeps
<1>10. ASSUME NEW p \in Pages, Visit(p) PROVE ViewInv'
  BY <1>10, <1>p, RenderedKeeps DEF Visit, history
<1>11. CASE Leave
  BY <1>11, <1>p, RenderedKeeps DEF Leave, history, store
<1>12. ASSUME NEW query \in Queries, Filter(query) PROVE ViewInv'
  BY <1>12, FilterKeeps
<1>13. CASE Take
  BY <1>13, TakeKeeps
<1>14. ASSUME NEW key \in view.fetches, Fetched(key) PROVE ViewInv'
  BY <1>14, FetchedKeeps
<1>15. ASSUME page # None, NEW button \in Page[page].buttons, Press(button) PROVE ViewInv'
  BY <1>15, PressKeeps
<1>16. CASE Saved
  BY <1>16, SavedKeeps
<1>17. CASE Created
  BY <1>17, <1>p, StillKeeps DEF Created, Stays, history
<1>18. CASE CreateWorkspace
  BY <1>18, <1>p, ReloadedView DEF CreateWorkspace
<1>19. CASE DeleteWorkspace
  BY <1>19, <1>p, ReloadedView DEF DeleteWorkspace
<1>20. CASE AcceptInvite
  BY <1>20, <1>p, RenderedKeeps DEF AcceptInvite, history, Open
<1>21. CASE UNCHANGED vars
  BY <1>21, <1>p, StillKeeps DEF vars, Stays, history
<1> QED
  BY <1>1, <1>2, <1>3, <1>4, <1>5, <1>6, <1>7, <1>8, <1>9, <1>10, <1>11, <1>12, <1>13, <1>14,
     <1>15, <1>16, <1>17, <1>18, <1>19, <1>20, <1>21 DEF Next

LEMMA Invariance == Spec => []IInv
<1>1. Init => IInv
  BY InitStore, InitView DEF IInv
<1>2. IInv /\ [Next]_vars => IInv'
  BY NextStore, NextView DEF IInv
<1> QED
  BY <1>1, <1>2, PTL DEF Spec

\* A panel shows what the active workspace has for what was picked last, in
\* whichever order answers arrive (useResource of shell.tsx).
THEOREM PanelsFollow == Spec => []PanelsAreCurrent
<1>1. IInv => PanelsAreCurrent
  BY DEF IInv, ViewInv, PanelWaits, Wanted, PanelsAreCurrent
<1> QED
  BY Invariance, <1>1, PTL

\* The pages that can send a call to a workspace other than the active one are
\* those that StraysAreKnown names: a feature at the gate shuts a page before the
\* first closure of useMutation is stale (shell.tsx).
THEOREM NoOtherStrays == Spec => []StraysAreKnown
<1>1. IInv => StraysAreKnown
  BY DEF IInv, ViewInv
<1> QED
  BY Invariance, <1>1, PTL

-----------------------------------------------------------------------------
(* Lists, and types *)

\* A list is a sequence without repetitions: its length is no bound of its own.
LEMMA ListDef ==
    \A s : s \in List <=> s \in Seq(Workspaces) /\ IsInjective(s)
<1>1. ASSUME NEW s \in List PROVE s \in Seq(Workspaces) /\ IsInjective(s)
  <2>1. PICK n \in 0 .. Cardinality(Workspaces) : s \in [1 .. n -> Workspaces]
    BY DEF List
  <2>2. Cardinality(Workspaces) \in Nat
    BY WorkspacePagesAssumption, FS_CardinalityType
  <2>3. n \in Nat
    BY <2>2
  <2> QED
    BY <2>1, <2>3, SeqDef DEF List
<1>2. ASSUME NEW s \in Seq(Workspaces), IsInjective(s) PROVE s \in List
  <2>1. Len(s) \in Nat /\ s \in [1 .. Len(s) -> Workspaces]
    BY LenProperties
  <2>2. s \in Injection(1 .. Len(s), Workspaces)
    BY <1>2, <2>1 DEF Injection, IsInjective
  <2>3. Cardinality(1 .. Len(s)) <= Cardinality(Workspaces)
    BY <2>2, WorkspacePagesAssumption, FS_Injection
  <2>4. Cardinality(1 .. Len(s)) = Len(s)
    BY <2>1, FS_Interval
  <2>5. Len(s) \in 0 .. Cardinality(Workspaces)
    BY <2>1, <2>3, <2>4, WorkspacePagesAssumption, FS_CardinalityType
  <2> QED
    BY <1>2, <2>1, <2>5 DEF List
<1> QED
  BY <1>1, <1>2

LEMMA EmptyList == << >> \in List
<1>1. << >> \in Seq(Workspaces) /\ DOMAIN << >> = {}
  OBVIOUS
<1> QED
  BY <1>1, ListDef DEF IsInjective

\* A workspace that the list does not have may be put anywhere into it.
LEMMA InsertedList ==
    ASSUME NEW s \in List, NEW i \in 1 .. Len(s) + 1, NEW id \in Workspaces,
           id \notin ToSet(s)
    PROVE  InsertAt(s, i, id) \in List /\ ToSet(InsertAt(s, i, id)) \subseteq ToSet(s) \cup {id}
<1> DEFINE t == InsertAt(s, i, id)
           before == SubSeq(s, 1, i - 1)
           after == SubSeq(s, i, Len(s))
<1>1. s \in Seq(Workspaces) /\ IsInjective(s) /\ Len(s) \in Nat /\ DOMAIN s = 1 .. Len(s)
  BY ListDef, LenProperties
<1>2. \A j \in 1 .. Len(s) : s[j] \in Workspaces /\ s[j] # id
  BY <1>1, ElementOfSeq DEF ToSet
<1>3. /\ before \in Seq(Workspaces) /\ Len(before) = i - 1
      /\ \A j \in 1 .. i - 1 : before[j] = s[j]
  <2>1. \A j \in 1 .. i - 1 : s[j] \in Workspaces
    BY <1>1, <1>2
  <2>2. /\ before \in Seq(Workspaces)
        /\ Len(before) = IF 1 <= i - 1 THEN i - 1 - 1 + 1 ELSE 0
        /\ \A j \in 1 .. i - 1 - 1 + 1 : before[j] = s[1 + j - 1]
    BY <2>1, SubSeqProperties
  <2> QED
    BY <1>1, <2>2
<1>4. /\ after \in Seq(Workspaces) /\ Len(after) = Len(s) - i + 1
      /\ \A j \in 1 .. Len(s) - i + 1 : after[j] = s[i + j - 1]
  <2>1. \A j \in i .. Len(s) : s[j] \in Workspaces
    BY <1>1, <1>2
  <2>2. /\ after \in Seq(Workspaces)
        /\ Len(after) = IF i <= Len(s) THEN Len(s) - i + 1 ELSE 0
        /\ \A j \in 1 .. Len(s) - i + 1 : after[j] = s[i + j - 1]
    BY <1>1, <2>1, SubSeqProperties
  <2> QED
    BY <1>1, <2>2
<1>5. <<id>> \in Seq(Workspaces) /\ Len(<<id>>) = 1 /\ <<id>>[1] = id
  OBVIOUS
<1>6. /\ before \o <<id>> \in Seq(Workspaces) /\ Len(before \o <<id>>) = i
      /\ \A j \in 1 .. i : (before \o <<id>>)[j] = IF j < i THEN s[j] ELSE id
  <2>1. /\ before \o <<id>> \in Seq(Workspaces)
        /\ Len(before \o <<id>>) = Len(before) + 1
        /\ \A j \in 1 .. Len(before) + 1 :
             (before \o <<id>>)[j] = IF j <= Len(before) THEN before[j] ELSE <<id>>[j - Len(before)]
    BY <1>3, <1>5, ConcatProperties
  <2> QED
    BY <1>1, <1>3, <1>5, <2>1
<1>7. /\ t \in Seq(Workspaces) /\ Len(t) = Len(s) + 1
      /\ \A j \in 1 .. Len(s) + 1 :
           t[j] = IF j < i THEN s[j] ELSE IF j = i THEN id ELSE s[j - 1]
  <2>0. t = (before \o <<id>>) \o after
    BY DEF InsertAt
  <2>1. /\ t \in Seq(Workspaces)
        /\ Len(t) = i + Len(after)
        /\ \A j \in 1 .. i + Len(after) :
             t[j] = IF j <= i THEN (before \o <<id>>)[j] ELSE after[j - i]
    BY <1>4, <1>6, <2>0, ConcatProperties
  <2>2. \A j \in 1 .. Len(s) + 1 : j > i => after[j - i] = s[j - 1]
    BY <1>1, <1>4
  <2> QED
    BY <1>1, <1>4, <1>6, <2>1, <2>2
<1> HIDE DEF t
<1>8. DOMAIN t = 1 .. Len(s) + 1
  BY <1>7, LenProperties
<1>9. IsInjective(t)
  <2> SUFFICES ASSUME NEW j \in 1 .. Len(s) + 1, NEW k \in 1 .. Len(s) + 1, t[j] = t[k], j < k
               PROVE  FALSE
    BY <1>1, <1>8 DEF IsInjective
  <2>1. CASE k < i
    BY <1>1, <1>7, <2>1 DEF IsInjective
  <2>2. CASE k = i
    BY <1>1, <1>2, <1>7, <2>2
  <2>3. CASE k > i /\ j = i
    BY <1>1, <1>2, <1>7, <2>3
  <2>4. CASE k > i /\ j < i
    <3>1. t[k] = s[k - 1] /\ t[j] = s[j] /\ k - 1 \in 1 .. Len(s) /\ j \in 1 .. Len(s) /\ k - 1 # j
      BY <1>1, <1>7, <2>4
    <3> QED
      BY <1>1, <3>1 DEF IsInjective
  <2>5. CASE k > i /\ j > i
    <3>1. t[k] = s[k - 1] /\ t[j] = s[j - 1] /\ k - 1 \in 1 .. Len(s) /\ j - 1 \in 1 .. Len(s)
          /\ k - 1 # j - 1
      BY <1>1, <1>7, <2>5
    <3> QED
      BY <1>1, <3>1 DEF IsInjective
  <2> QED
    BY <1>1, <2>1, <2>2, <2>3, <2>4, <2>5
<1>10. ToSet(t) \subseteq ToSet(s) \cup {id}
  <2> SUFFICES ASSUME NEW j \in 1 .. Len(s) + 1 PROVE t[j] \in ToSet(s) \cup {id}
    BY <1>8 DEF ToSet
  <2>1. \A k \in 1 .. Len(s) : s[k] \in ToSet(s)
    BY <1>1 DEF ToSet
  <2>2. j < i => j \in 1 .. Len(s)
    BY <1>1
  <2>3. j > i => j - 1 \in 1 .. Len(s)
    BY <1>1
  <2>4. CASE j < i
    BY <1>7, <2>1, <2>2, <2>4
  <2>5. CASE j = i
    BY <1>7, <2>5
  <2>6. CASE j > i
    BY <1>7, <2>1, <2>3, <2>6
  <2> QED
    BY <1>1, <2>4, <2>5, <2>6
<1> QED
  BY <1>7, <1>9, <1>10, ListDef DEF t

\* So it may be put before all others.
LEMMA PrependedList ==
    ASSUME NEW s \in List, NEW id \in Workspaces, id \notin ToSet(s)
    PROVE  <<id>> \o s \in List /\ ToSet(<<id>> \o s) \subseteq ToSet(s) \cup {id}
<1>1. s \in Seq(Workspaces) /\ Len(s) \in Nat
  BY ListDef, LenProperties
<1>2. SubSeq(s, 1, 0) = << >> /\ SubSeq(s, 1, Len(s)) = s
  BY <1>1, SubSeqEmpty, SubSeqFull
<1>3. InsertAt(s, 1, id) = <<id>> \o s
  <2>1. InsertAt(s, 1, id) = (<< >> \o <<id>>) \o s
    BY <1>1, <1>2 DEF InsertAt
  <2>2. << >> \o <<id>> = <<id>>
    <3>1. <<id>> \in Seq(Workspaces)
      OBVIOUS
    <3> QED
      BY <3>1, ConcatEmptySeq
  <2> QED
    BY <2>1, <2>2
<1>4. \A i \in 1 .. Len(s) + 1 :
        InsertAt(s, i, id) \in List /\ ToSet(InsertAt(s, i, id)) \subseteq ToSet(s) \cup {id}
  BY InsertedList
<1>5. 1 \in 1 .. Len(s) + 1
  BY <1>1
<1> QED
  BY <1>3, <1>4, <1>5

\* Taking a workspace out leaves a list of the others.
LEMMA ShortenedList ==
    ASSUME NEW s \in List, NEW id
    PROVE  Without(s, id) \in List /\ ToSet(Without(s, id)) = ToSet(s) \ {id}
<1>1. s \in Seq(Workspaces) /\ IsInjective(s) /\ Len(s) \in Nat /\ DOMAIN s = 1 .. Len(s)
  BY ListDef, LenProperties
<1>2. CASE id \notin ToSet(s)
  BY <1>2 DEF Without
<1>3. CASE id \in ToSet(s)
  <2> DEFINE k == CHOOSE i \in DOMAIN s : s[i] = id
             before == SubSeq(s, 1, k - 1)
             after == SubSeq(s, k + 1, Len(s))
             t == RemoveAt(s, k)
  <2>1. k \in 1 .. Len(s) /\ s[k] = id
    BY <1>1, <1>3 DEF ToSet
  <2>2. Without(s, id) = t /\ t = before \o after
    BY <1>3 DEF Without, RemoveAt
  <2> HIDE DEF k, t
  <2>3. \A j \in 1 .. Len(s) : s[j] \in Workspaces
    BY <1>1, ElementOfSeq
  <2>4. /\ before \in Seq(Workspaces) /\ Len(before) = k - 1
        /\ \A j \in 1 .. k - 1 : before[j] = s[j]
    <3>1. \A j \in 1 .. k - 1 : s[j] \in Workspaces
      BY <1>1, <2>1, <2>3
    <3>2. /\ before \in Seq(Workspaces)
          /\ Len(before) = IF 1 <= k - 1 THEN k - 1 - 1 + 1 ELSE 0
          /\ \A j \in 1 .. k - 1 - 1 + 1 : before[j] = s[1 + j - 1]
      BY <2>1, <3>1, SubSeqProperties
    <3> QED
      BY <1>1, <2>1, <3>2
  <2>5. /\ after \in Seq(Workspaces) /\ Len(after) = Len(s) - k
        /\ \A j \in 1 .. Len(s) - k : after[j] = s[k + j]
    <3>1. \A j \in k + 1 .. Len(s) : s[j] \in Workspaces
      BY <1>1, <2>1, <2>3
    <3>2. PICK m \in Int : m = k + 1
      BY <2>1
    <3>3. /\ SubSeq(s, m, Len(s)) \in Seq(Workspaces)
          /\ Len(SubSeq(s, m, Len(s))) = IF m <= Len(s) THEN Len(s) - m + 1 ELSE 0
          /\ \A j \in 1 .. Len(s) - m + 1 : SubSeq(s, m, Len(s))[j] = s[m + j - 1]
      BY <1>1, <3>1, <3>2, SubSeqProperties
    <3>4. after = SubSeq(s, m, Len(s))
      BY <3>2
    <3> HIDE DEF after
    <3>5. after \in Seq(Workspaces) /\ Len(after) = Len(s) - k
      <4>1. after \in Seq(Workspaces) /\ Len(after) = IF m <= Len(s) THEN Len(s) - m + 1 ELSE 0
        BY <3>3, <3>4
      <4>2. k \in Int /\ Len(s) \in Int /\ k <= Len(s)
        BY <1>1, <2>1
      <4>3. (IF m <= Len(s) THEN Len(s) - m + 1 ELSE 0) = Len(s) - k
        BY <3>2, <4>2
      <4> QED
        BY <4>1, <4>3
    <3>6. ASSUME NEW j \in 1 .. Len(s) - k PROVE after[j] = s[k + j]
      <4>1. j \in 1 .. Len(s) - m + 1 /\ m + j - 1 = k + j
        BY <1>1, <2>1, <3>2
      <4> QED
        BY <3>3, <3>4, <4>1
    <3> QED
      BY <3>5, <3>6
  <2> HIDE DEF before, after
  <2>6. /\ t \in Seq(Workspaces) /\ Len(t) = Len(s) - 1
        /\ \A j \in 1 .. Len(s) - 1 : t[j] = IF j < k THEN s[j] ELSE s[j + 1]
    <3>1. /\ t \in Seq(Workspaces) /\ Len(t) = Len(before) + Len(after)
          /\ \A j \in 1 .. Len(before) + Len(after) :
               t[j] = IF j <= Len(before) THEN before[j] ELSE after[j - Len(before)]
      <4>1. t = before \o after
        BY <2>2
      <4>2. before \in Seq(Workspaces) /\ after \in Seq(Workspaces)
        BY <2>4, <2>5
      <4> QED
        BY ONLY <4>1, <4>2, ConcatProperties
    <3>2. ASSUME NEW j \in 1 .. Len(s) - 1
          PROVE  t[j] = IF j < k THEN s[j] ELSE s[j + 1]
      <4>1. CASE j < k
        <5>1. Len(before) = k - 1 /\ Len(before) + Len(after) = Len(s) - 1
          BY <1>1, <2>1, <2>4, <2>5
        <5>2. t[j] = before[j] /\ j \in 1 .. k - 1
          BY <1>1, <2>1, <3>1, <4>1, <5>1
        <5> QED
          BY <2>4, <4>1, <5>2
      <4>2. CASE j >= k
        <5>0. Len(before) = k - 1 /\ Len(before) + Len(after) = Len(s) - 1
          BY <1>1, <2>1, <2>4, <2>5
        <5>1. t[j] = after[j - (k - 1)] /\ j - (k - 1) \in 1 .. Len(s) - k
          BY <1>1, <2>1, <3>1, <4>2, <5>0
        <5>2. after[j - (k - 1)] = s[k + (j - (k - 1))]
          BY <2>5, <5>1
        <5>3. k + (j - (k - 1)) = j + 1
          BY <2>1
        <5> QED
          BY <2>1, <4>2, <5>1, <5>2, <5>3
      <4> QED
        BY <2>1, <4>1, <4>2
    <3> QED
      BY <1>1, <2>1, <2>4, <2>5, <3>1, <3>2
  <2>7. DOMAIN t = 1 .. Len(s) - 1
    BY <2>6, LenProperties
  <2>8. IsInjective(t)
    <3> SUFFICES ASSUME NEW i \in 1 .. Len(s) - 1, NEW j \in 1 .. Len(s) - 1, t[i] = t[j], i < j
                 PROVE  FALSE
      BY <1>1, <2>7 DEF IsInjective
    <3> DEFINE from(n) == IF n < k THEN n ELSE n + 1
    <3>1. /\ from(i) \in 1 .. Len(s) /\ from(j) \in 1 .. Len(s) /\ from(i) # from(j)
          /\ t[i] = s[from(i)] /\ t[j] = s[from(j)]
      BY <1>1, <2>1, <2>6
    <3> QED
      BY <1>1, <3>1 DEF IsInjective
  <2>9. ToSet(t) = ToSet(s) \ {id}
    <3>1. ASSUME NEW i \in 1 .. Len(s) - 1 PROVE t[i] \in ToSet(s) \ {id}
      <4> DEFINE j == IF i < k THEN i ELSE i + 1
      <4>1. t[i] = s[j] /\ j \in 1 .. Len(s) /\ j # k
        BY <1>1, <2>1, <2>6
      <4> QED
        BY <1>1, <2>1, <4>1 DEF ToSet, IsInjective
    <3>2. ASSUME NEW i \in 1 .. Len(s), s[i] # id PROVE s[i] \in ToSet(t)
      <4> DEFINE j == IF i < k THEN i ELSE i - 1
      <4>1. t[j] = s[i] /\ j \in 1 .. Len(s) - 1
        BY <1>1, <2>1, <2>6, <3>2
      <4> QED
        BY <2>7, <4>1 DEF ToSet
    <3> QED
      BY <1>1, <2>7, <3>1, <3>2 DEF ToSet
  <2> QED
    BY <2>2, <2>6, <2>8, <2>9, ListDef
<1> QED
  BY <1>2, <1>3

-----------------------------------------------------------------------------
(* Types *)

\* A workspace that is not created yet is in nobody's list.
Unlisted == \A a \in Accounts : ToSet(lists[a]) \cap unborn = {}

TInv == TypeOK /\ Unlisted

LEMMA PagesOK ==
    ASSUME NEW p \in Pages
    PROVE  /\ Page[p].resources \subseteq Resources /\ Page[p].buttons \subseteq Buttons
           /\ p # None
BY WorkspacePagesAssumption, Table DEF PageType

LEMMA ClosedOK == Closed \in Views
BY WorkspacePagesAssumption DEF Closed, Views, NoData, Id, Key

LEMMA MountedOK ==
    ASSUME NEW p \in Pages, NEW active \in Id, NEW disk \in Id, NEW resource \in ResourcesOf(p)
    PROVE  Mounted(p, resource, Taken(p, active, disk)) \in Views
<1>1. Taken(p, active, disk) \in Id
  BY DEF Taken, Id
<1>2. resource \in Resources \cup {None}
  BY PagesOK DEF ResourcesOf
<1>3. \A id \in Id : {<<id, 1>>} \subseteq Key
  BY WorkspacePagesAssumption DEF Key
<1> QED
  BY <1>1, <1>2, <1>3, ClosedOK DEF Mounted, Closed, Views

LEMMA RefetchedOK ==
    ASSUME NEW v \in Views, NEW id \in Id, NEW query \in Queries
    PROVE  Refetched(v, id, query) \in Views
<1>1. {<<id, query>>} \subseteq Key
  BY DEF Key
<1>2. v.fetches \subseteq Key
  BY DEF Views
<1>3. (IF Page[page].hook THEN {} ELSE v.fetches)
        \cup (IF v.resource # None THEN {<<id, query>>} ELSE {}) \in SUBSET Key
  BY <1>1, <1>2
<1> QED
  BY <1>3 DEF Refetched, Views

LEMMA RenderedOK ==
    ASSUME view \in Views, page' \in Pages \cup {None}, activeId' \in Id, saved' \in Id, Rendered
    PROVE  view' \in Views
<1>1. CASE view' = Closed
  BY <1>1, ClosedOK
<1>2. CASE Open' /\ Mounting
  <2>1. page' \in Pages
    BY <1>2 DEF Open
  <2> QED
    BY <1>2, <2>1, MountedOK DEF Mounting
<1>3. CASE view' = Refetched(view, activeId', view.query)
  <2>1. view.query \in Queries
    BY DEF Views
  <2> QED
    BY <1>3, <2>1, RefetchedOK
<1>4. CASE view' = view
  BY <1>4
<1> QED
  BY <1>1, <1>2, <1>3, <1>4 DEF Rendered

LEMMA EventOK == events \in 0 .. MaxEvents /\ Event => events' \in 0 .. MaxEvents
BY WorkspacePagesAssumption DEF Event

LEMMA LoadOK ==
    ASSUME TInv, NEW who \in Accounts, load(who)
    PROVE  /\ {loading', failed'} \subseteq BOOLEAN
           /\ listings' \subseteq [of : Accounts, list : List]
<1>1. lists[who] \in List /\ loading \in BOOLEAN /\ failed \in BOOLEAN
      /\ listings \subseteq [of : Accounts, list : List]
  BY DEF TInv, TypeOK
<1>2. CASE loading \/ loaded
  BY <1>1, <1>2 DEF load
<1>3. CASE ~(loading \/ loaded)
  <2>1. loading' = TRUE /\ failed' = FALSE
        /\ listings' = listings \cup {[of |-> who, list |-> lists[who]]}
    BY <1>3 DEF load
  <2>2. [of |-> who, list |-> lists[who]] \in [of : Accounts, list : List]
    BY <1>1
  <2>3. loading' \in BOOLEAN /\ failed' \in BOOLEAN
    BY <2>1
  <2> QED
    BY <1>1, <2>1, <2>2, <2>3
<1> QED
  BY <1>2, <1>3

\* A page that is loaded anew, of an account whose list is one.
LEMMA ReloadedOK ==
    ASSUME TInv, NEW p \in Pages \cup {None}, p # None => account \in Accounts, Reloaded(p),
           lists' \in [Accounts -> List], unborn' \subseteq Workspaces, Unlisted',
           saved' \in Id, events' \in 0 .. MaxEvents
    PROVE  TInv'
<1>1. /\ workspaces' \in List /\ activeId' \in Id /\ entitlements' \in Id
      /\ page' = p
  BY EmptyList DEF Reloaded, TInv, TypeOK, Id
<1>2. listings' \subseteq [of : Accounts, list : List]
  BY DEF Reloaded
<1>3. view' \in Views
  <2>1. CASE Open'
    <3>1. page' \in Pages /\ Mounting
      BY <1>1, <2>1 DEF Open, Reloaded
    <3> QED
      BY <1>1, <3>1, MountedOK DEF Mounting
  <2>2. CASE ~Open'
    BY <2>2, ClosedOK DEF Reloaded
  <2> QED
    BY <2>1, <2>2
<1>4. /\ {loading', loaded', failed', leftBehind'} \subseteq BOOLEAN
      /\ asked' = {} /\ owner' = None /\ account' = account
  BY DEF Reloaded
<1> QED
  BY <1>1, <1>2, <1>3, <1>4 DEF TInv, TypeOK

\* The effect of asking for the entitlements of a workspace.
LEMMA AskedOK ==
    ASSUME asked \subseteq Workspaces, NEW id \in Id, refreshEntitlements(id)
    PROVE  asked' \subseteq Workspaces
BY DEF refreshEntitlements, Id

LEMMA ListenedOK ==
    ASSUME NEW list \in List
    PROVE  FirstOf(list) \in Id /\ ToSet(list) \subseteq Workspaces
<1>1. list \in Seq(Workspaces) /\ DOMAIN list = 1 .. Len(list)
  BY ListDef, LenProperties
<1>2. ToSet(list) \subseteq Workspaces
  BY <1>1, ElementOfSeq DEF ToSet
<1>3. FirstOf(list) \in Id
  BY <1>1, HeadTailProperties DEF FirstOf, Id
<1> QED
  BY <1>2, <1>3

LEMMA InitTypes == Init => TInv
<1> SUFFICES ASSUME Init PROVE TInv
  OBVIOUS
<1>1. lists \in [Accounts -> List]
  BY WorkspacePagesAssumption DEF Init
<1>2. unborn \subseteq Workspaces /\ Unlisted
  BY DEF Init, Unlisted
<1>3. view \in Views /\ workspaces \in List
  BY ClosedOK, EmptyList DEF Init
<1>4. events \in 0 .. MaxEvents
  BY WorkspacePagesAssumption DEF Init
<1> QED
  BY <1>1, <1>2, <1>3, <1>4 DEF Init, TInv, TypeOK, Id

LEMMA NextTypes == TInv /\ StoreInv /\ [Next]_vars => TInv'
<1> SUFFICES ASSUME TInv, StoreInv, [Next]_vars PROVE TInv'
  OBVIOUS
<1>a. /\ account \in Accounts \cup {None} /\ (page # None => account \in Accounts)
      /\ "overview" \in Pages /\ None \in Id /\ Workspaces \subseteq Id
  BY WorkspacePagesAssumption DEF TInv, TypeOK, StoreInv, PageKnown, Id
<1>t. TypeOK /\ Unlisted /\ view \in Views /\ events \in 0 .. MaxEvents
  BY DEF TInv, TypeOK
<1>1. ASSUME NEW a \in Accounts, SignIn(a) PROVE TInv'
  <2>1. view' \in Views
    BY <1>1, <1>t, RenderedOK DEF SignIn, TypeOK
  <2>2. {loading', failed'} \subseteq BOOLEAN /\ listings' \subseteq [of : Accounts, list : List]
    BY <1>1, LoadOK DEF SignIn
  <2> QED
    BY <1>1, <1>t, <2>1, <2>2 DEF SignIn, TInv, TypeOK, Unlisted, server, history
<1>2. CASE SignOut
  <2>1. view' \in Views /\ events' \in 0 .. MaxEvents
    BY <1>2, <1>a, <1>t, RenderedOK, EventOK DEF SignOut, TypeOK
  <2> QED
    BY <1>2, <1>a, <1>t, <2>1, EmptyList DEF SignOut, TInv, TypeOK, Unlisted, server, calls
<1>3. CASE SessionExpires
  <2>1. view' \in Views /\ events' \in 0 .. MaxEvents
    BY <1>3, <1>a, <1>t, RenderedOK, EventOK DEF SessionExpires, store, TypeOK
  <2> QED
    BY <1>3, <1>a, <1>t, <2>1 DEF SessionExpires, TInv, TypeOK, Unlisted, server, calls, store
<1>4. CASE Reload
  <2>1. /\ lists' = lists /\ unborn' = unborn /\ saved' = saved /\ Reloaded(page)
        /\ events' \in 0 .. MaxEvents
    BY <1>4, <1>t, EventOK DEF Reload, server
  <2>2. page \in Pages \cup {None} /\ saved \in Id
    BY <1>t DEF TypeOK
  <2> QED
    BY <1>a, <1>t, <2>1, <2>2, ReloadedOK DEF TypeOK, Unlisted
<1>5. CASE Retry
  <2>1. view' \in Views
    BY <1>5, <1>a, <1>t, RenderedOK DEF Retry, TypeOK
  <2>2. account \in Accounts /\ lists[account] \in List
    BY <1>5, <1>a, <1>t DEF Retry, TypeOK
  <2>3. /\ loading' \in BOOLEAN /\ failed' \in BOOLEAN
        /\ listings' = listings \cup {[of |-> account, list |-> lists[account]]}
    BY <1>5 DEF Retry
  <2>4. [of |-> account, list |-> lists[account]] \in [of : Accounts, list : List]
    BY <2>2
  <2>5. listings' \subseteq [of : Accounts, list : List]
    BY <1>t, <2>3, <2>4 DEF TypeOK
  <2> QED
    BY <1>5, <1>t, <2>1, <2>3, <2>5 DEF Retry, TInv, TypeOK, Unlisted, server, history
<1>6. ASSUME NEW ask \in listings, Loaded(ask) PROVE TInv'
  <2>1. ask.of \in Accounts /\ ask.list \in List
    BY <1>t DEF TypeOK
  <2>2. activeId' \in Id /\ saved' \in Id /\ refreshEntitlements(activeId')
    BY <1>6, <1>t, <2>1, ListenedOK DEF Loaded, TypeOK
  <2>3. asked' \subseteq Workspaces
    BY <1>t, <2>2, AskedOK DEF TypeOK
  <2>4. view' \in Views
    BY <1>6, <1>t, <2>2, RenderedOK DEF Loaded, TypeOK
  <2> QED
    BY <1>6, <1>t, <2>1, <2>2, <2>3, <2>4 DEF Loaded, TInv, TypeOK, Unlisted, server
<1>7. ASSUME NEW ask \in listings, LoadFailed(ask) PROVE TInv'
  <2>1. /\ account' \in Accounts \cup {None} /\ page' \in Pages \cup {None}
        /\ leftBehind' \in BOOLEAN /\ events' \in 0 .. MaxEvents
    BY <1>7, <1>t, EventOK DEF LoadFailed, TypeOK
  <2>2. view' \in Views
    BY <1>7, <1>t, <2>1, RenderedOK DEF LoadFailed, TypeOK
  <2> QED
    BY <1>7, <1>t, <2>1, <2>2 DEF LoadFailed, TInv, TypeOK, Unlisted, server
<1>8. ASSUME NEW id \in asked, Entitled(id) PROVE TInv'
  <2>1. entitlements' \in Id
    BY <1>8, <1>a, <1>t DEF Entitled, TypeOK
  <2>2. view' \in Views
    BY <1>8, <1>t, RenderedOK DEF Entitled, TypeOK
  <2> QED
    BY <1>8, <1>t, <2>1, <2>2 DEF Entitled, TInv, TypeOK, Unlisted, server, history
<1>9. ASSUME NEW id \in Workspaces, setActive(id) PROVE TInv'
  <2>1. asked' \subseteq Workspaces
    BY <1>9, <1>a, <1>t, AskedOK DEF setActive, TypeOK
  <2>2. view' \in Views
    BY <1>9, <1>a, <1>t, RenderedOK DEF setActive, TypeOK
  <2> QED
    BY <1>9, <1>a, <1>t, <2>1, <2>2 DEF setActive, TInv, TypeOK, Unlisted, server, history
<1>10. ASSUME NEW p \in Pages, Visit(p) PROVE TInv'
  <2>1. account \in Accounts
    BY <1>10, <1>a DEF Visit
  <2>2. view' \in Views
    BY <1>10, <1>t, RenderedOK DEF Visit, TypeOK
  <2>3. {loading', failed'} \subseteq BOOLEAN /\ listings' \subseteq [of : Accounts, list : List]
    BY <1>10, <2>1, LoadOK DEF Visit
  <2> QED
    BY <1>10, <1>t, <2>2, <2>3 DEF Visit, TInv, TypeOK, Unlisted, server, history
<1>11. CASE Leave
  <2>1. view' \in Views
    BY <1>11, <1>t, RenderedOK DEF Leave, TypeOK, store
  <2> QED
    BY <1>11, <1>t, <2>1 DEF Leave, TInv, TypeOK, Unlisted, server, store, calls, history
<1>12. ASSUME view' \in Views,
              UNCHANGED <<account, server, store, calls, page, history, events>>, saved' \in Id
       PROVE  TInv'
  BY <1>12, <1>t DEF TInv, TypeOK, Unlisted, server, store, calls, history
<1>13. ASSUME NEW query \in Queries, Filter(query) PROVE TInv'
  <2>1. activeId \in Id /\ view.taken \in Id /\ saved' \in Id
    BY <1>13, <1>t DEF Filter, TypeOK, Views
  <2>2. view' \in Views
    BY <1>13, <1>t, <2>1, RefetchedOK DEF Filter
  <2> QED
    BY <1>12, <1>13, <2>1, <2>2 DEF Filter
<1>14. CASE Take
  <2>1. view.query \in Queries /\ saved \in Id
    BY <1>t DEF TypeOK, Views
  <2>2. PICK id \in Id : /\ saved' = IF Page[page].from = "saved" THEN id ELSE saved
                         /\ view' = [Refetched(view, id, view.query) EXCEPT !.taken = id]
    BY <1>14 DEF Take
  <2>3. Refetched(view, id, view.query) \in Views
    BY <1>t, <2>1, RefetchedOK
  <2>4. view' \in Views
    BY <2>2, <2>3 DEF Views
  <2> QED
    BY <1>12, <1>14, <2>1, <2>2, <2>4 DEF Take
<1>15. ASSUME NEW key \in view.fetches, Fetched(key) PROVE TInv'
  <2>1. view.fetches \subseteq Key
    BY <1>t DEF Views
  <2>2. view' \in Views
    BY <1>15, <1>t, <2>1 DEF Fetched, Views
  <2> QED
    BY <1>12, <1>15, <1>t, <2>2 DEF Fetched, TypeOK
<1>16. ASSUME page # None, NEW button \in Page[page].buttons, Press(button) PROVE TInv'
  <2>1. button.to \in Targets
    <3>1. page \in Pages
      BY <1>16, <1>t DEF TypeOK
    <3>2. button \in Buttons
      BY <3>1, <1>16, PagesOK
    <3> QED
      BY <3>2 DEF Buttons
  <2>2. view' \in Views
    <3>1. (IF Target(button) \in {None, activeId} THEN view.astray
           ELSE view.astray \cup {button.to}) \in SUBSET Targets
      BY <1>t, <2>1 DEF Views
    <3>2. (view.saving \/ button.after = "reload") \in BOOLEAN
      OBVIOUS
    <3> QED
      BY <1>16, <1>t, <3>1, <3>2 DEF Press, Views
  <2> QED
    BY <1>12, <1>16, <1>t, <2>2 DEF Press, TypeOK
<1>17. CASE Saved
  <2>1. activeId \in Id /\ view.query \in Queries
    BY <1>t DEF TypeOK, Views
  <2>2. Refetched(view, activeId, view.query) \in Views
    BY <1>t, <2>1, RefetchedOK
  <2>3. view' \in Views
    BY <1>17, <1>t, <2>2 DEF Saved, Views
  <2> QED
    BY <1>12, <1>17, <1>t, <2>3 DEF Saved, TypeOK
<1>18. CASE Created
  <2>1. activeId \in Id /\ asked \subseteq Workspaces
    BY <1>t DEF TypeOK
  <2>2. asked' \subseteq Workspaces
    BY <1>18, <2>1, AskedOK DEF Created
  <2> QED
    BY <1>18, <1>t, <2>2 DEF Created, TInv, TypeOK, Unlisted, server, store, history
<1>19. CASE CreateWorkspace
  <2>1. account \in Accounts /\ saved' \in Id /\ events' \in 0 .. MaxEvents /\ "settings" \in Pages
    BY <1>19, <1>a, <1>t, EventOK DEF CreateWorkspace, Open, TypeOK
  <2>2. PICK id \in unborn : /\ unborn' = unborn \ {id}
                             /\ lists' = [lists EXCEPT ![account] = <<id>> \o @]
    BY <1>19 DEF CreateWorkspace
  <2>3. /\ id \in Workspaces /\ lists[account] \in List /\ id \notin ToSet(lists[account])
        /\ lists \in [Accounts -> List]
    BY <1>t, <2>1, <2>2 DEF TypeOK, Unlisted
  <2>4. /\ <<id>> \o lists[account] \in List
        /\ ToSet(<<id>> \o lists[account]) \subseteq ToSet(lists[account]) \cup {id}
    BY <2>3, PrependedList
  <2>5. lists' \in [Accounts -> List] /\ unborn' \subseteq Workspaces
    BY <1>t, <2>2, <2>3, <2>4 DEF TypeOK
  <2>6. Unlisted'
    <3> SUFFICES ASSUME NEW a \in Accounts PROVE ToSet(lists'[a]) \cap unborn' = {}
      BY DEF Unlisted
    <3>1. ToSet(lists[a]) \cap unborn = {}
      BY <1>t DEF Unlisted
    <3>2. CASE a = account
      <4>1. lists'[a] = <<id>> \o lists[account]
        BY <2>2, <2>3, <3>2
      <4> QED
        BY <2>2, <2>4, <3>1, <3>2, <4>1
    <3>3. CASE a # account
      <4>1. lists'[a] = lists[a]
        BY <2>2, <2>3, <3>3
      <4> QED
        BY <2>2, <3>1, <4>1
    <3> QED
      BY <3>2, <3>3
  <2>7. Reloaded("settings")
    BY <1>19 DEF CreateWorkspace
  <2> QED
    BY <2>1, <2>5, <2>6, <2>7, ReloadedOK
<1>20. CASE DeleteWorkspace
  <2>1. account \in Accounts /\ saved' \in Id /\ events' \in 0 .. MaxEvents /\ unborn' = unborn
    BY <1>20, <1>a, <1>t, EventOK DEF DeleteWorkspace, Open
  <2>2. lists' \in {lists, [a \in Accounts |-> Without(lists[a], view.taken)]}
    BY <1>20 DEF DeleteWorkspace
  <2>3. \A a \in Accounts : /\ lists[a] \in List
                            /\ Without(lists[a], view.taken) \in List
                            /\ ToSet(Without(lists[a], view.taken)) \subseteq ToSet(lists[a])
    <3>1. \A a \in Accounts : lists[a] \in List
      BY <1>t DEF TypeOK
    <3> QED
      BY <3>1, ShortenedList
  <2>4. lists' \in [Accounts -> List] /\ unborn' \subseteq Workspaces
    BY <1>t, <2>1, <2>2, <2>3 DEF TypeOK
  <2>5. \A a \in Accounts : ToSet(lists'[a]) \subseteq ToSet(lists[a])
    <3>1. CASE lists' = lists
      BY <3>1
    <3>2. CASE lists' = [a \in Accounts |-> Without(lists[a], view.taken)]
      <4>1. \A a \in Accounts : lists'[a] = Without(lists[a], view.taken)
        BY <3>2
      <4> QED
        BY <2>3, <4>1
    <3> QED
      BY <2>2, <3>1, <3>2
  <2>6. Unlisted'
    BY <1>t, <2>1, <2>5 DEF Unlisted
  <2>7. Reloaded("overview")
    BY <1>20 DEF DeleteWorkspace
  <2> QED
    BY <1>a, <2>1, <2>4, <2>6, <2>7, ReloadedOK
<1>21. CASE AcceptInvite
  <2>1. account \in Accounts /\ events' \in 0 .. MaxEvents
    BY <1>21, <1>a, <1>t, EventOK DEF AcceptInvite
  <2>2. PICK id :
           /\ \E b \in Accounts : id \in ToSet(lists[b])
           /\ id \notin ToSet(lists[account])
           /\ \E i \in 1 .. Len(lists[account]) + 1 :
                lists' = [lists EXCEPT ![account] = InsertAt(@, i, id)]
           /\ saved' = id
    BY <1>21 DEF AcceptInvite
  <2>3. PICK i \in 1 .. Len(lists[account]) + 1 :
                lists' = [lists EXCEPT ![account] = InsertAt(@, i, id)]
    BY <2>2
  <2>4. /\ lists \in [Accounts -> List] /\ lists[account] \in List
        /\ \A a \in Accounts : lists[a] \in List
    BY <1>t, <2>1 DEF TypeOK
  <2>5. PICK b \in Accounts : id \in ToSet(lists[b])
    BY <2>2
  <2>6. id \in Workspaces /\ id \notin unborn /\ id \notin ToSet(lists[account])
    <3>1. ToSet(lists[b]) \subseteq Workspaces /\ ToSet(lists[b]) \cap unborn = {}
      BY <1>t, <2>4, ListenedOK DEF Unlisted
    <3>2. id \in Workspaces /\ id \notin unborn
      BY <2>5, <3>1
    <3>3. id \notin ToSet(lists[account])
      BY <2>2
    <3> QED
      BY <3>2, <3>3
  <2>7. /\ InsertAt(lists[account], i, id) \in List
        /\ ToSet(InsertAt(lists[account], i, id)) \subseteq ToSet(lists[account]) \cup {id}
    BY <2>4, <2>6, InsertedList
  <2>8. lists' \in [Accounts -> List] /\ unborn' = unborn
    BY <1>21, <2>3, <2>4, <2>7 DEF AcceptInvite
  <2>9. Unlisted'
    <3> SUFFICES ASSUME NEW a \in Accounts PROVE ToSet(lists'[a]) \cap unborn = {}
      BY <2>8 DEF Unlisted
    <3>1. ToSet(lists[a]) \cap unborn = {}
      BY <1>t DEF Unlisted
    <3>2. CASE a = account
      <4>1. lists'[a] = InsertAt(lists[account], i, id)
        BY <2>3, <2>4, <3>2
      <4> QED
        BY <2>6, <2>7, <3>1, <3>2, <4>1
    <3>3. CASE a # account
      <4>1. lists'[a] = lists[a]
        BY <2>3, <2>4, <3>3
      <4> QED
        BY <3>1, <4>1
    <3> QED
      BY <3>2, <3>3
  <2>10. {loading', failed'} \subseteq BOOLEAN /\ listings' \subseteq [of : Accounts, list : List]
    BY <1>21, <2>1, LoadOK DEF AcceptInvite
  <2>11. saved' \in Id /\ page' \in Pages /\ activeId' = activeId
    BY <1>21, <1>a, <2>2, <2>6 DEF AcceptInvite
  <2>12. view' \in Views
    BY <1>21, <1>t, <2>11, RenderedOK DEF AcceptInvite, TypeOK
  <2> QED
    BY <1>21, <1>t, <2>1, <2>6, <2>8, <2>9, <2>10, <2>11, <2>12
       DEF AcceptInvite, TInv, TypeOK, history
<1>22. CASE UNCHANGED vars
  BY <1>22, <1>t DEF vars, TInv, TypeOK, Unlisted, server, store, calls, history
<1> QED
  BY <1>1, <1>2, <1>3, <1>4, <1>5, <1>6, <1>7, <1>8, <1>9, <1>10, <1>11, <1>13, <1>14, <1>15,
     <1>16, <1>17, <1>18, <1>19, <1>20, <1>21, <1>22 DEF Next

\* Whatever is created, deleted and joined, the lists of the server and of the
\* store are lists of distinct workspaces, and what a page keeps is of the
\* workspaces and queries there are.
THEOREM TypeCorrect == Spec => []TypeOK
<1>1. TInv => TypeOK
  BY DEF TInv
<1> QED
  BY InitTypes, NextTypes, InitStore, NextStore, <1>1, PTL DEF Spec
=============================================================================
