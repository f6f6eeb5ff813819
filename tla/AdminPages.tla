------------------------------ MODULE AdminPages ------------------------------
(***************************************************************************)
(* The administrator's pages: main.js, with index.html and the script of   *)
(* approve-users.html, in one browser tab against one server.              *)
(*                                                                         *)
(* Every request may stay unanswered, fail, be answered late or be carried *)
(* out although the page has given it up; requests of one page overlap.    *)
(* fetchWithTimeout gives a request five seconds to bring its head: what   *)
(* stays away after the head is waited for without end.  approveUser and   *)
(* rejectUser do the same to the page and are one operation here.  The     *)
(* server is not part of the repository: users start to wait and stop      *)
(* waiting at any time.                                                    *)
(*                                                                         *)
(* A success hides its row at once here, and a second later in the code.   *)
(***************************************************************************)
EXTENDS Integers, Sequences, FiniteSets

CONSTANTS
    Listing,    \* the users there are, in the order they are listed
    PerPage,
    MaxButtons, \* page buttons createPagination shows at most
    Load,       \* bound: loads of the list under way at once
    Act,        \* bound: approvals and rejections under way at once
    Timers      \* bound: timers under way at once, each to hide a message

User == {Listing[i] : i \in 1 .. Len(Listing)}
PERMISSION == {"VIEW_USERS", "APPROVE_USERS"}
Grants == {{}, {"VIEW_USERS"}, {"APPROVE_USERS"}} \* bound: permissions granted

ASSUME AdminPagesAssumption ==
    /\ PerPage \in Nat \ {0} /\ MaxButtons \in Nat \ {0}
    /\ Listing \in Seq(User) /\ Cardinality(User) = Len(Listing)

VARIABLES
    pending,         \* the server: the users waiting
    where, boot,     \* the page, and what became of its permission request
    adminPermission, nav,
    currentPage, pager, load, shown,
    view,            \* what the container shows
    table, enabled, hidden, \* the rows: those on the page, those with enabled
                     \* buttons, those a success has hidden
    act,
    box, hides,      \* the message box, and the timers that will hide it
    decided, crossed, overlapped \* history, see Properties

rights  == <<where, boot, adminPermission, nav>>
list    == <<currentPage, load>>
shows   == <<view, pager, shown, crossed>>
rows    == <<table, enabled, hidden>>
message == <<box, hides>>
vars == <<pending, rights, list, shows, rows, act, message, decided, overlapped>>

Least(m, n) == IF m < n THEN m ELSE n
Greatest(m, n) == IF m < n THEN n ELSE m

FreeLoad == [at |-> "free", page |-> 0, users |-> {}, total |-> 0]
FreeAct  == [at |-> "free", user |-> Listing[1], ok |-> FALSE, fresh |-> FALSE]
Loading  == {i \in Load : load[i].at # "free"}
Acting   == {k \in Act : act[k].at # "free"}

\* The places of the users who wait, and how many of them come before place i.
Waiting == {i \in DOMAIN Listing : Listing[i] \in pending}
Before(i) == Cardinality({j \in Waiting : j < i})

\* What the server lists on page p, and how many pages it has.
UsersOn(p) ==
    {Listing[i] : i \in {k \in Waiting : Before(k) \in (p - 1) * PerPage .. p * PerPage - 1}}
TotalPages == (Cardinality(Waiting) + PerPage - 1) \div PerPage
-----------------------------------------------------------------------------
(* Opening a page: checkAdminPermissions and what follows.                 *)

\* A page is opened, with nothing known yet.
Open(page) ==
    /\ where' = page /\ boot' = "sent" /\ adminPermission' = {} /\ nav' = {}
    /\ currentPage' = 1 /\ load' = [i \in Load |-> FreeLoad]
    /\ view' = "spinner" /\ pager' = [page |-> 0, total |-> 0] /\ shown' = 0
    /\ table' = {} /\ enabled' = {} /\ hidden' = {}
    /\ act' = [k \in Act |-> FreeAct]
    /\ box' = "hidden" /\ hides' = 0
    /\ decided' = {} /\ crossed' = FALSE /\ overlapped' = FALSE

Init ==
    /\ pending = User
    /\ where \in {"index", "approve"} /\ boot = "sent" /\ adminPermission = {} /\ nav = {}
    /\ currentPage = 1 /\ load = [i \in Load |-> FreeLoad]
    /\ view = "spinner" /\ pager = [page |-> 0, total |-> 0] /\ shown = 0
    /\ table = {} /\ enabled = {} /\ hidden = {}
    /\ act = [k \in Act |-> FreeAct]
    /\ box = "hidden" /\ hides = 0
    /\ decided = {} /\ crossed = FALSE /\ overlapped = FALSE

\* The administrator goes to a page, or loads it again, whatever is under way.
Visit(page) ==
    /\ Open(page)
    /\ UNCHANGED pending

BootHead ==
    /\ boot = "sent"
    /\ boot' = "body"
    /\ UNCHANGED <<pending, where, adminPermission, nav, list, shows, rows, act, message, decided, overlapped>>

\* handlePermissionError
PermissionError ==
    /\ boot' = "denied" /\ nav' = {} /\ view' = "denied" /\ box' = "error"
    /\ UNCHANGED <<pending, where, list, pager, shown, crossed, rows, act, hides,
                   decided, overlapped>>

\* No answer in time, no connection, or an answer that is not ok.
BootFails ==
    /\ boot = "sent"
    /\ PermissionError
    /\ UNCHANGED adminPermission

\* An answer that is no JSON, or of another version.
BootRejected ==
    /\ boot = "body"
    /\ PermissionError
    /\ UNCHANGED adminPermission

\* Mutant: any permission is good enough.
HasPermission_Any(granted, flag) == granted # {}

HasPermission(granted, flag) == flag \in granted

\* Mutant: the rows stay until the answer is there.
StartLoad_KeepsRows(page) ==
    /\ \E i \in Load \ Loading :
         load' = [load EXCEPT ![i] = [FreeLoad EXCEPT !.at = "sent", !.page = page]]
    /\ view' = "spinner" /\ shown' = 0
    /\ crossed' = (crossed \/ Loading # {})
    /\ UNCHANGED <<rows, act, decided, overlapped>>

\* loadPendingUsers: whatever is under way, the spinner replaces what the
\* container shows, and a page is asked for.
StartLoad(page) ==
    /\ \E i \in Load \ Loading :
         load' = [load EXCEPT ![i] = [FreeLoad EXCEPT !.at = "sent", !.page = page]]
    /\ view' = "spinner" /\ shown' = 0
    /\ crossed' = (crossed \/ Loading # {})
    /\ overlapped' = (overlapped \/ Acting # {})
    /\ table' = {} /\ enabled' = {} /\ hidden' = {}
    /\ act' = [k \in Act |-> [act[k] EXCEPT !.fresh = FALSE]]
    /\ UNCHANGED decided

\* The permissions are there: initializeDashboard, and on approve-users.html
\* checkModulePermission, which goes to the index without the permission.
BootDone(granted) ==
    /\ boot = "body"
    /\ IF where = "approve" /\ ~HasPermission(granted, "APPROVE_USERS")
       THEN Open("index")
       ELSE /\ adminPermission' = granted
            /\ boot' = "ready"
            /\ nav' = {flag \in PERMISSION : HasPermission(granted, flag)}
            /\ IF where = "approve"
               THEN StartLoad(currentPage)
               ELSE /\ view' = "overview"
                    /\ UNCHANGED <<load, shown, crossed, decided, overlapped, rows, act>>
            /\ UNCHANGED <<where, currentPage, pager, message>>
    /\ UNCHANGED pending
-----------------------------------------------------------------------------
(* The list: fetchModuleData, loadPendingUsers, renderPendingUsers.        *)

\* The server has answered request i, and the head has arrived in time.
LoadHead(i) ==
    /\ load[i].at = "sent"
    /\ load' = [load EXCEPT ![i] = [@ EXCEPT !.at = "body", !.users = UsersOn(load[i].page),
                                             !.total = TotalPages]]
    /\ UNCHANGED <<pending, rights, currentPage, shows, rows, act, message, decided, overlapped>>

\* renderPendingUsers: what is shown is the answer that came last; the page
\* buttons are those of currentPage.  No users, and the buttons stay.
LoadDone(i) ==
    /\ load[i].at = "body"
    /\ load' = [load EXCEPT ![i] = FreeLoad]
    /\ view' = IF load[i].users = {} THEN "empty" ELSE "table"
    /\ table' = load[i].users /\ enabled' = load[i].users /\ hidden' = {}
    /\ shown' = IF load[i].users = {} THEN 0 ELSE load[i].page
    /\ IF load[i].users = {}
       THEN UNCHANGED pager
       ELSE pager' = IF load[i].total > 1 THEN [page |-> currentPage, total |-> load[i].total]
                     ELSE [page |-> 0, total |-> 0]
    /\ act' = [k \in Act |-> [act[k] EXCEPT !.fresh = FALSE]]
    /\ overlapped' = (overlapped \/ Acting # {})
    /\ UNCHANGED <<pending, rights, currentPage, crossed, message, decided>>

\* Mutant: nobody catches the error.
LoadFailed_Uncaught(i) ==
    /\ load' = [load EXCEPT ![i] = FreeLoad]
    /\ UNCHANGED <<view, shown, table, enabled, hidden, act, overlapped>>
    /\ UNCHANGED <<pending, rights, currentPage, pager, crossed, message, decided>>

LoadFailed(i) ==
    /\ load' = [load EXCEPT ![i] = FreeLoad]
    /\ view' = "failed" /\ shown' = 0
    /\ table' = {} /\ enabled' = {} /\ hidden' = {}
    /\ act' = [k \in Act |-> [act[k] EXCEPT !.fresh = FALSE]]
    /\ overlapped' = (overlapped \/ Acting # {})
    /\ UNCHANGED <<pending, rights, currentPage, pager, crossed, message, decided>>

\* fetchWithTimeout: no head in time, no connection, or an answer not ok.
LoadFails(i) == load[i].at = "sent" /\ LoadFailed(i)

\* The body breaks off, or is no JSON.
LoadBreaks(i) == load[i].at = "body" /\ LoadFailed(i)

\* Mutant: there is always a next page.
Buttons_Next(page, total) ==
    LET first == Greatest(1, page - MaxButtons \div 2)
    IN  first .. Least(total, first + MaxButtons - 1)
        \cup {p \in {page - 1} : page > 1} \cup {page + 1}

\* createPagination: the pages its buttons lead to.
Buttons(page, total) ==
    LET first == Greatest(1, page - MaxButtons \div 2)
    IN  first .. Least(total, first + MaxButtons - 1)
        \cup {p \in {page - 1} : page > 1} \cup {p \in {page + 1} : page < total}

\* Mutant: the list is asked for before the page is set.
GoTo_Late(page) == currentPage' = page /\ StartLoad(currentPage)

\* onPageChange
GoTo(page) == currentPage' = page /\ StartLoad(page)

\* A button of the pagination, which stays in place while a list is loaded.
ChangePage(page) ==
    /\ boot = "ready" /\ pager.total > 0
    /\ page \in Buttons(pager.page, pager.total)
    /\ GoTo(page)
    /\ UNCHANGED <<pending, rights, pager, message>>
-----------------------------------------------------------------------------
(* approveUser and rejectUser, with submitModuleData.                      *)

\* Mutant: the buttons stay enabled.
Press_Again(u) ==
    /\ u \in (table \cap enabled) \ hidden
    /\ \E k \in Act \ Acting :
         act' = [act EXCEPT ![k] = [at |-> "sent", user |-> u, ok |-> FALSE, fresh |-> TRUE]]
    /\ UNCHANGED <<pending, rights, list, shows, table, enabled, hidden, message, decided, overlapped>>

\* A button of row u is clicked (and confirmed): the buttons of the row are
\* disabled and the request is sent.
Press(u) ==
    /\ u \in (table \cap enabled) \ hidden
    /\ enabled' = enabled \ {u}
    /\ \E k \in Act \ Acting :
         act' = [act EXCEPT ![k] = [at |-> "sent", user |-> u, ok |-> FALSE, fresh |-> TRUE]]
    /\ UNCHANGED <<pending, rights, list, shows, table, hidden, message,
                   decided, overlapped>>

\* The server carries the request out, or refuses it, and the head of its
\* answer arrives in time.
ActHead(k) ==
    /\ act[k].at = "sent"
    /\ \E ok \in {ok \in BOOLEAN : ok => act[k].user \in pending} :
         /\ pending' = pending \ {u \in {act[k].user} : ok}
         /\ decided' = decided \cup {u \in {act[k].user} : ok}
         /\ act' = [act EXCEPT ![k] = [@ EXCEPT !.at = "body", !.ok = ok]]
    /\ UNCHANGED <<rights, list, shows, rows, message, overlapped>>

\* Mutant: response.success is not looked at.
Succeeded_Any(k) == TRUE

Succeeded(k) == act[k].ok

\* Mutant: the buttons stay disabled.
Failed_Disabled(k) ==
    /\ box' = "error"
    /\ act' = [act EXCEPT ![k] = FreeAct]
    /\ UNCHANGED <<table, enabled, hidden>>
    /\ UNCHANGED <<pending, rights, list, shows, hides, decided, overlapped>>

\* The catch of approveUser: the row is looked up again, so that the buttons
\* of a row drawn since are enabled; without a row the handler throws.
Failed(k) ==
    /\ box' = "error"
    /\ enabled' = enabled \cup ({act[k].user} \cap table)
    /\ act' = [act EXCEPT ![k] = FreeAct]
    /\ UNCHANGED <<table, hidden>>
    /\ UNCHANGED <<pending, rights, list, shows, hides, decided, overlapped>>

\* The body is there: a success hides the row that was clicked, if it is still
\* on the page, and starts the timer that hides the message.
ActDone(k) ==
    /\ act[k].at = "body"
    /\ IF Succeeded(k)
       THEN /\ hides < Timers
            /\ box' = "success" /\ hides' = hides + 1
            /\ hidden' = hidden \cup {u \in {act[k].user} : act[k].fresh}
            /\ act' = [act EXCEPT ![k] = FreeAct]
            /\ UNCHANGED <<pending, rights, list, shows, table, enabled, decided, overlapped>>
       ELSE Failed(k)

\* fetchWithTimeout gives up, or the connection is lost.
ActFails(k) == act[k].at = "sent" /\ Failed(k)

\* The body breaks off, or is no JSON.
ActBreaks(k) == act[k].at = "body" /\ Failed(k)

HideError ==
    /\ hides > 0
    /\ hides' = hides - 1 /\ box' = "hidden"
    /\ UNCHANGED <<pending, rights, list, shows, rows, act, decided, overlapped>>
-----------------------------------------------------------------------------
\* A user signs up, for the first time or again.
SignsUp(u) ==
    /\ u \notin pending
    /\ pending' = pending \cup {u}
    /\ UNCHANGED <<rights, list, shows, rows, act, message, decided, overlapped>>

\* A user stops waiting without an answer to this page: the account expires,
\* or a request the page gave up, or was left with, is carried out after all.
Gone(u) ==
    /\ u \in pending
    /\ pending' = pending \ {u}
    /\ UNCHANGED <<rights, list, shows, rows, act, message, decided, overlapped>>
-----------------------------------------------------------------------------
Next ==
    \/ \E page \in {"index", "approve"} : Visit(page)
    \/ BootHead \/ BootFails \/ BootRejected
    \/ \E granted \in Grants : BootDone(granted)
    \/ \E i \in Load : LoadHead(i) \/ LoadDone(i) \/ LoadFails(i) \/ LoadBreaks(i)
    \/ \E page \in Buttons(pager.page, pager.total) : ChangePage(page)
    \/ \E k \in Act : ActHead(k) \/ ActDone(k) \/ ActFails(k) \/ ActBreaks(k)
    \/ \E u \in User : Press(u) \/ SignsUp(u) \/ Gone(u)
    \/ HideError

Spec == Init /\ [][Next]_vars

\* Timers fire, and what has arrived is handled.  Neither the network nor the
\* server nor the administrator owes anything.
Fairness ==
    /\ WF_vars(BootFails) /\ WF_vars(HideError)
    /\ \A i \in Load : WF_vars(LoadFails(i))
    /\ \A k \in Act : WF_vars(ActFails(k))

FairSpec == Spec /\ Fairness
-----------------------------------------------------------------------------
(* Properties.  decided: the users for whom the server has carried out a   *)
(* request of this page; crossed: a load was begun while another was under *)
(* way; overlapped: rows were taken off the page while a request for one   *)
(* was under way.                                                          *)

\* Every variable has its type, and only rows on the page have buttons.
TypeOK ==
    /\ pending \subseteq User
    /\ where \in {"index", "approve"} /\ boot \in {"sent", "body", "ready", "denied"}
    /\ adminPermission \subseteq PERMISSION /\ nav \subseteq PERMISSION
    /\ currentPage \in Nat /\ shown \in Nat /\ hides \in Nat
    /\ pager \in [page : Nat, total : Nat]
    /\ \A i \in Load : load[i].at \in {"free", "sent", "body"}
    /\ \A k \in Act : act[k].at \in {"free", "sent", "body"}
    /\ view \in {"spinner", "overview", "denied", "table", "empty", "failed"}
    /\ box \in {"hidden", "success", "error"}
    /\ {crossed, overlapped} \subseteq BOOLEAN
    /\ decided \subseteq User
    /\ table \subseteq User /\ (enabled \cup hidden) \subseteq table
    /\ view = "table" <=> table # {}
    /\ shown # 0 <=> table # {}

\* The page asks for users, shows and changes them only after the server has
\* granted it the permission to (main.js:53-55,202-209, approve-users.html:52-67).
PermissionFirst ==
    Loading # {} \/ Acting # {} \/ table # {} => "APPROVE_USERS" \in adminPermission

\* Unless the list was loaded again in between, the buttons of a user who is
\* the subject of a request stay off until it ends, so that no user is ever the
\* subject of two (approve-users.html:180-259).
OneRequestPerUser ==
    ~overlapped => \A k \in Acting :
        /\ act[k].user \notin enabled
        /\ \A j \in Acting : act[j].user = act[k].user => j = k

\* What the page shows as done the server did, whatever was refused, timed out
\* or loaded again in between: a row is taken away only for a user whose
\* request it carried out, and a success is announced only after one, with a
\* timer running that will take the message away, though one timer may hide
\* the message of another request (main.js:38-51, approve-users.html:196-217).
ShownAsDone ==
    /\ hidden \subseteq decided
    /\ box = "success" => decided # {} /\ hides > 0

\* The list shown is that of currentPage, unless two loads were under way at
\* once (main.js:212-233, approve-users.html:69-93).
ShownPage == view = "table" /\ ~crossed => shown = currentPage

\* Clicking never leads to a page the answer shown before did not tell of,
\* unless two loads were under way at once (main.js:258-290).
PageExists == ~crossed => currentPage \in 1 .. Greatest(1, pager.total)

\* The spinner ends, unless the body of an answer never does or the page is
\* opened over and over (main.js:58-72).
LoadingEnds ==
    \/ view = "spinner" ~> view # "spinner"
    \/ []<><<\E page \in {"index", "approve"} : Visit(page)>>_vars
    \/ <>[](boot = "body" \/ \E i \in Load : load[i].at = "body")

\* A row whose buttons were disabled goes, or can be clicked again, unless the
\* body of an answer never ends (main.js:58-72, approve-users.html:180-259).
RowsComeBack ==
    \/ \A u \in User : u \in table \ enabled ~> u \notin table \ (enabled \cup hidden)
    \/ <>[](\E k \in Act : act[k].at = "body")
=============================================================================
