-------------------------- MODULE AdminPagesProofs --------------------------
(***************************************************************************)
(* Safety of the administrator's pages for any list of users, any number   *)
(* of them on a page and any number of requests under way at once.         *)
(*                                                                         *)
(* None of the properties is inductive: each is about what an answer does  *)
(* when it comes, and so about what is known of the requests under way.    *)
(***************************************************************************)
EXTENDS AdminPages, FiniteSetTheorems, TLAPS

At == {"free", "sent", "body"}
LoadType == [at : At, page : Nat, users : SUBSET User, total : Nat]
ActType == [at : At, user : User \cup {Listing[1]}, ok : BOOLEAN, fresh : BOOLEAN]

\* A request, a list or its page buttons are there only on a page that has the
\* permission and is done with asking for it.
Granted ==
    Loading # {} \/ Acting # {} \/ table # {} \/ pager.total > 0 =>
        boot = "ready" /\ "APPROVE_USERS" \in adminPermission

\* An answer that lists users is about a page the server has.
Listed ==
    \A i \in Load : load[i].at = "body" /\ load[i].users # {} => load[i].page <= load[i].total

\* Until rows are taken away, the buttons of a user who is the subject of a
\* request are disabled.
Disabled ==
    ~overlapped =>
        \A k \in Acting : /\ act[k].user \notin enabled
                          /\ \A j \in Acting : act[j].user = act[k].user => j = k

\* A request still has the row it was made from, or has lost it.
Fresh == \A k \in Acting : act[k].fresh => act[k].user \in table

\* A success on its way is one the server has carried out.
Told == \A k \in Act : act[k].at = "body" /\ act[k].ok => act[k].user \in decided

\* Until two loads are under way at once, there is one, for currentPage, and
\* the buttons are those of an answer about a page the server had.
Single ==
    ~crossed =>
        /\ \A i, j \in Loading : i = j
        /\ \A i \in Loading : load[i].page = currentPage
        /\ table # {} => shown = currentPage
        /\ pager.page <= pager.total
        /\ pager.total > 0 => currentPage <= pager.total
        /\ pager.total = 0 => currentPage = 1

\* Types, as far as the page, the list and its rows go.
PageType ==
    /\ pending \subseteq User
    /\ where \in {"index", "approve"} /\ boot \in {"sent", "body", "ready", "denied"}
    /\ adminPermission \subseteq PERMISSION /\ nav \subseteq PERMISSION
    /\ box \in {"hidden", "success", "error"} /\ hides \in Nat
    /\ decided \subseteq User /\ crossed \in BOOLEAN /\ overlapped \in BOOLEAN

ListType ==
    /\ currentPage \in Nat \ {0}
    /\ pager \in [page : Nat, total : Nat]
    /\ load \in [Load -> LoadType]
    /\ \A i \in Loading : load[i].page \in Nat \ {0}

RowType ==
    /\ view \in {"spinner", "overview", "denied", "table", "empty", "failed"}
    /\ shown \in Nat
    /\ table \subseteq User /\ enabled \subseteq table /\ hidden \subseteq table
    /\ view = "table" <=> table # {}
    /\ shown # 0 <=> table # {}

ActsType == act \in [Act -> ActType]

Types == PageType /\ ListType /\ RowType /\ ActsType

IInv ==
    /\ Types
    /\ Granted /\ Listed /\ Disabled /\ Fresh /\ Told /\ ShownAsDone /\ Single
-----------------------------------------------------------------------------
(* The invariant implies the properties.                                   *)

LEMMA TypesAre == Types => TypeOK
<1> SUFFICES ASSUME Types PROVE TypeOK
  OBVIOUS
<1>1. \A i \in Load : load[i].at \in {"free", "sent", "body"}
  BY DEF Types, ListType, LoadType, At
<1>2. \A k \in Act : act[k].at \in {"free", "sent", "body"}
  BY DEF Types, ActsType, ActType, At
<1>3. currentPage \in Nat /\ shown \in Nat /\ hides \in Nat /\ pager \in [page : Nat, total : Nat]
  BY DEF Types, PageType, ListType, RowType
<1>4. {crossed, overlapped} \subseteq BOOLEAN
  BY DEF Types, PageType
<1>5. /\ table \subseteq User /\ (enabled \cup hidden) \subseteq table
      /\ view = "table" <=> table # {}
      /\ shown # 0 <=> table # {}
  BY DEF Types, RowType
<1> QED BY <1>1, <1>2, <1>3, <1>4, <1>5 DEF Types, PageType, RowType, TypeOK

LEMMA PropertiesHold ==
    ASSUME IInv
    PROVE  /\ TypeOK /\ PermissionFirst /\ OneRequestPerUser /\ ShownAsDone
           /\ ShownPage /\ PageExists
<1>1. TypeOK
  BY TypesAre DEF IInv
<1>2. PermissionFirst
  BY DEF IInv, Granted, PermissionFirst
<1>3. OneRequestPerUser
  BY DEF IInv, Disabled, OneRequestPerUser
<1>4. ShownAsDone
  BY DEF IInv
<1>5. ShownPage
  BY DEF IInv, Types, RowType, Single, ShownPage
<1>6. PageExists
  <2>1. currentPage \in Nat \ {0} /\ pager.total \in Nat
    BY DEF IInv, Types, ListType
  <2>2. ~crossed => /\ pager.total > 0 => currentPage <= pager.total
                    /\ pager.total = 0 => currentPage = 1
    BY DEF IInv, Single
  <2> QED BY <2>1, <2>2 DEF PageExists, Greatest
<1> QED BY <1>1, <1>2, <1>3, <1>4, <1>5, <1>6
-----------------------------------------------------------------------------
(* What the server lists.                                                  *)

LEMMA WaitingIs ==
    /\ IsFiniteSet(Waiting) /\ Cardinality(Waiting) \in Nat
    /\ \A i \in Waiting : Listing[i] \in User
<1>1. Len(Listing) \in Nat /\ DOMAIN Listing = 1 .. Len(Listing)
  BY AdminPagesAssumption
<1>2. IsFiniteSet(1 .. Len(Listing))
  BY <1>1, FS_Interval
<1>3. Waiting \subseteq 1 .. Len(Listing)
  BY <1>1 DEF Waiting
<1>4. IsFiniteSet(Waiting)
  BY <1>2, <1>3, FS_Subset
<1>5. Cardinality(Waiting) \in Nat
  BY <1>4, FS_CardinalityType
<1>6. \A i \in Waiting : Listing[i] \in User
  BY <1>3 DEF User
<1> QED BY <1>4, <1>5, <1>6

LEMMA UsersAre == ASSUME NEW p PROVE UsersOn(p) \subseteq User
BY WaitingIs DEF UsersOn

\* How many of w users come on pages before a page that lists one of them.
LEMMA PageArithmetic ==
    ASSUME NEW p \in Nat, NEW w \in Nat, NEW n \in Nat \ {0}, (p - 1) * n <= w - 1
    PROVE  p <= (w + n - 1) \div n
<1> DEFINE q == (w + n - 1) \div n
<1>1. q \in Int /\ w + n - 1 < (q + 1) * n
  BY SMT
<1> HIDE DEF q
<1>2. p * n = (p - 1) * n + n
  BY SMT
<1>3. p * n < (q + 1) * n
  BY <1>1, <1>2, SMT
<1>4. p < q + 1
  <2>1. SUFFICES ASSUME q + 1 <= p PROVE FALSE
    BY <1>1
  <2>2. (q + 1) * n <= p * n
    BY <1>1, <2>1, SMT
  <2>3. (q + 1) * n \in Int /\ p * n \in Int
    BY <1>1
  <2> QED BY <1>3, <2>2, <2>3
<1>5. p <= q
  BY <1>1, <1>4
<1> QED BY <1>5 DEF q

\* A page with a user on it is one of those the server has.
LEMMA PageOfUsers ==
    ASSUME NEW p \in Nat \ {0}, UsersOn(p) # {}
    PROVE  TotalPages \in Nat /\ p <= TotalPages
<1>1. PICK i \in Waiting : Before(i) \in (p - 1) * PerPage .. p * PerPage - 1
  BY DEF UsersOn
<1> DEFINE B == {j \in Waiting : j < i}
           W == Waiting \ {i}
           w == Cardinality(Waiting)
<1>2. IsFiniteSet(W) /\ Cardinality(W) = w - 1 /\ w \in Nat
  BY WaitingIs, FS_RemoveElement
<1>3. B \subseteq W
  BY AdminPagesAssumption DEF Waiting
<1>4. IsFiniteSet(B) /\ Cardinality(B) <= Cardinality(W)
  BY <1>2, <1>3, FS_Subset
<1>5. Cardinality(B) \in Nat /\ Before(i) = Cardinality(B)
  BY <1>4, FS_CardinalityType DEF Before
<1>6. (p - 1) * PerPage <= w - 1
  <2>1. (p - 1) * PerPage \in Int /\ (p - 1) * PerPage <= Before(i)
    BY <1>1, <1>5, AdminPagesAssumption
  <2> QED BY <1>2, <1>4, <1>5, <2>1
<1>7. p <= (w + PerPage - 1) \div PerPage
  BY <1>2, <1>6, PageArithmetic, AdminPagesAssumption
<1>8. (w + PerPage - 1) \div PerPage \in Int
  BY <1>2, AdminPagesAssumption
<1> QED BY <1>7, <1>8 DEF TotalPages

LEMMA TotalIs == TotalPages \in Nat
<1> DEFINE w == Cardinality(Waiting)
<1>1. w \in Nat /\ PerPage \in Nat \ {0}
  BY WaitingIs, AdminPagesAssumption
<1>2. w + PerPage - 1 \in Nat
  BY <1>1
<1>3. (w + PerPage - 1) \div PerPage \in Nat
  BY <1>1, <1>2, SMT
<1> QED BY <1>3 DEF TotalPages
-----------------------------------------------------------------------------
(* A page that has just been opened.                                       *)

Opened ==
    /\ pending \subseteq User
    /\ where \in {"index", "approve"} /\ boot = "sent" /\ adminPermission = {} /\ nav = {}
    /\ currentPage = 1 /\ load = [i \in Load |-> FreeLoad]
    /\ view = "spinner" /\ pager = [page |-> 0, total |-> 0] /\ shown = 0
    /\ table = {} /\ enabled = {} /\ hidden = {}
    /\ act = [k \in Act |-> FreeAct]
    /\ box = "hidden" /\ hides = 0
    /\ decided = {} /\ crossed = FALSE /\ overlapped = FALSE

LEMMA FreeTypes == FreeLoad \in LoadType /\ FreeAct \in ActType
<1>1. FreeLoad \in LoadType
  BY DEF FreeLoad, LoadType, At
<1>2. FreeAct \in ActType
  BY DEF FreeAct, ActType, At
<1> QED BY <1>1, <1>2

LEMMA OpenedInv == Opened => IInv
<1> SUFFICES ASSUME Opened PROVE IInv
  OBVIOUS
<1>1. /\ load \in [Load -> LoadType] /\ act \in [Act -> ActType]
  BY FreeTypes DEF Opened
<1>2. /\ \A i \in Load : load[i].at = "free"
      /\ \A k \in Act : act[k].at = "free"
  BY DEF Opened, FreeLoad, FreeAct
<1>3. Loading = {} /\ Acting = {}
  BY <1>2 DEF Loading, Acting
<1>4. PageType
  BY DEF Opened, PageType
<1>5. pager \in [page : Nat, total : Nat] /\ pager.page = 0 /\ pager.total = 0
  BY DEF Opened
<1>6. ListType
  BY <1>1, <1>3, <1>5 DEF Opened, ListType
<1>7. RowType
  BY DEF Opened, RowType
<1>8. Granted
  BY <1>3, <1>5 DEF Opened, Granted
<1>9. Listed /\ Told
  BY <1>2 DEF Listed, Told
<1>10. Disabled /\ Fresh
  BY <1>3 DEF Disabled, Fresh
<1>11. ShownAsDone
  <2>1. hidden = {} /\ box = "hidden"
    BY DEF Opened
  <2> QED BY <2>1 DEF ShownAsDone
<1>12. Single
  <2>1. /\ \A i, j \in Loading : i = j
        /\ \A i \in Loading : load[i].page = currentPage
        /\ table # {} => shown = currentPage
    BY <1>3 DEF Opened
  <2>2. /\ pager.page <= pager.total
        /\ pager.total > 0 => currentPage <= pager.total
        /\ pager.total = 0 => currentPage = 1
    BY <1>5 DEF Opened
  <2> QED BY <2>1, <2>2 DEF Single
<1> QED BY <1>1, <1>4, <1>6, <1>7, <1>8, <1>9, <1>10, <1>11, <1>12
        DEF IInv, Types, ActsType

LEMMA OpenInv ==
    ASSUME IInv, NEW page \in {"index", "approve"}, Open(page), pending' = pending
    PROVE  IInv'
<1>1. Opened'
  BY DEF IInv, Types, PageType, Open, Opened
<1>2. Opened' => IInv'
  BY OpenedInv, PTL
<1> QED BY <1>1, <1>2

LEMMA InitInv == Init => IInv
<1>1. Init => Opened
  BY DEF Init, Opened
<1> QED BY <1>1, OpenedInv
-----------------------------------------------------------------------------
(* What the steps do to the requests under way.                            *)

\* Rows are taken off the page: what a request was about no longer counts.
LEMMA Unfresh ==
    ASSUME Types, act' = [k \in Act |-> [act[k] EXCEPT !.fresh = FALSE]]
    PROVE  /\ ActsType' /\ Acting' = Acting
           /\ \A k \in Act : /\ act'[k].at = act[k].at /\ act'[k].user = act[k].user
                             /\ act'[k].ok = act[k].ok /\ act'[k].fresh = FALSE
<1>1. act \in [Act -> ActType]
  BY DEF Types, ActsType
<1>2. ASSUME NEW k \in Act
      PROVE  /\ act'[k] \in ActType
             /\ act'[k].at = act[k].at /\ act'[k].user = act[k].user /\ act'[k].ok = act[k].ok
             /\ act'[k].fresh = FALSE
  <2>1. act'[k] = [act[k] EXCEPT !.fresh = FALSE] /\ act[k] \in ActType
    BY <1>1
  <2> QED BY <2>1 DEF ActType
<1>3. act' \in [Act -> ActType]
  BY <1>2
<1>4. Acting' = Acting
  BY <1>2 DEF Acting
<1> QED BY <1>2, <1>3, <1>4 DEF ActsType

\* A request for a page is sent.
LEMMA LoadSent ==
    ASSUME Types, NEW i \in Load \ Loading, NEW page \in Nat,
           load' = [load EXCEPT ![i] = [FreeLoad EXCEPT !.at = "sent", !.page = page]]
    PROVE  /\ load' \in [Load -> LoadType]
           /\ load'[i].at = "sent" /\ load'[i].page = page
           /\ \A j \in Load \ {i} : load'[j] = load[j]
           /\ Loading' = Loading \cup {i}
<1>1. load \in [Load -> LoadType]
  BY DEF Types, ListType
<1>2. [FreeLoad EXCEPT !.at = "sent", !.page = page] =
        [at |-> "sent", page |-> page, users |-> {}, total |-> 0]
  <2>1. [FreeLoad EXCEPT !.at = "sent"] =
          [at |-> "sent", page |-> 0, users |-> {}, total |-> 0]
    BY DEF FreeLoad
  <2>2. [[at |-> "sent", page |-> 0, users |-> {}, total |-> 0] EXCEPT !.page = page] =
          [at |-> "sent", page |-> page, users |-> {}, total |-> 0]
    OBVIOUS
  <2> QED BY <2>1, <2>2
<1>3. [at |-> "sent", page |-> page, users |-> {}, total |-> 0] \in LoadType
  BY DEF LoadType, At
<1>4. load' = [load EXCEPT ![i] = [at |-> "sent", page |-> page, users |-> {}, total |-> 0]]
  BY <1>2
<1>5. load' \in [Load -> LoadType]
  BY <1>1, <1>3, <1>4
<1>6. load'[i] = [at |-> "sent", page |-> page, users |-> {}, total |-> 0]
  BY <1>1, <1>4
<1>7. \A j \in Load \ {i} : load'[j] = load[j]
  BY <1>1, <1>4
<1>8. load'[i].at = "sent" /\ load'[i].page = page
  BY <1>6
<1>9. Loading' = Loading \cup {i}
  BY <1>7, <1>8 DEF Loading
<1> QED BY <1>5, <1>7, <1>8, <1>9

\* A request is over.
LEMMA LoadOver ==
    ASSUME Types, NEW i \in Load, load' = [load EXCEPT ![i] = FreeLoad]
    PROVE  /\ load' \in [Load -> LoadType]
           /\ \A j \in Load \ {i} : load'[j] = load[j]
           /\ load'[i].at = "free"
           /\ Loading' = Loading \ {i}
<1>1. load \in [Load -> LoadType]
  BY DEF Types, ListType
<1>2. load' \in [Load -> LoadType] /\ load'[i] = FreeLoad /\ \A j \in Load \ {i} : load'[j] = load[j]
  BY <1>1, FreeTypes
<1>3. load'[i].at = "free"
  BY <1>2 DEF FreeLoad
<1>4. Loading' = Loading \ {i}
  BY <1>2, <1>3 DEF Loading
<1> QED BY <1>2, <1>3, <1>4

LEMMA ActOver ==
    ASSUME Types, NEW k \in Act, act' = [act EXCEPT ![k] = FreeAct]
    PROVE  /\ ActsType'
           /\ \A j \in Act \ {k} : act'[j] = act[j]
           /\ act'[k].at = "free"
           /\ Acting' = Acting \ {k}
<1>1. act \in [Act -> ActType]
  BY DEF Types, ActsType
<1>2. act' \in [Act -> ActType] /\ act'[k] = FreeAct /\ \A j \in Act \ {k} : act'[j] = act[j]
  BY <1>1, FreeTypes
<1>3. act'[k].at = "free"
  BY <1>2 DEF FreeAct
<1>4. Acting' = Acting \ {k}
  BY <1>2, <1>3 DEF Acting
<1> QED BY <1>2, <1>3, <1>4 DEF ActsType
-----------------------------------------------------------------------------
(* The steps.                                                              *)

\* All rows are taken off the page, or replaced.
LEMMA RowsGone ==
    ASSUME IInv, act' = [k \in Act |-> [act[k] EXCEPT !.fresh = FALSE]],
           overlapped' = (overlapped \/ Acting # {}), hidden' = {}, decided' = decided,
           box' = box, hides' = hides
    PROVE  /\ ActsType' /\ Acting' = Acting /\ Disabled' /\ Fresh' /\ Told'
           /\ ShownAsDone'
<1>1. /\ ActsType' /\ Acting' = Acting
      /\ \A k \in Act : /\ act'[k].at = act[k].at /\ act'[k].user = act[k].user
                        /\ act'[k].ok = act[k].ok /\ act'[k].fresh = FALSE
  BY Unfresh DEF IInv
<1>2. Disabled' /\ Fresh'
  BY <1>1 DEF Disabled, Fresh, Acting
<1>3. Told'
  BY <1>1 DEF IInv, Told
<1>4. ShownAsDone'
  BY DEF IInv, ShownAsDone
<1> QED BY <1>1, <1>2, <1>3, <1>4

LEMMA StartLoadInv ==
    ASSUME IInv, boot' = "ready", "APPROVE_USERS" \in adminPermission',
           where' \in {"index", "approve"}, adminPermission' \subseteq PERMISSION,
           nav' \subseteq PERMISSION, UNCHANGED <<pending, pager, message>>,
           NEW page \in Nat \ {0}, currentPage' = page, StartLoad(page),
           ~crossed => /\ pager.total > 0 => page <= pager.total
                       /\ pager.total = 0 => page = 1
    PROVE  IInv'
<1>1. PICK i \in Load \ Loading :
         load' = [load EXCEPT ![i] = [FreeLoad EXCEPT !.at = "sent", !.page = page]]
  BY DEF StartLoad
<1>2. /\ load' \in [Load -> LoadType]
      /\ load'[i].at = "sent" /\ load'[i].page = page
      /\ \A j \in Load \ {i} : load'[j] = load[j]
      /\ Loading' = Loading \cup {i}
  BY <1>1, LoadSent DEF IInv
<1>3. /\ view' = "spinner" /\ shown' = 0 /\ table' = {} /\ enabled' = {} /\ hidden' = {}
      /\ crossed' = (crossed \/ Loading # {}) /\ overlapped' = (overlapped \/ Acting # {})
      /\ act' = [k \in Act |-> [act[k] EXCEPT !.fresh = FALSE]]
      /\ pending' = pending /\ pager' = pager /\ box' = box /\ hides' = hides
      /\ decided' = decided
  BY DEF StartLoad, message
<1>4. /\ ActsType' /\ Acting' = Acting /\ Disabled' /\ Fresh' /\ Told'
      /\ ShownAsDone'
  BY <1>3, RowsGone
<1>5. PageType'
  BY <1>3 DEF IInv, Types, PageType
<1>6. ListType'
  <2>1. \A j \in Loading' : load'[j].page \in Nat \ {0}
    BY <1>2 DEF IInv, Types, ListType, Loading
  <2> QED BY <1>2, <1>3, <2>1 DEF IInv, Types, ListType
<1>7. RowType'
  BY <1>3 DEF RowType
<1>8. Granted'
  BY DEF Granted
<1>9. Listed'
  BY <1>2 DEF IInv, Listed
<1>10. Single'
  <2>1. SUFFICES ASSUME ~crossed' PROVE Single'
    BY DEF Single
  <2>2. ~crossed /\ Loading = {}
    BY <1>3, <2>1
  <2>3. Loading' = {i}
    BY <1>2, <2>2
  <2>4. /\ pager.page <= pager.total
        /\ pager.total > 0 => currentPage' <= pager.total
        /\ pager.total = 0 => currentPage' = 1
    BY <2>2 DEF IInv, Single
  <2> QED BY <1>2, <1>3, <2>3, <2>4 DEF Single
<1> QED BY <1>4, <1>5, <1>6, <1>7, <1>8, <1>9, <1>10 DEF IInv, Types

\* Nothing was asked for while the page's permission was not there.
LEMMA BootIs ==
    ASSUME IInv, boot # "ready"
    PROVE  /\ Loading = {} /\ Acting = {} /\ table = {} /\ enabled = {} /\ hidden = {}
           /\ pager.total = 0
<1>1. pager.total \in Nat
  BY DEF IInv, Types, ListType
<1>2. Loading = {} /\ Acting = {} /\ table = {} /\ ~(pager.total > 0)
  BY DEF IInv, Granted
<1> QED BY <1>1, <1>2 DEF IInv, Types, RowType

\* Steps that change neither requests nor rows nor what is shown of them.
LEMMA BootStep ==
    ASSUME IInv, PageType', view' \in {"spinner", "overview", "denied", "empty", "failed"}, boot # "ready",
           box' \in {box, "error"}, hides' = hides,
           UNCHANGED <<pending, list, pager, shown, crossed, rows, act, decided, overlapped>>
    PROVE  IInv'
<1>1. /\ Loading = {} /\ Acting = {} /\ table = {} /\ enabled = {} /\ hidden = {}
      /\ pager.total = 0
  BY BootIs
<1>2. /\ pending' = pending /\ currentPage' = currentPage /\ load' = load /\ pager' = pager
      /\ shown' = shown /\ crossed' = crossed /\ table' = table /\ enabled' = enabled
      /\ hidden' = hidden /\ act' = act /\ overlapped' = overlapped /\ decided' = decided
  BY DEF list, rows
<1>3. Loading' = Loading /\ Acting' = Acting
  BY <1>2 DEF Loading, Acting
<1>4. ListType' /\ ActsType'
  BY <1>2, <1>3 DEF IInv, Types, ListType, ActsType
<1>5. RowType'
  BY <1>1, <1>2 DEF IInv, Types, RowType
<1>6. Granted'
  BY <1>1, <1>2, <1>3 DEF Granted
<1>7. Listed' /\ Told' /\ ShownAsDone'
  BY <1>2 DEF IInv, Listed, Told, ShownAsDone
<1>8. Disabled' /\ Fresh'
  BY <1>1, <1>3 DEF Disabled, Fresh
<1>9. Single'
  BY <1>2, <1>3 DEF IInv, Single
<1> QED BY <1>4, <1>5, <1>6, <1>7, <1>8, <1>9 DEF IInv, Types

LEMMA BootHeadInv == ASSUME IInv, BootHead PROVE IInv'
<1>1. /\ boot = "sent" /\ boot' = "body"
      /\ UNCHANGED <<pending, where, adminPermission, nav, list, shows, rows, act, message, decided, overlapped>>
  BY DEF BootHead
<1>2. boot # "ready" /\ UNCHANGED <<view, pager, shown, crossed, box, hides>>
  BY <1>1 DEF shows, message
<1>3. PageType'
  BY <1>1, <1>2 DEF IInv, Types, PageType
<1>4. view' \in {"spinner", "overview", "denied", "empty", "failed"}
  BY <1>2, BootIs DEF IInv, Types, RowType
<1> QED BY <1>1, <1>2, <1>3, <1>4, BootStep

LEMMA BootErrorInv ==
    ASSUME IInv, boot \in {"sent", "body"}, PermissionError, adminPermission' = adminPermission
    PROVE  IInv'
<1>1. /\ boot' = "denied" /\ nav' = {} /\ view' = "denied" /\ box' = "error"
      /\ UNCHANGED <<pending, where, list, pager, shown, crossed, rows, act, hides, decided, overlapped>>
  BY DEF PermissionError
<1>2. PageType'
  BY <1>1 DEF IInv, Types, PageType
<1> QED BY <1>1, <1>2, BootStep

LEMMA BootDoneInv == ASSUME IInv, NEW granted \in Grants, BootDone(granted) PROVE IInv'
<1>1. boot = "body" /\ pending' = pending
  BY DEF BootDone
<1>2. CASE where = "approve" /\ ~HasPermission(granted, "APPROVE_USERS")
  <2>1. Open("index")
    BY <1>2 DEF BootDone
  <2> QED BY <1>1, <2>1, OpenInv
<1>3. CASE ~(where = "approve" /\ ~HasPermission(granted, "APPROVE_USERS"))
  <2>1. /\ adminPermission' = granted /\ boot' = "ready"
        /\ nav' = {flag \in PERMISSION : HasPermission(granted, flag)}
        /\ UNCHANGED <<where, currentPage, pager, message>>
    BY <1>3 DEF BootDone
  <2>2. /\ where' \in {"index", "approve"} /\ adminPermission' \subseteq PERMISSION
        /\ nav' \subseteq PERMISSION
    BY <2>1 DEF IInv, Types, PageType, Grants, PERMISSION
  <2>3. CASE where = "approve"
    <3>1. "APPROVE_USERS" \in adminPermission'
      BY <1>3, <2>1, <2>3 DEF HasPermission
    <3>2. StartLoad(currentPage)
      BY <1>3, <2>3 DEF BootDone
    <3>3. currentPage \in Nat \ {0} /\ currentPage' = currentPage
      BY <2>1 DEF IInv, Types, ListType
    <3>4. ~crossed => /\ pager.total > 0 => currentPage <= pager.total
                      /\ pager.total = 0 => currentPage = 1
      BY DEF IInv, Single
    <3>5. UNCHANGED <<pending, pager, message>>
      BY <1>1, <2>1
    <3> QED BY <2>1, <2>2, <3>1, <3>2, <3>3, <3>4, <3>5, StartLoadInv
  <2>4. CASE where # "approve"
    <3>1. /\ view' = "overview"
          /\ UNCHANGED <<load, shown, crossed, decided, overlapped, rows, act>>
      BY <1>3, <2>4 DEF BootDone
    <3>2. PageType'
      BY <1>1, <2>1, <2>2, <3>1 DEF IInv, Types, PageType, message
    <3>3. /\ UNCHANGED <<pending, list, pager, shown, crossed, rows, act, decided, overlapped>>
          /\ box' = box /\ hides' = hides
      BY <1>1, <2>1, <3>1 DEF list, message
    <3> QED BY <1>1, <3>1, <3>2, <3>3, BootStep
  <2> QED BY <2>3, <2>4
<1> QED BY <1>2, <1>3

\* A button of the pagination leads to a page there is.
LEMMA ButtonsAre ==
    ASSUME NEW n \in Nat, NEW total \in Nat \ {0}, NEW page \in Buttons(n, total)
    PROVE  page \in Nat \ {0} /\ (n <= total => page <= total)
<1>1. MaxButtons \div 2 \in Int
  BY AdminPagesAssumption
<1> DEFINE first == Greatest(1, n - MaxButtons \div 2)
           last  == Least(total, first + MaxButtons - 1)
<1>2. first \in Nat \ {0}
  BY <1>1 DEF Greatest
<1>3. last \in Int /\ last <= total
  BY <1>2, AdminPagesAssumption DEF Least
<1>4. page \in first .. last \/ (page = n - 1 /\ n > 1) \/ (page = n + 1 /\ n < total)
  BY DEF Buttons
<1> HIDE DEF first, last
<1> QED BY <1>2, <1>3, <1>4

LEMMA ChangePageInv ==
    ASSUME IInv, NEW page \in Buttons(pager.page, pager.total), ChangePage(page)
    PROVE  IInv'
<1>1. /\ boot = "ready" /\ pager.total > 0 /\ currentPage' = page /\ StartLoad(page)
      /\ UNCHANGED <<pending, rights, pager, message>>
  BY DEF ChangePage, GoTo
<1>2. pager.page \in Nat /\ pager.total \in Nat
  BY DEF IInv, Types, ListType
<1>3. page \in Nat \ {0} /\ (pager.page <= pager.total => page <= pager.total)
  BY <1>1, <1>2, ButtonsAre
<1>4. "APPROVE_USERS" \in adminPermission
  BY <1>1 DEF IInv, Granted
<1>5. where' = where /\ boot' = boot /\ adminPermission' = adminPermission /\ nav' = nav
  BY <1>1 DEF rights
<1>6. where \in {"index", "approve"} /\ adminPermission \subseteq PERMISSION /\ nav \subseteq PERMISSION
  BY DEF IInv, Types, PageType
<1>7. ~crossed => pager.page <= pager.total
  BY DEF IInv, Single
<1>8. ~crossed => /\ pager.total > 0 => page <= pager.total
                  /\ pager.total = 0 => page = 1
  BY <1>1, <1>2, <1>3, <1>7
<1>9. UNCHANGED <<pending, pager, message>>
  BY <1>1
<1> QED BY <1>1, <1>3, <1>4, <1>5, <1>6, <1>8, <1>9, StartLoadInv
-----------------------------------------------------------------------------
(* Answers to a request for the list.                                      *)

LEMMA Answered ==
    ASSUME NEW r \in LoadType, NEW users, NEW total
    PROVE  [r EXCEPT !.at = "body", !.users = users, !.total = total] =
             [at |-> "body", page |-> r.page, users |-> users, total |-> total]
<1>1. [r EXCEPT !.at = "body"] =
        [at |-> "body", page |-> r.page, users |-> r.users, total |-> r.total]
  BY DEF LoadType
<1>2. [[at |-> "body", page |-> r.page, users |-> r.users, total |-> r.total]
         EXCEPT !.users = users] =
        [at |-> "body", page |-> r.page, users |-> users, total |-> r.total]
  OBVIOUS
<1>3. [[at |-> "body", page |-> r.page, users |-> users, total |-> r.total]
         EXCEPT !.total = total] =
        [at |-> "body", page |-> r.page, users |-> users, total |-> total]
  OBVIOUS
<1> QED BY <1>1, <1>2, <1>3

LEMMA LoadHeadInv == ASSUME IInv, NEW i \in Load, LoadHead(i) PROVE IInv'
<1> DEFINE r == [at |-> "body", page |-> load[i].page, users |-> UsersOn(load[i].page),
                 total |-> TotalPages]
<1>1. /\ load[i].at = "sent"
      /\ UNCHANGED <<pending, rights, currentPage, shows, rows, act, message, decided, overlapped>>
  BY DEF LoadHead
<1>2. load \in [Load -> LoadType] /\ load[i] \in LoadType
  BY DEF IInv, Types, ListType
<1>3. load[i].page \in Nat \ {0} /\ i \in Loading
  BY <1>1 DEF IInv, Types, ListType, Loading
<1>4. r \in LoadType
  BY <1>3, UsersAre, TotalIs DEF LoadType, At
<1>5. load' = [load EXCEPT ![i] = r]
  <2>1. [load[i] EXCEPT !.at = "body", !.users = UsersOn(load[i].page), !.total = TotalPages] = r
    BY <1>2, Answered
  <2>2. load' = [load EXCEPT ![i] = [load[i] EXCEPT !.at = "body",
                                      !.users = UsersOn(load[i].page), !.total = TotalPages]]
    BY DEF LoadHead
  <2> QED BY <2>1, <2>2
<1>6. /\ r.at = "body" /\ r.page = load[i].page /\ r.users = UsersOn(load[i].page)
      /\ r.total = TotalPages
  OBVIOUS
<1> HIDE DEF r
<1>7. load' \in [Load -> LoadType] /\ load'[i] = r /\ \A j \in Load \ {i} : load'[j] = load[j]
  BY <1>2, <1>4, <1>5
<1>8. Loading' = Loading
  BY <1>1, <1>6, <1>7 DEF Loading
<1>9. \A j \in Load : load'[j].page = load[j].page
  BY <1>6, <1>7
<1>10. /\ pending' = pending /\ where' = where /\ boot' = boot /\ nav' = nav
       /\ adminPermission' = adminPermission /\ currentPage' = currentPage /\ view' = view
       /\ pager' = pager /\ shown' = shown /\ crossed' = crossed /\ table' = table
       /\ enabled' = enabled /\ hidden' = hidden /\ act' = act /\ box' = box
       /\ hides' = hides /\ decided' = decided /\ overlapped' = overlapped
  BY <1>1 DEF rights, shows, rows, message
<1>11. Acting' = Acting
  BY <1>10 DEF Acting
<1>12. PageType' /\ RowType' /\ ActsType'
  BY <1>10 DEF IInv, Types, PageType, RowType, ActsType
<1>13. ListType'
  <2>1. \A j \in Loading' : load'[j].page \in Nat \ {0}
    BY <1>8, <1>9 DEF IInv, Types, ListType, Loading
  <2> QED BY <1>7, <1>10, <2>1 DEF IInv, Types, ListType
<1>14. Granted'
  BY <1>8, <1>10, <1>11 DEF IInv, Granted
<1>15. Listed'
  <2>1. UsersOn(load[i].page) # {} => load[i].page <= TotalPages
    BY <1>3, PageOfUsers
  <2> QED BY <1>6, <1>7, <2>1 DEF IInv, Listed
<1>16. Disabled' /\ Fresh' /\ Told' /\ ShownAsDone'
  BY <1>10, <1>11 DEF IInv, Disabled, Fresh, Told, ShownAsDone
<1>17. Single'
  <2>1. \A j \in Loading : j \in Load
    BY DEF Loading
  <2> QED BY <1>8, <1>9, <1>10, <2>1 DEF IInv, Single
<1> QED BY <1>12, <1>13, <1>14, <1>15, <1>16, <1>17 DEF IInv, Types

LEMMA LoadDoneInv == ASSUME IInv, NEW i \in Load, LoadDone(i) PROVE IInv'
<1> DEFINE r == load[i]
<1>1. /\ r.at = "body" /\ load' = [load EXCEPT ![i] = FreeLoad]
      /\ view' = IF r.users = {} THEN "empty" ELSE "table"
      /\ table' = r.users /\ enabled' = r.users /\ hidden' = {}
      /\ shown' = IF r.users = {} THEN 0 ELSE r.page
      /\ pager' = IF r.users = {} THEN pager
                  ELSE IF r.total > 1 THEN [page |-> currentPage, total |-> r.total]
                  ELSE [page |-> 0, total |-> 0]
      /\ act' = [k \in Act |-> [act[k] EXCEPT !.fresh = FALSE]]
      /\ overlapped' = (overlapped \/ Acting # {})
      /\ UNCHANGED <<pending, rights, currentPage, crossed, message, decided>>
  BY DEF LoadDone
<1>2. i \in Loading
  BY <1>1 DEF Loading
<1>3. r \in LoadType /\ r.page \in Nat \ {0}
  BY <1>2 DEF IInv, Types, ListType
<1>4. r.users \subseteq User /\ r.total \in Nat
  BY <1>3 DEF LoadType
<1>5. r.users # {} => r.page <= r.total
  BY <1>1 DEF IInv, Listed
<1>6. currentPage \in Nat \ {0} /\ pager \in [page : Nat, total : Nat]
  BY DEF IInv, Types, ListType
<1>7. ~crossed => /\ currentPage = r.page /\ Loading = {i}
                  /\ pager.page <= pager.total
                  /\ pager.total > 0 => currentPage <= pager.total
                  /\ pager.total = 0 => currentPage = 1
  BY <1>2 DEF IInv, Single
<1>8. /\ load' \in [Load -> LoadType]
      /\ \A j \in Load \ {i} : load'[j] = load[j]
      /\ load'[i].at = "free"
      /\ Loading' = Loading \ {i}
  BY <1>1, LoadOver DEF IInv
<1> HIDE DEF r
<1>9. /\ pending' = pending /\ where' = where /\ boot' = boot /\ nav' = nav
      /\ adminPermission' = adminPermission /\ currentPage' = currentPage
      /\ crossed' = crossed /\ box' = box /\ hides' = hides /\ decided' = decided
  BY <1>1 DEF rights, message
<1>10. /\ ActsType' /\ Acting' = Acting /\ Disabled' /\ Fresh' /\ Told'
       /\ ShownAsDone'
  BY <1>1, <1>9, RowsGone
<1>11. boot = "ready" /\ "APPROVE_USERS" \in adminPermission
  BY <1>2 DEF IInv, Granted
<1>12. PageType'
  BY <1>1, <1>9 DEF IInv, Types, PageType
<1>13. pager' \in [page : Nat, total : Nat]
  BY <1>1, <1>4, <1>6
<1>14. ListType'
  <2>1. \A j \in Loading' : load'[j].page \in Nat \ {0}
    BY <1>8 DEF IInv, Types, ListType, Loading
  <2> QED BY <1>8, <1>9, <1>13, <2>1 DEF IInv, Types, ListType
<1>15. RowType'
  <2>1. CASE r.users = {}
    BY <1>1, <2>1 DEF RowType
  <2>2. CASE r.users # {}
    BY <1>1, <1>3, <1>4, <2>2 DEF RowType
  <2> QED BY <2>1, <2>2
<1>16. Granted'
  BY <1>9, <1>11 DEF Granted
<1>17. Listed'
  BY <1>8 DEF IInv, Listed
<1>18. Single'
  <2>1. SUFFICES ASSUME ~crossed PROVE Single'
    BY <1>9 DEF Single
  <2>2. Loading' = {} /\ currentPage' = r.page /\ r.page = currentPage
    BY <1>7, <1>8, <1>9, <2>1
  <2>3. table' # {} => shown' = currentPage'
    BY <1>1, <2>2
  <2>4. /\ pager'.page <= pager'.total
        /\ pager'.total > 0 => currentPage' <= pager'.total
        /\ pager'.total = 0 => currentPage' = 1
    <3>1. CASE r.users = {}
      <4>1. pager' = pager /\ currentPage' = currentPage
        BY <1>1, <2>2, <3>1
      <4> QED BY <1>7, <2>1, <4>1
    <3>2. CASE r.users # {} /\ r.total > 1
      <4>1. pager' = [page |-> currentPage, total |-> r.total]
        BY <1>1, <3>2
      <4> QED BY <1>3, <1>4, <1>5, <2>2, <3>2, <4>1
    <3>3. CASE r.users # {} /\ ~(r.total > 1)
      <4>1. pager' = [page |-> 0, total |-> 0]
        BY <1>1, <3>3
      <4>2. r.page = 1
        BY <1>3, <1>4, <1>5, <3>3
      <4> QED BY <2>2, <4>1, <4>2
    <3> QED BY <3>1, <3>2, <3>3
  <2> QED BY <2>2, <2>3, <2>4 DEF Single
<1> QED BY <1>10, <1>12, <1>14, <1>15, <1>16, <1>17, <1>18 DEF IInv, Types

LEMMA LoadFailedInv == ASSUME IInv, NEW i \in Loading, LoadFailed(i) PROVE IInv'
<1>1. /\ load' = [load EXCEPT ![i] = FreeLoad] /\ view' = "failed" /\ shown' = 0
      /\ table' = {} /\ enabled' = {} /\ hidden' = {}
      /\ act' = [k \in Act |-> [act[k] EXCEPT !.fresh = FALSE]]
      /\ overlapped' = (overlapped \/ Acting # {})
      /\ UNCHANGED <<pending, rights, currentPage, pager, crossed, message, decided>>
  BY DEF LoadFailed
<1>2. i \in Load
  BY DEF Loading
<1>3. /\ load' \in [Load -> LoadType]
      /\ \A j \in Load \ {i} : load'[j] = load[j]
      /\ load'[i].at = "free"
      /\ Loading' = Loading \ {i}
  BY <1>1, <1>2, LoadOver DEF IInv
<1>4. /\ pending' = pending /\ where' = where /\ boot' = boot /\ nav' = nav
      /\ adminPermission' = adminPermission /\ currentPage' = currentPage
      /\ crossed' = crossed /\ box' = box /\ hides' = hides /\ pager' = pager
      /\ decided' = decided
  BY <1>1 DEF rights, message
<1>5. /\ ActsType' /\ Acting' = Acting /\ Disabled' /\ Fresh' /\ Told'
      /\ ShownAsDone'
  BY <1>1, <1>4, RowsGone
<1>6. PageType'
  BY <1>1, <1>4 DEF IInv, Types, PageType
<1>7. ListType'
  <2>1. \A j \in Loading' : load'[j].page \in Nat \ {0}
    BY <1>3 DEF IInv, Types, ListType, Loading
  <2> QED BY <1>3, <1>4, <2>1 DEF IInv, Types, ListType
<1>8. RowType'
  BY <1>1 DEF RowType
<1>9. Granted'
  BY <1>4 DEF IInv, Granted
<1>10. Listed'
  BY <1>3 DEF IInv, Listed
<1>11. Single'
  <2>1. \A j \in Loading' : j \in Loading /\ load'[j] = load[j]
    BY <1>3 DEF Loading
  <2> QED BY <1>1, <1>4, <2>1 DEF IInv, Single
<1> QED BY <1>5, <1>6, <1>7, <1>8, <1>9, <1>10, <1>11 DEF IInv, Types
-----------------------------------------------------------------------------
(* Approvals and rejections.                                               *)

\* Steps of a request about a user change nothing of the list.
LEMMA ListKept ==
    ASSUME IInv, UNCHANGED <<rights, list, view, pager, shown, crossed, table>>
    PROVE  /\ Loading' = Loading /\ ListType' /\ Listed' /\ Single'
           /\ boot' = boot /\ adminPermission' = adminPermission
<1>1. /\ where' = where /\ boot' = boot /\ nav' = nav /\ adminPermission' = adminPermission
      /\ currentPage' = currentPage /\ load' = load /\ pager' = pager
      /\ shown' = shown /\ crossed' = crossed /\ table' = table
  BY DEF rights, list
<1>2. Loading' = Loading
  BY <1>1 DEF Loading
<1>3. ListType' /\ Listed' /\ Single'
  BY <1>1, <1>2 DEF IInv, Types, ListType, Listed, Single
<1> QED BY <1>1, <1>2, <1>3

LEMMA PressInv == ASSUME IInv, NEW u \in User, Press(u) PROVE IInv'
<1> DEFINE r == [at |-> "sent", user |-> u, ok |-> FALSE, fresh |-> TRUE]
<1>1. PICK k \in Act \ Acting : act' = [act EXCEPT ![k] = r]
  BY DEF Press
<1>2. /\ u \in table /\ u \in enabled /\ u \notin hidden /\ enabled' = enabled \ {u}
      /\ UNCHANGED <<pending, rights, list, shows, table, hidden, message, decided, overlapped>>
  BY DEF Press
<1>3. r \in ActType /\ r.at = "sent" /\ r.user = u
  BY DEF ActType, At
<1> HIDE DEF r
<1>4. act' \in [Act -> ActType] /\ act'[k] = r /\ \A j \in Act \ {k} : act'[j] = act[j]
  BY <1>1, <1>3 DEF IInv, Types, ActsType
<1>5. Acting' = Acting \cup {k}
  BY <1>3, <1>4 DEF Acting
<1>6. UNCHANGED <<view, pager, shown, crossed, box, hides>>
  BY <1>2 DEF shows, message
<1>7. /\ Loading' = Loading /\ ListType' /\ Listed' /\ Single'
      /\ boot' = boot /\ adminPermission' = adminPermission
  BY <1>2, <1>6, ListKept
<1>8. PageType'
  BY <1>2, <1>6 DEF IInv, Types, PageType, rights
<1>9. RowType' /\ ActsType'
  BY <1>2, <1>4, <1>6 DEF IInv, Types, RowType, ActsType
<1>10. Granted'
  BY <1>2, <1>7 DEF IInv, Granted
<1>11. Disabled'
  <2>1. SUFFICES ASSUME ~overlapped PROVE Disabled'
    BY <1>2 DEF Disabled
  <2>2. \A j \in Acting : act[j].user \notin enabled /\ act'[j] = act[j] /\ j # k
    BY <1>4, <2>1 DEF IInv, Disabled, Acting
  <2>3. \A i, j \in Acting : act[i].user = act[j].user => i = j
    BY <2>1 DEF IInv, Disabled
  <2>4. \A j \in Acting : act'[j].user # u
    BY <1>2, <2>2
  <2>5. act'[k].user = u /\ u \notin enabled'
    BY <1>2, <1>3, <1>4
  <2> QED BY <1>2, <1>5, <2>2, <2>3, <2>4, <2>5 DEF Disabled
<1>12. Told' /\ Fresh'
  <2>1. Told'
    BY <1>2, <1>3, <1>4 DEF IInv, Told
  <2>2. \A j \in Acting : act'[j] = act[j]
    BY <1>4 DEF Acting
  <2>3. Fresh'
    BY <1>2, <1>3, <1>4, <1>5, <2>2 DEF IInv, Fresh
  <2> QED BY <2>1, <2>3
<1>13. ShownAsDone'
  BY <1>2, <1>6 DEF IInv, ShownAsDone
<1> QED BY <1>7, <1>8, <1>9, <1>10, <1>11, <1>12, <1>13 DEF IInv, Types

LEMMA ActHeadInv == ASSUME IInv, NEW k \in Act, ActHead(k) PROVE IInv'
<1>1. PICK ok \in BOOLEAN :
         /\ ok => act[k].user \in pending
         /\ pending' = pending \ {u \in {act[k].user} : ok}
         /\ decided' = decided \cup {u \in {act[k].user} : ok}
         /\ act' = [act EXCEPT ![k] = [act[k] EXCEPT !.at = "body", !.ok = ok]]
  BY DEF ActHead
<1>2. /\ act[k].at = "sent" /\ UNCHANGED <<rights, list, shows, rows, message, overlapped>>
  BY DEF ActHead
<1>3. act \in [Act -> ActType] /\ act[k] \in ActType
  BY DEF IInv, Types, ActsType
<1> DEFINE r == [at |-> "body", user |-> act[k].user, ok |-> ok, fresh |-> act[k].fresh]
<1>4. [act[k] EXCEPT !.at = "body", !.ok = ok] = r
  <2>1. [act[k] EXCEPT !.at = "body"] =
          [at |-> "body", user |-> act[k].user, ok |-> act[k].ok, fresh |-> act[k].fresh]
    BY <1>3 DEF ActType
  <2>2. [[at |-> "body", user |-> act[k].user, ok |-> act[k].ok, fresh |-> act[k].fresh]
           EXCEPT !.ok = ok] = r
    OBVIOUS
  <2> QED BY <2>1, <2>2
<1>5. /\ r \in ActType /\ r.at = "body" /\ r.user = act[k].user /\ r.ok = ok
      /\ r.fresh = act[k].fresh
  BY <1>3 DEF ActType, At
<1>6. act' = [act EXCEPT ![k] = r]
  BY <1>1, <1>4
<1> HIDE DEF r
<1>7. act' \in [Act -> ActType] /\ act'[k] = r /\ \A j \in Act \ {k} : act'[j] = act[j]
  BY <1>3, <1>5, <1>6
<1>8. /\ Acting' = Acting
      /\ \A j \in Act : act'[j].user = act[j].user /\ act'[j].fresh = act[j].fresh
  BY <1>2, <1>5, <1>7 DEF Acting
<1>9. /\ pending' \subseteq pending /\ decided \subseteq decided'
      /\ decided' \subseteq decided \cup pending /\ (ok => act[k].user \in decided')
  BY <1>1
<1>10. /\ UNCHANGED <<view, pager, shown, crossed, box, hides, table, enabled, hidden>>
  BY <1>2 DEF shows, message, rows
<1>11. /\ Loading' = Loading /\ ListType' /\ Listed' /\ Single'
       /\ boot' = boot /\ adminPermission' = adminPermission
  BY <1>2, <1>10, ListKept
<1>12. PageType'
  BY <1>2, <1>9, <1>10 DEF IInv, Types, PageType, rights
<1>13. RowType' /\ ActsType'
  BY <1>7, <1>10 DEF IInv, Types, RowType, ActsType
<1>14. Granted'
  BY <1>8, <1>10, <1>11 DEF IInv, Granted
<1>15. Disabled' /\ Fresh'
  <2>1. \A j \in Acting : j \in Act
    BY DEF Acting
  <2> QED BY <1>2, <1>8, <1>10, <2>1 DEF IInv, Disabled, Fresh
<1>16. Told'
  BY <1>5, <1>7, <1>9 DEF IInv, Told
<1>17. ShownAsDone'
  BY <1>9, <1>10 DEF IInv, ShownAsDone
<1> QED BY <1>11, <1>12, <1>13, <1>14, <1>15, <1>16, <1>17 DEF IInv, Types

\* Messages go or stay, and users start and stop to wait unasked.
LEMMA MessageInv ==
    ASSUME IInv, box' \in {"hidden", "success", "error"}, hides' \in Nat,
           box' = "success" => box = "success" /\ hides' = hides,
           pending' \subseteq User,
           UNCHANGED <<rights, list, view, pager, shown, crossed, table, enabled, hidden,
                       act, decided, overlapped>>
    PROVE  IInv'
<1>1. /\ Loading' = Loading /\ ListType' /\ Listed' /\ Single'
      /\ boot' = boot /\ adminPermission' = adminPermission
  BY ListKept
<1>2. Acting' = Acting
  BY DEF Acting
<1>3. PageType' /\ RowType' /\ ActsType'
  BY DEF IInv, Types, PageType, RowType, ActsType, rights
<1>4. Granted' /\ Disabled' /\ Fresh'
  BY <1>1, <1>2 DEF IInv, Granted, Disabled, Fresh
<1>5. Told' /\ ShownAsDone'
  BY DEF IInv, Told, ShownAsDone
<1> QED BY <1>1, <1>3, <1>4, <1>5 DEF IInv, Types

LEMMA KeptInv ==
    ASSUME IInv, pending' \subseteq User,
           UNCHANGED <<rights, list, shows, rows, act, message, decided, overlapped>>
    PROVE  IInv'
<1>1. UNCHANGED <<view, pager, shown, crossed, table, enabled, hidden, box, hides>>
  BY DEF shows, rows, message
<1>2. box' \in {"hidden", "success", "error"} /\ hides' \in Nat
  BY <1>1 DEF IInv, Types, PageType
<1>3. box' = box /\ hides' = hides
  BY <1>1
<1> QED BY <1>1, <1>2, <1>3, MessageInv

\* A request is over, with a row hidden or with buttons enabled again.
LEMMA ActEnds ==
    ASSUME IInv, NEW k \in Acting, act' = [act EXCEPT ![k] = FreeAct],
           UNCHANGED <<pending, rights, list, shows, table, decided, overlapped>>,
           box' \in {"hidden", "success", "error"}, hides' \in Nat,
           enabled' \subseteq enabled \cup ({act[k].user} \cap table),
           hidden' \subseteq table, hidden' \subseteq decided,
           box' = "success" => decided # {} /\ hides' > 0
    PROVE  IInv'
<1>1. k \in Act
  BY DEF Acting
<1>2. /\ ActsType'
      /\ \A j \in Act \ {k} : act'[j] = act[j]
      /\ act'[k].at = "free"
      /\ Acting' = Acting \ {k}
  BY <1>1, ActOver DEF IInv
<1>3. UNCHANGED <<view, pager, shown, crossed>>
  BY DEF shows
<1>4. /\ Loading' = Loading /\ ListType' /\ Listed' /\ Single'
      /\ boot' = boot /\ adminPermission' = adminPermission
  BY <1>3, ListKept
<1>5. PageType'
  BY <1>3 DEF IInv, Types, PageType, rights
<1>6. RowType'
  BY <1>3 DEF IInv, Types, RowType
<1>7. Granted'
  BY <1>2, <1>4 DEF IInv, Granted
<1>8. Disabled'
  <2>1. SUFFICES ASSUME ~overlapped PROVE Disabled'
    BY DEF Disabled
  <2>2. \A j \in Acting' : j \in Acting /\ j # k /\ act'[j] = act[j]
    BY <1>2 DEF Acting
  <2>3. \A i, j \in Acting : act[i].user = act[j].user => i = j
    BY <2>1 DEF IInv, Disabled
  <2>4. \A j \in Acting : act[j].user \notin enabled
    BY <2>1 DEF IInv, Disabled
  <2>5. \A j \in Acting' : act'[j].user \notin enabled' /\ act'[j].user = act[j].user
    BY <2>2, <2>3, <2>4
  <2>6. \A i, j \in Acting' : act'[i].user = act'[j].user => i = j
    BY <2>2, <2>3, <2>5
  <2> QED BY <2>5, <2>6 DEF Disabled
<1>9. Told' /\ Fresh'
  <2>1. \A j \in Acting' : j \in Acting /\ act'[j] = act[j]
    BY <1>2 DEF Acting
  <2> QED BY <1>2, <2>1 DEF IInv, Told, Fresh
<1>10. ShownAsDone'
  BY DEF ShownAsDone
<1> QED BY <1>2, <1>4, <1>5, <1>6, <1>7, <1>8, <1>9, <1>10 DEF IInv, Types

LEMMA FailedInv == ASSUME IInv, NEW k \in Acting, Failed(k) PROVE IInv'
<1>1. /\ box' = "error" /\ enabled' = enabled \cup ({act[k].user} \cap table)
      /\ act' = [act EXCEPT ![k] = FreeAct]
      /\ UNCHANGED <<table, hidden, pending, rights, list, shows, hides, decided, overlapped>>
  BY DEF Failed
<1>2. hides' \in Nat
  BY <1>1 DEF IInv, Types, PageType
<1>3. hidden' \subseteq table /\ hidden' \subseteq decided
  BY <1>1 DEF IInv, Types, RowType, ShownAsDone
<1> QED BY <1>1, <1>2, <1>3, ActEnds

LEMMA ActDoneInv == ASSUME IInv, NEW k \in Act, ActDone(k) PROVE IInv'
<1>1. act[k].at = "body" /\ k \in Acting
  BY DEF ActDone, Acting
<1>2. CASE ~Succeeded(k)
  BY <1>1, <1>2, FailedInv DEF ActDone
<1>3. CASE Succeeded(k)
  <2>1. /\ box' = "success" /\ hides' = hides + 1
        /\ hidden' = hidden \cup {u \in {act[k].user} : act[k].fresh}
        /\ act' = [act EXCEPT ![k] = FreeAct]
        /\ UNCHANGED <<pending, rights, list, shows, table, enabled, decided, overlapped>>
    BY <1>3 DEF ActDone
  <2>2. act[k].user \in decided
    BY <1>1, <1>3 DEF IInv, Told, Succeeded
  <2>3. act[k].fresh => act[k].user \in table
    BY <1>1 DEF IInv, Fresh
  <2>4. hidden' \subseteq table /\ hidden' \subseteq decided
    BY <2>1, <2>2, <2>3 DEF IInv, Types, RowType, ShownAsDone
  <2>5. hides' \in Nat /\ hides' > 0
    BY <2>1 DEF IInv, Types, PageType
  <2> QED BY <1>1, <2>1, <2>2, <2>4, <2>5, ActEnds
<1> QED BY <1>2, <1>3
-----------------------------------------------------------------------------
(* The theorems.                                                           *)

LEMMA StepInv == ASSUME IInv, [Next]_vars PROVE IInv'
<1>1. ASSUME NEW page \in {"index", "approve"}, Visit(page) PROVE IInv'
  BY <1>1, OpenInv DEF Visit
<1>2. ASSUME BootHead PROVE IInv'
  BY <1>2, BootHeadInv
<1>3. ASSUME BootFails \/ BootRejected PROVE IInv'
  <2>1. boot \in {"sent", "body"} /\ PermissionError /\ adminPermission' = adminPermission
    BY <1>3 DEF BootFails, BootRejected
  <2> QED BY <2>1, BootErrorInv
<1>4. ASSUME NEW granted \in Grants, BootDone(granted) PROVE IInv'
  BY <1>4, BootDoneInv
<1>5. ASSUME NEW i \in Load, LoadHead(i) \/ LoadDone(i) \/ LoadFails(i) \/ LoadBreaks(i)
      PROVE  IInv'
  <2>1. CASE LoadFails(i) \/ LoadBreaks(i)
    <3>1. i \in Loading /\ LoadFailed(i)
      BY <2>1 DEF LoadFails, LoadBreaks, Loading
    <3> QED BY <3>1, LoadFailedInv
  <2> QED BY <1>5, <2>1, LoadHeadInv, LoadDoneInv
<1>6. ASSUME NEW page \in Buttons(pager.page, pager.total), ChangePage(page) PROVE IInv'
  BY <1>6, ChangePageInv
<1>7. ASSUME NEW k \in Act, ActHead(k) \/ ActDone(k) \/ ActFails(k) \/ ActBreaks(k)
      PROVE  IInv'
  <2>1. CASE ActFails(k) \/ ActBreaks(k)
    <3>1. k \in Acting /\ Failed(k)
      BY <2>1 DEF ActFails, ActBreaks, Acting
    <3> QED BY <3>1, FailedInv
  <2> QED BY <1>7, <2>1, ActHeadInv, ActDoneInv
<1>8. ASSUME NEW u \in User, Press(u) PROVE IInv'
  BY <1>8, PressInv
<1>9. ASSUME NEW u \in User, SignsUp(u) \/ Gone(u) PROVE IInv'
  <2>1. /\ pending' \subseteq User
        /\ UNCHANGED <<rights, list, shows, rows, act, message, decided, overlapped>>
    BY <1>9 DEF SignsUp, Gone, IInv, Types, PageType
  <2> QED BY <2>1, KeptInv
<1>10. ASSUME HideError PROVE IInv'
  <2>1. /\ hides' \in Nat /\ box' = "hidden" /\ pending' = pending
        /\ UNCHANGED <<rights, list, shows, rows, act, decided, overlapped>>
    BY <1>10 DEF HideError, IInv, Types, PageType
  <2>2. /\ UNCHANGED <<view, pager, shown, crossed, table, enabled, hidden>>
        /\ pending' \subseteq User
    BY <2>1 DEF shows, rows, IInv, Types, PageType
  <2> QED BY <2>1, <2>2, MessageInv
<1>11. CASE UNCHANGED vars
  <2>1. /\ pending' \subseteq User
        /\ UNCHANGED <<rights, list, shows, rows, act, message, decided, overlapped>>
    BY <1>11 DEF vars, IInv, Types, PageType
  <2> QED BY <2>1, KeptInv
<1> QED BY <1>1, <1>2, <1>3, <1>4, <1>5, <1>6, <1>7, <1>8, <1>9, <1>10, <1>11 DEF Next

\* The inductive invariant holds in every reachable state.
THEOREM Invariance == Spec => []IInv
BY InitInv, StepInv, PTL DEF Spec

\* Every variable has its type, and only rows on the page have buttons.
THEOREM TypeCorrect == Spec => []TypeOK
<1>1. IInv => TypeOK
  BY PropertiesHold
<1> QED BY <1>1, Invariance, PTL

\* The page asks for users, shows and changes them only after the server has
\* granted it the permission to.
THEOREM PermissionComesFirst == Spec => []PermissionFirst
<1>1. IInv => PermissionFirst
  BY PropertiesHold
<1> QED BY <1>1, Invariance, PTL

\* Unless the list was loaded again in between, one user is never the subject
\* of two requests at once.
THEOREM NoRequestTwice == Spec => []OneRequestPerUser
<1>1. IInv => OneRequestPerUser
  BY PropertiesHold
<1> QED BY <1>1, Invariance, PTL

\* What the page shows as done the server did: a row is taken away only for a
\* user whose request it carried out, and a success is announced only after one,
\* with a timer running that will take the message away.
THEOREM DoneIsDone == Spec => []ShownAsDone
<1>1. IInv => ShownAsDone
  BY PropertiesHold
<1> QED BY <1>1, Invariance, PTL

\* The list shown is that of currentPage, unless two loads were under way at
\* once.
THEOREM ShowsCurrentPage == Spec => []ShownPage
<1>1. IInv => ShownPage
  BY PropertiesHold
<1> QED BY <1>1, Invariance, PTL

\* Clicking never leads beyond the pages the answer shown before told of,
\* unless two loads were under way at once.
THEOREM LeadsToPages == Spec => []PageExists
<1>1. IInv => PageExists
  BY PropertiesHold
<1> QED BY <1>1, Invariance, PTL
=============================================================================
