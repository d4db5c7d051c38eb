---------------------------- MODULE UserListing ----------------------------
(***************************************************************************)
(* GET /api/v1/users: a client walks through the pages of the user list    *)
(* while users register and are deactivated.                               *)
(*                                                                         *)
(* A page takes two statements under READ COMMITTED, each on the table as  *)
(* it finds it: the items, ordered by registered_at DESC, id with OFFSET   *)
(* and LIMIT, and the count.  registered_at is stamped before the commit,  *)
(* so that a user may enter the list at any place of it.                   *)
(*                                                                         *)
(*   idle -> asking -> running -> answered -> asking ... -> over           *)
(*                                                                         *)
(* A walk starts at offset 0 and goes on while has_next, by the limit or   *)
(* by the number of items it got.                                          *)
(*                                                                         *)
(* SliceInclusive, CountFirst, ... stand before the definition they are    *)
(* faulty variants of; they only test that the properties notice them.     *)
(***************************************************************************)
EXTENDS Integers, Sequences, FiniteSets, FiniteSetsExt, SequencesExt

CONSTANTS
    Users,        \* the users by their ids, which are numbers here
    Stamp,        \* Stamp[u]: registered_at
    Offsets,      \* what clients may ask for, the impossible included
    Limits,
    MaxPageSize,  \* MAX_PAGE_SIZE
    MaxFaults     \* bound: statements that fail

ASSUME UsersAssumption == Users \subseteq Nat /\ IsFiniteSet(Users)

ASSUME StampAssumption == Stamp \in [Users -> Nat]

ASSUME LimitsAssumption == /\ Offsets \subseteq Int /\ 0 \in Offsets
                           /\ Limits \subseteq Int
                           /\ MaxPageSize \in Nat \ {0}
                           /\ MaxFaults \in Nat

VARIABLES
    active,       \* the active users in the table
    deactivated,  \* the deactivated ones
    pc,           \* where the client and its request are
    walking,      \* whether the client walks, or wants a single page
    offset,       \* the page it asks for
    limit,
    todo,         \* the statements that its request has still to run
    page,         \* what they have returned
    seen,         \* seen[u]: how often the client has been shown u
    present,      \* history: the users in the table when it began
    faults        \* statements that failed so far

vars == <<active, deactivated, pc, walking, offset, limit, todo, page, seen,
          present, faults>>

table == <<active, deactivated>>
walk == <<walking, limit, present>>

Rows == active \cup deactivated

NoPage == [items |-> <<>>, total |-> 0]

Init == /\ active \in SUBSET Users
        /\ deactivated = {}
        /\ pc = "idle"
        /\ walking = FALSE
        /\ offset = 0
        /\ limit = 1
        /\ todo = <<>>
        /\ page = NoPage
        /\ seen = [u \in Users |-> 0]
        /\ present = {}
        /\ faults = 0

(* Other requests commit: a registration, wherever its stamp puts it, or a *)
(* deactivation, which keeps the row.                                      *)
Register(u) ==
    /\ u \notin Rows
    /\ active' = active \cup {u}
    /\ UNCHANGED <<deactivated, pc, offset, todo, page, seen, walk, faults>>

Deactivate(u) ==
    /\ u \in active
    /\ active' = active \ {u}
    /\ deactivated' = deactivated \cup {u}
    /\ UNCHANGED <<pc, offset, todo, page, seen, walk, faults>>
-----------------------------------------------------------------------------
(* ORDER BY registered_at DESC, id.                                        *)
Precedes(u, v) == Stamp[u] > Stamp[v] \/ (Stamp[u] = Stamp[v] /\ u < v)

(* FROM users, without a WHERE.                                            *)
Listed == Rows

(* The orders in which the rows may come, as far as ORDER BY says.         *)
Orders == {s \in SetToSeqs(Listed) :
             \A i, j \in DOMAIN s : i < j => ~Precedes(s[j], s[i])}

SliceInclusive(s) == SubSeq(s, offset + 1, Min({offset + limit + 1, Len(s)}))

(* OFFSET and LIMIT.                                                       *)
Slice(s) == SubSeq(s, offset + 1, Min({offset + limit, Len(s)}))

CountFirst == <<"count", "items">>

(* The statements of list_page.                                            *)
Statements == <<"items", "count">>

HasNextAtEnd == offset + Len(page.items) <= page.total

HasNextIfFull == Len(page.items) = limit

(* Page.has_next.                                                          *)
HasNext == offset + Len(page.items) < page.total

(* The bounds of the query parameters, and ListUsersQuery.validate.        *)
FailsSchema == offset < 0 \/ limit < 1 \/ limit > MaxPageSize

FailsValidation == offset < 0 \/ limit \notin 1..MaxPageSize
-----------------------------------------------------------------------------
(* The client asks for a page, or for the first page of a walk.            *)
Ask(o, l, walks) ==
    /\ pc = "idle"
    /\ walks => o = 0
    /\ pc' = "asking"
    /\ offset' = o
    /\ limit' = l
    /\ walking' = walks
    /\ present' = Rows
    /\ UNCHANGED <<table, todo, page, seen, faults>>

(* 422, by the schema or by the validation behavior.                       *)
Reject == /\ pc = "asking"
          /\ FailsSchema \/ FailsValidation
          /\ pc' = "refused"
          /\ UNCHANGED <<table, offset, todo, page, seen, walk, faults>>

Admit == /\ pc = "asking"
         /\ ~FailsSchema /\ ~FailsValidation
         /\ pc' = "running"
         /\ todo' = Statements
         /\ page' = NoPage
         /\ UNCHANGED <<table, offset, seen, walk, faults>>

SelectItems == \E s \in Orders : page' = [page EXCEPT !.items = Slice(s)]

SelectCount == page' = [page EXCEPT !.total = Cardinality(Listed)]

(* The next statement; after the last one, the page is on its way.         *)
Execute == /\ pc = "running"
           /\ IF Head(todo) = "items" THEN SelectItems ELSE SelectCount
           /\ todo' = Tail(todo)
           /\ pc' = IF Len(todo) = 1 THEN "answered" ELSE "running"
           /\ UNCHANGED <<table, offset, seen, walk, faults>>

(* A statement raises: the unit of work rolls back, the answer is 500, and *)
(* the client asks for the same page again.                                *)
Fail == /\ pc = "running"
        /\ faults < MaxFaults
        /\ faults' = faults + 1
        /\ todo' = <<>>
        /\ pc' = "asking"
        /\ UNCHANGED <<table, offset, page, seen, walk>>

(* The client takes the items.                                             *)
Look == seen' = [u \in Users |-> IF Contains(page.items, u) THEN seen[u] + 1 ELSE seen[u]]

Continue(step) == /\ pc = "answered"
                  /\ walking /\ HasNext
                  /\ Look
                  /\ pc' = "asking"
                  /\ offset' = offset + step
                  /\ UNCHANGED <<table, todo, page, walk, faults>>

Finish == /\ pc = "answered"
          /\ ~(walking /\ HasNext)
          /\ Look
          /\ pc' = "over"
          /\ UNCHANGED <<table, offset, todo, page, walk, faults>>

Step == \/ Reject \/ Admit \/ Execute
        \/ Continue(limit) \/ Continue(Len(page.items)) \/ Finish

Over == pc \in {"refused", "over"} /\ UNCHANGED vars

Next == \/ \E u \in Users : Register(u) \/ Deactivate(u)
        \/ \E o \in Offsets, l \in Limits, walks \in BOOLEAN : Ask(o, l, walks)
        \/ Step
        \/ Fail
        \/ Over

(* A request that was sent is answered, and a walk goes on; nobody is      *)
(* obliged to register, and MaxFaults bounds the failures.                 *)
Fairness == WF_vars(Step)

Spec == Init /\ [][Next]_vars

FairSpec == Spec /\ Fairness
-----------------------------------------------------------------------------
(* The domains of the variables; a request that reaches the database is    *)
(* within its bounds, and a page is never longer than its limit.           *)
TypeOK ==
    /\ active \subseteq Users
    /\ deactivated \subseteq Users \ active
    /\ pc \in {"idle", "asking", "running", "answered", "refused", "over"}
    /\ walking \in BOOLEAN
    /\ offset \in Int
    /\ limit \in Int
    /\ todo \in {<<>>, Statements, Tail(Statements)}
    /\ page.items \in Seq(Rows)
    /\ page.total \in 0..Cardinality(Rows)
    /\ pc = "running" => offset >= 0 /\ limit \in 1..MaxPageSize
    /\ pc = "answered" => Len(page.items) <= limit
    /\ seen \in [Users -> Nat]
    /\ present \subseteq Rows
    /\ faults \in 0..MaxFaults

(* A walk shows everybody who was there when it began, whoever registers,  *)
(* between the pages or between the two statements of one, and wherever in *)
(* the list, and whoever is deactivated.                                   *)
WalkMissesNobody == walking /\ pc = "over" => \A u \in present : seen[u] > 0

(* A walk shows somebody again only because somebody else has entered the  *)
(* list before him, and once for each such newcomer at most.               *)
RepeatsNeedNewcomers ==
    \A u \in Users : seen[u] <= 1 + Cardinality({v \in Rows \ present : Precedes(v, u)})

(* While nobody registers, has_next never announces a page without items,  *)
(* nor total a number of users other than there are.                       *)
AnnouncedPageExists ==
    Rows = present /\ pc = "answered" =>
        /\ page.total = Cardinality(present)
        /\ walking /\ offset > 0 => page.items # <<>>

(* Every walk ends.                                                        *)
WalkEnds == pc = "asking" ~> pc \in {"refused", "over"}
=============================================================================
