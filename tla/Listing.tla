------------------------------ MODULE Listing ------------------------------
(***************************************************************************)
(* One client walks a listing of the Admin or Self-service API page by     *)
(* page (admin/pagination.ts) while the rows change under it: the          *)
(* directory listings in order of (created_at, id), the audit events       *)
(* newest first, a user's events within the retention window, and the      *)
(* archive's keys, day by day, with one R2 call per step.                  *)
(***************************************************************************)
EXTENDS Integers, Sequences, FiniteSets

CONSTANTS
    Ids,           \* of rows, ordered like the strings they stand for
    None,
    MaxLimit,      \* of a page
    CURSOR_TTL_SECONDS,
    Retention,     \* audit.hot_retention_days
    Lag,           \* how late a row is stored after the time it bears
    MaxTime,
    MaxChanges     \* of the rows during the walk

ASSUME ListingAssumption ==
    /\ Ids \subseteq Nat
    /\ {MaxLimit, CURSOR_TTL_SECONDS} \subseteq Nat \ {0}
    /\ {Retention, Lag, MaxTime, MaxChanges} \subseteq Nat

VARIABLES
    clock,
    rows,          \* of each id: the row or object of that id, or None
    walk,          \* what the client has; history: shown twice, steady, floor
    page,          \* the page request in progress, or None
    changes        \* of the rows so far

vars == <<clock, rows, walk, page, changes>>

-----------------------------------------------------------------------------
Times == 0 .. MaxTime
Directory == {"users", "clients", "invitations"}
Listings == Directory \cup {"audit", "events", "archive"}

\* A `creating` user is not listed; a record that does not decode takes a
\* place on the page but is not shown.
Row == [at : Times, kind : {"listed", "creating", "broken"}]
KindsOf(listing) ==
    CASE listing = "users" -> {"listed", "creating"}
      [] listing = "clients" -> {"listed", "broken"}
      [] OTHER -> {"listed"}
Keyset == [created_at : Times, id : Ids]

Keysets(kinds) ==
    {[created_at |-> rows[i].at, id |-> i] : i \in {j \in Ids : rows[j] # None /\ rows[j].kind \in kinds}}

\* ORDER BY created_at, id, or both DESC.  The archive's keys begin with the day.
Ascending(a, b) == a.created_at < b.created_at \/ (a.created_at = b.created_at /\ a.id < b.id)
Descending(a, b) == Ascending(b, a)
InOrder(a, b) == IF walk.listing \in {"audit", "events"} THEN Descending(a, b) ELSE Ascending(a, b)
AtMost(n, m) == IF n < m THEN n ELSE m

\* LIMIT n: the sequence of the first rows.
First(n, S) ==
    [j \in 1 .. AtMost(n, Cardinality(S)) |-> CHOOSE k \in S : Cardinality({x \in S : InOrder(x, k)}) = j - 1]

\* Mutant: by the time alone, which several rows may bear.
FollowingLater(after, S) == {k \in S : after = None \/ (InOrder(after, k) /\ k.created_at # after.created_at)}

\* Mutant: from the cursor's row on.
FollowingFrom(after, S) == {k \in S : after = None \/ k = after \/ InOrder(after, k)}

\* The rows after the keyset of the cursor.
Following(after, S) == {k \in S : after = None \/ InOrder(after, k)}

-----------------------------------------------------------------------------
Init ==
    /\ clock = 1
    /\ \E listing \in Listings, limit \in 1 .. MaxLimit :
           /\ rows \in [Ids -> {None} \cup
                  {r \in Row : r.at <= 1 /\ r.kind \in KindsOf(listing)}]
           /\ walk = [listing |-> listing, limit |-> limit, state |-> "between", cursor |-> None,
                      shown |-> {}, twice |-> FALSE, steady |-> None, floor |-> 0]
    /\ page = None
    /\ changes = 0

\* What of the steady rows is still listed once the rows have changed.
Steady(new) ==
    IF walk.steady = None THEN None
    ELSE {k \in walk.steady : new[k.id] # None /\ new[k.id].kind = "listed" /\ new[k.id].at = k.created_at}

Store(new) ==
    /\ changes < MaxChanges
    /\ changes' = changes + 1
    /\ rows' = new
    /\ walk' = [walk EXCEPT !.steady = Steady(new)]
    /\ UNCHANGED <<clock, page>>

\* An INSERT or a put, some time after the time the row bears.
insert(i) ==
    /\ rows[i] = None
    /\ \E at \in {t \in Times : t <= clock /\ clock - t <= Lag},
          kind \in KindsOf(walk.listing) \ {"broken"} :
           Store([rows EXCEPT ![i] = [at |-> at, kind |-> kind]])

\* A created user becomes active.
setUserStatus(i) ==
    /\ rows[i] # None /\ rows[i].kind = "creating"
    /\ Store([rows EXCEPT ![i].kind = "listed"])

\* A directory row is deleted.
delete(i) == rows[i] # None /\ walk.listing \in Directory /\ Store([rows EXCEPT ![i] = None])

\* A batch of the purge, which deletes what is older than the retention.
purgeAuditBatch ==
    /\ walk.listing \in {"audit", "events"}
    /\ \E gone \in SUBSET {i \in Ids : rows[i] # None /\ rows[i].at < clock - Retention} :
           /\ gone # {}
           /\ Store([i \in Ids |-> IF i \in gone THEN None ELSE rows[i]])

-----------------------------------------------------------------------------
\* openCursor: the keyset of a cursor that has not expired.
openCursor(cursor) == IF cursor = None THEN None ELSE cursor.keyset
Expired(cursor) == cursor # None /\ cursor.expires_at <= clock

\* The next page is asked for, and `now` is taken.
requestPage ==
    /\ walk.state = "between" /\ page = None /\ ~Expired(walk.cursor)
    /\ page' = [after |-> openCursor(walk.cursor), now |-> clock, day |-> 0, items |-> <<>>]
    /\ walk' = IF walk.steady = None THEN [walk EXCEPT !.steady = Keysets({"listed"})] ELSE walk
    /\ UNCHANGED <<clock, rows, changes>>

\* 400: the walk has taken too long.
refuseCursor ==
    /\ walk.state = "between" /\ page = None /\ Expired(walk.cursor)
    /\ walk' = [walk EXCEPT !.state = "refused"]
    /\ UNCHANGED <<clock, rows, page, changes>>

\* page: an extra row means there is more; the cursor names the last row returned.
nextCursor(fetched) ==
    IF Len(fetched) <= walk.limit THEN None
    ELSE [keyset |-> fetched[walk.limit], expires_at |-> page.now + CURSOR_TTL_SECONDS]

\* The page is answered: of `limit` rows, the ones that decode.
AnswerPage(fetched, floor) ==
    LET returned == {fetched[j] : j \in 1 .. AtMost(walk.limit, Len(fetched))}
        items == {k \in returned : rows[k.id].kind # "broken"}
    IN  /\ walk' = [walk EXCEPT !.shown = @ \cup items, !.twice = @ \/ walk.shown \cap items # {},
                                !.cursor = nextCursor(fetched), !.floor = floor,
                                !.state = IF nextCursor(fetched) = None THEN "done" ELSE "between"]
        /\ page' = None
        /\ UNCHANGED <<clock, rows, changes>>

\* A page of a directory listing.
DirectoryPage(kinds) == AnswerPage(First(walk.limit + 1, Following(page.after, Keysets(kinds))), 0)

\* Users and the members of a group; clients and upstreams; groups and invitations.
listUsersHandler == page # None /\ walk.listing = "users" /\ DirectoryPage({"listed"})
listClientsHandler == page # None /\ walk.listing = "clients" /\ DirectoryPage({"listed", "broken"})
listInvitationsHandler == page # None /\ walk.listing = "invitations" /\ DirectoryPage({"listed"})

\* retentionFloor, of the page's own `now`.
retentionFloor == IF walk.listing = "events" THEN page.now - Retention ELSE 0

\* listAuditHandler and userEvents.
eventsPage ==
    /\ page # None /\ walk.listing \in {"audit", "events"}
    /\ AnswerPage(First(walk.limit + 1, {k \in Following(page.after, Keysets({"listed"})) :
                                             k.created_at >= retentionFloor}), retentionFloor)

-----------------------------------------------------------------------------
\* The objects of a day that R2 has yet to list for this page.
Prefix(day) == {k \in Keysets({"listed"}) : k.created_at = day}
Remaining ==
    LET last == IF page.items # <<>> THEN page.items[Len(page.items)] ELSE page.after
    IN  Following(last, Prefix(page.day))

\* One AUDIT_BUCKET.list of listArchiveHandler: at least one object of the
\* day's remaining ones, and at most what the page lacks.  A list that is not
\* truncated was the last of its day.
listArchive ==
    /\ page # None /\ walk.listing = "archive"
    /\ page.day \in Times /\ Len(page.items) <= walk.limit
    /\ \E n \in 1 .. walk.limit + 1 - Len(page.items) :
           LET listed == First(n, Remaining)
               truncated == Len(listed) < Cardinality(Remaining)
           IN  page' = [page EXCEPT !.items = @ \o listed, !.day = IF truncated THEN @ ELSE @ + 1]
    /\ UNCHANGED <<clock, rows, walk, changes>>

answerArchive ==
    /\ page # None /\ walk.listing = "archive"
    /\ page.day \notin Times \/ Len(page.items) > walk.limit
    /\ AnswerPage(page.items, 0)

Tick ==
    /\ clock < MaxTime
    /\ clock' = clock + 1
    /\ UNCHANGED <<rows, walk, page, changes>>

\* What happens after the walk is left out.
Finished == walk.state # "between" /\ UNCHANGED vars

Page ==
    \/ requestPage \/ refuseCursor
    \/ listUsersHandler \/ listClientsHandler \/ listInvitationsHandler \/ eventsPage
    \/ listArchive \/ answerArchive
Rows == purgeAuditBatch \/ \E i \in Ids : insert(i) \/ setUserStatus(i) \/ delete(i)
Next ==
    \/ walk.state = "between" /\ (Rows \/ Page \/ Tick)
    \/ Finished

\* The client goes on to ask, and a request in progress goes on.
Spec == Init /\ [][Next]_vars /\ WF_vars(Page)

-----------------------------------------------------------------------------
\* A walk that ends with a page without a cursor has shown every row that was
\* listed from its first page to its last exactly once, and nothing twice,
\* whatever was inserted, deleted or purged meanwhile, at the same time as
\* other rows or late, the cursor's own row included (TIO-ADMIN-004).
WalkIsComplete ==
    /\ ~walk.twice
    /\ walk.state = "done" =>
           {k \in walk.steady : k.created_at >= walk.floor} \subseteq walk.shown

\* A walk ends, with its last page or with a cursor that has expired: every
\* page with a cursor moves it on, whatever happens to the row it names.
WalkEnds == <>(walk.state # "between")
=============================================================================
