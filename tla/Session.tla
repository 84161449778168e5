------------------------------- MODULE Session -------------------------------
(***************************************************************************)
(* DbSession<Postgres> and its QueryBackend operations (count, fetch,      *)
(* update Insert/Replace/Remove, remove_all, close) from                   *)
(* src/src/postgres/mod.rs, for sessions of one profile whose             *)
(* (ProfileId, StoreKey) has been resolved.  Category and name stand for   *)
(* their deterministic ciphertexts under that one key: equality of the     *)
(* ciphertexts is equality of the plaintexts, which is all the queries    *)
(* use.  Profiles, keys and their caches are the Profiles module.          *)
(*                                                                         *)
(* The database is PostgreSQL at READ COMMITTED: every statement sees the  *)
(* committed rows plus its own transaction's writes; DELETE and SELECT ... *)
(* FOR UPDATE wait for row locks held by other open transactions and then  *)
(* act only on the rows of their snapshot that still exist; INSERT ... ON  *)
(* CONFLICT DO NOTHING waits for another open transaction that inserted or *)
(* deleted the same key and then re-checks the latest rows; a cycle of     *)
(* waits is broken by aborting one statement (deadlock detection).         *)
(***************************************************************************)
EXTENDS Naturals, FiniteSets

CONSTANTS
    Sessions,     \* DbSession objects that may be alive at once
    TxnSessions,  \* the sessions that may be opened with transaction = true
    Writers,      \* the sessions whose callers use update and remove_all
    Scanners,     \* the sessions Backend::scan opens, owned by their Scan
    CallKinds,    \* the methods callers use (a subset of Kinds)
    Names,        \* (category, name) pairs of entries
    Values,       \* entry values
    Tags,         \* entry tags (name, value, plaintext flag)
    PoolSize,     \* connections owned by the PgPool
    MaxRows,      \* bound on INSERTs: item ids are 1..MaxRows
    MaxNow,       \* bound on the clock that CURRENT_TIMESTAMP reads
    PageSize,     \* PAGE_SIZE: entries per batch a Scan yields
    MayClose,     \* whether a caller calls Backend::close on the store
    NoExpiry,     \* expiry IS NULL
    None          \* absent value / no result

ASSUME TxnSessions \subseteq Sessions /\ Writers \subseteq Sessions
       /\ Scanners \subseteq Sessions \ (TxnSessions \cup Writers)
ASSUME PoolSize \in Nat \ {0} /\ MaxRows \in Nat /\ MaxNow \in Nat
       /\ PageSize \in Nat \ {0} /\ MayClose \in BOOLEAN

VARIABLES
    items,     \* committed rows of table items
    itemTags,  \* committed rows of items_tags, as <<item id, tag>>
    now,       \* CURRENT_TIMESTAMP
    nextId,    \* next id the items sequence hands out
    sess,      \* per session: lifecycle state, transaction flag, aborted
    pend,      \* per session: writes and row locks of its open transaction
    op,        \* per session: the QueryBackend call in progress
    pool       \* the PgPool: "open", "closing" (close() awaited), "closed"

vars == <<items, itemTags, now, nextId, sess, pend, op, pool>>

Expiries == {NoExpiry} \cup 1..MaxNow
Filters  == {None} \cup Tags          \* no filter, or Exist(tag)
Row      == [id: 1..MaxRows, name: Names, value: Values, exp: Expiries,
             tags: SUBSET Tags]        \* tags: what perform_insert was given
Kinds    == {"count", "fetch", "insert", "replace", "remove", "removeAll",
             "fetchAll", "scan"}
Pcs      == {"idle", "count", "fetch", "delete", "exec", "insert", "tags",
             "commit", "fetchAll", "scan", "stream", "done"}
Codes    == {"ok", "Duplicate", "NotFound", "Backend"}

\* A result: an error code, or "ok" with a count or a fetched entry.
Res(code, data) == [code |-> code, data |-> data]
Fetched == [value: Values, tags: SUBSET Tags]

NoTxn   == [ins |-> {}, del |-> {}, tins |-> {}, lock |-> {}]
Call(k, n, v, e, tg, f, upd) ==
    [kind |-> k, n |-> n, v |-> v, e |-> e, tg |-> tg, f |-> f, upd |-> upd,
     pc |-> "idle", tgt |-> {}, id |-> 0, rem |-> {}, res |-> Res("ok", None)]
NoOp == Call("count", None, None, NoExpiry, {}, None, FALSE)
Closed == [st |-> "idle", txn |-> FALSE, aborted |-> FALSE, t0 |-> 0]

(***************************************************************************)
(* What a statement of session s sees, and the locks others hold.          *)
(***************************************************************************)
View(s)      == {r \in items : r.id \notin pend[s].del} \cup pend[s].ins
ViewTags(s)  == {tr \in itemTags : tr[1] \notin pend[s].del} \cup pend[s].tins
TagsOf(s, i) == {t \in Tags : <<i, t>> \in ViewTags(s)}
\* CURRENT_TIMESTAMP is the start time of the statement's transaction: of
\* the session's transaction when it has one.
StmtNow(s)   == IF sess[s].txn THEN sess[s].t0 ELSE now
Live(s, r)   == r.exp = NoExpiry \/ r.exp > StmtNow(s)
Matches(r, f) == f = None \/ f \in r.tags
IdsOf(rows)  == {r.id : r \in rows}
Connections  == {s \in Sessions : sess[s].st = "active"}

\* The rows the WHERE clause of each query selects for the call of s.
\* FETCH_QUERY(_UPDATE): the live row of the name.
FetchWhere(s)     == {r \in View(s) : r.name = op[s].n /\ Live(s, r)}
\* SCAN_QUERY, extended by the tag filter: the live rows that match.
ScanWhere(s)      == {r \in View(s) : Live(s, r) /\ Matches(r, op[s].f)}
\* DELETE_QUERY: the row of the name, expired or not.
DeleteWhere(s)    == {r \in View(s) : r.name = op[s].n}
\* DELETE_ALL_QUERY, extended by the tag filter: expired rows included.
DeleteAllWhere(s) == {r \in View(s) : Matches(r, op[s].f)}
\* TAG_INSERT_QUERY: one items_tags row in the transaction p.
TagInsert(p, i, t) == [p EXCEPT !.tins = @ \cup {<<i, t>>}]

\* Row ids write-locked (deleted or selected FOR UPDATE) by t's transaction.
RowLocks(t) == pend[t].del \cup pend[t].lock
\* Keys an INSERT must wait for: inserted or deleted by t, uncommitted.
KeyLocks(t) == {r.name : r \in pend[t].ins} \cup
               {r.name : r \in {q \in items : q.id \in pend[t].del}}

\* The statement s is executing waits for a lock held by t.
WaitsOn(s, t) ==
    /\ s # t
    /\ \/ op[s].pc = "exec"   /\ op[s].tgt \cap RowLocks(t) # {}
       \/ op[s].pc = "insert" /\ op[s].n \in KeyLocks(t)
Blocked(s) == \E t \in Sessions : WaitsOn(s, t)

\* Committing t's transaction: deletions cascade to items_tags.
Publish(t) ==
    /\ items'    = {r \in items : r.id \notin pend[t].del} \cup pend[t].ins
    /\ itemTags' = {tr \in itemTags : tr[1] \notin pend[t].del} \cup pend[t].tins

\* Deleting rows inside a transaction: own uncommitted rows vanish, the
\* committed ones are marked deleted (and locked).
DeleteIn(p, ids) ==
    [p EXCEPT !.ins  = {r \in @ : r.id \notin ids},
              !.tins = {tr \in @ : tr[1] \notin ids},
              !.del  = @ \cup (ids \cap IdsOf(items))]

\* The method returns; only what it returned is kept of the call.
Finish(s, res) ==
    op' = [op EXCEPT ![s] = [NoOp EXCEPT !.kind = op[s].kind, !.n = op[s].n,
                                         !.pc = "done", !.res = res]]
\* Mutation: an early return leaves the as_transaction() transaction open
\* instead of rolling it back; the session's next update() carries it on.
DropOpTxnKeep(s) == UNCHANGED pend

\* The transaction update() began with as_transaction() is dropped; a
\* session opened with transaction = true keeps its own.
DropOpTxn(s) == pend' = IF sess[s].txn THEN pend ELSE [pend EXCEPT ![s] = NoTxn]

Init ==
    /\ items = {}
    /\ itemTags = {}
    /\ now = 0
    /\ nextId = 1
    /\ sess = [s \in Sessions |-> Closed]
    /\ pend = [s \in Sessions |-> NoTxn]
    /\ op = [s \in Sessions |-> NoOp]
    /\ pool = "open"

(***************************************************************************)
(* Backend::session: a new DbSession in state Pending.                     *)
(***************************************************************************)
OpenSession(s, txn) ==
    /\ sess[s].st = "idle"
    /\ sess' = [sess EXCEPT ![s] = [Closed EXCEPT !.st = "pending", !.txn = txn]]
    /\ UNCHANGED <<items, itemTags, now, nextId, pend, op, pool>>

(***************************************************************************)
(* The caller invokes one QueryBackend method (callers use a session       *)
(* serially).  The first step of every method is acquire_key.              *)
(***************************************************************************)
FirstPc(k) == CASE k \in {"count", "fetch", "fetchAll", "insert", "scan"} -> k
                [] OTHER -> "delete"

Calls(s) ==
    LET reads  == {Call("count", None, None, NoExpiry, {}, f, FALSE) : f \in Filters}
                  \cup {Call("fetchAll", None, None, NoExpiry, {}, f, u) :
                          f \in Filters, u \in BOOLEAN}
                  \cup {Call("fetch", n, None, NoExpiry, {}, None, u) :
                          n \in Names, u \in BOOLEAN}
        writes == {Call(k, n, v, e, tg, None, FALSE) :
                     k \in {"insert", "replace"}, n \in Names, v \in Values,
                     e \in Expiries, tg \in SUBSET Tags}
                  \cup {Call("remove", n, None, NoExpiry, {}, None, FALSE) : n \in Names}
                  \cup {Call("removeAll", None, None, NoExpiry, {}, f, FALSE) : f \in Filters}
    IN  {c \in reads \cup (IF s \in Writers THEN writes ELSE {}) : c.kind \in CallKinds}

\* Row ids are reserved for the INSERTs of calls in progress when they are
\* called, so that the MaxRows bound never stalls a call already started.
Reserved == Cardinality({t \in Sessions : op[t].kind \in {"insert", "replace"}
                                        /\ op[t].pc \in {"insert", "delete", "exec"}})

Invoke(s) ==
    /\ sess[s].st \in {"pending", "active"}
    /\ op[s].pc \in {"idle", "done"}
    /\ \E c \in Calls(s) :
         /\ c.kind \in {"insert", "replace"} => nextId + Reserved <= MaxRows
         /\ op' = [op EXCEPT ![s] = [c EXCEPT !.pc = FirstPc(c.kind)]]
    /\ UNCHANGED <<items, itemTags, now, nextId, sess, pend, pool>>

(***************************************************************************)
(* acquire_key -> DbSession::make_active: check a connection out of the    *)
(* pool (waiting while all PoolSize are out) and, for a transactional      *)
(* session, BEGIN.  The profile key is already resolved in this module.    *)
(***************************************************************************)
\* Mutation: acquire does not check whether the pool was closed.
MakeActiveIgnoresClose(s) ==
    /\ sess[s].st = "pending"
    /\ op[s].pc \notin {"idle", "done"}
    /\ Cardinality(Connections) < PoolSize
    /\ sess' = [sess EXCEPT ![s].st = "active", ![s].t0 = now]
    /\ UNCHANGED <<items, itemTags, now, nextId, pend, op, pool>>

MakeActive(s) ==
    /\ sess[s].st = "pending"
    /\ op[s].pc \notin {"idle", "done"}
    /\ pool = "open"
    /\ Cardinality(Connections) < PoolSize
    /\ sess' = [sess EXCEPT ![s].st = "active", ![s].t0 = now]
    /\ UNCHANGED <<items, itemTags, now, nextId, pend, op, pool>>

\* Once the pool is closed, a waiting or later acquire returns PoolClosed;
\* make_active's `?` returns it from the call as a Backend error and the
\* session stays Pending.  A scan() that fails so returns no Scan: the
\* session it opened is dropped with it.
AcquireClosed(s) ==
    /\ sess[s].st = "pending"
    /\ op[s].pc \notin {"idle", "done"}
    /\ pool # "open"
    /\ Finish(s, Res("Backend", None))
    /\ IF s \in Scanners THEN sess' = [sess EXCEPT ![s] = Closed]
                         ELSE UNCHANGED sess
    /\ UNCHANGED <<items, itemTags, now, nextId, pend, pool>>

Ready(s, pc) ==
    /\ op[s].pc = pc
    /\ sess[s].st = "active"
    /\ ~sess[s].aborted

(***************************************************************************)
(* count: COUNT_QUERY extended by the tag filter.                          *)
(***************************************************************************)
Count(s) ==
    /\ Ready(s, "count")
    /\ Finish(s, Res("ok", Cardinality({r \in View(s) :
                                  Live(s, r) /\ Matches(r, op[s].f)})))
    /\ UNCHANGED <<items, itemTags, now, nextId, sess, pend, pool>>

\* The entry a fetch returns: the row found with the tags it has.
Found(s, rows) ==
    IF rows = {} THEN Res("ok", None)
    ELSE LET r == CHOOSE x \in rows : TRUE
         IN  Res("ok", [value |-> r.value, tags |-> TagsOf(s, r.id)])

\* The entries a SCAN_QUERY returns for rows: each with the tags its
\* subselect aggregates in the same statement.
Entries(s, rows) ==
    {[name |-> r.name, value |-> r.value, tags |-> TagsOf(s, r.id)] : r \in rows}

InTxn(s) == sess[s].txn \/ op[s].kind = "replace"

Act(s, hit) ==
    LET o == op[s] IN
    CASE o.kind \in {"fetch", "fetchAll"} ->
           LET rows == {r \in View(s) : r.id \in hit} IN
           /\ pend' = [pend EXCEPT ![s].lock = @ \cup hit]
           /\ Finish(s, IF o.kind = "fetch" THEN Found(s, rows)
                        ELSE Res("ok", Entries(s, rows)))
           /\ UNCHANGED <<items, itemTags>>
      [] o.kind = "replace" /\ hit = {} ->
           /\ Finish(s, Res("NotFound", None))
           /\ DropOpTxn(s)
           /\ UNCHANGED <<items, itemTags>>
      [] OTHER ->
           /\ IF InTxn(s)
              THEN /\ pend' = [pend EXCEPT ![s] = DeleteIn(@, hit)]
                   /\ UNCHANGED <<items, itemTags>>
              ELSE /\ items' = {r \in items : r.id \notin hit}
                   /\ itemTags' = {tr \in itemTags : tr[1] \notin hit}
                   /\ UNCHANGED pend
           /\ CASE o.kind = "replace" -> op' = [op EXCEPT ![s].pc = "insert"]
                [] o.kind = "remove" ->
                     Finish(s, IF hit = {} THEN Res("NotFound", None)
                               ELSE Res("ok", None))
                [] OTHER -> Finish(s, Res("ok", Cardinality(hit)))

\* A locking statement whose snapshot picked the rows tgt: it waits (exec)
\* while another open transaction holds a lock on one of them.
Locking(s, tgt) ==
    IF \E t \in Sessions \ {s} : tgt \cap RowLocks(t) # {}
    THEN /\ op' = [op EXCEPT ![s].pc = "exec", ![s].tgt = tgt]
         /\ UNCHANGED <<items, itemTags, pend>>
    ELSE Act(s, {i \in tgt : i \in IdsOf(View(s))})

(***************************************************************************)
(* fetch: FETCH_QUERY, or FETCH_QUERY_UPDATE when for_update and the       *)
(* session is a transaction.                                               *)
(***************************************************************************)
Fetch(s) ==
    LET rows == FetchWhere(s)
    IN  /\ Ready(s, "fetch")
        /\ IF op[s].upd /\ sess[s].txn
           THEN Locking(s, IdsOf(rows))
           ELSE Finish(s, Found(s, rows)) /\ UNCHANGED <<items, itemTags, pend>>
        /\ UNCHANGED <<now, nextId, sess, pool>>

(***************************************************************************)
(* fetch_all: perform_scan on the session's own connection, FOR UPDATE     *)
(* when for_update and the session is a transaction, driven to the end:   *)
(* every row of the one statement, whatever the pages.                     *)
(***************************************************************************)
FetchAll(s) ==
    LET rows == ScanWhere(s)
    IN  /\ Ready(s, "fetchAll")
        /\ IF op[s].upd /\ sess[s].txn
           THEN Locking(s, IdsOf(rows))
           ELSE /\ Finish(s, Res("ok", Entries(s, rows)))
                /\ UNCHANGED <<items, itemTags, pend>>
        /\ UNCHANGED <<now, nextId, sess, pool>>

(***************************************************************************)
(* DELETE_QUERY (perform_remove) and DELETE_ALL_QUERY (remove_all, with    *)
(* the tag filter); neither has an expiry condition.                       *)
(***************************************************************************)
Delete(s) ==
    LET rows == IF op[s].kind = "removeAll" THEN DeleteAllWhere(s)
                ELSE DeleteWhere(s)
    IN  /\ Ready(s, "delete")
        /\ Locking(s, IdsOf(rows))
        /\ UNCHANGED <<now, nextId, sess, pool>>

\* A waiting statement proceeds once no other transaction holds its locks.
Exec(s) ==
    /\ Ready(s, "exec")
    /\ ~Blocked(s)
    /\ Act(s, {i \in op[s].tgt : i \in IdsOf(View(s))})
    /\ UNCHANGED <<now, nextId, sess, pool>>

(***************************************************************************)
(* perform_insert: INSERT_QUERY ... ON CONFLICT DO NOTHING RETURNING id.   *)
(* No row returned -> Duplicate, and update() returns before the tags.     *)
(***************************************************************************)
\* Mutation: the item row is inserted on the session connection, committed
\* at once, instead of in the transaction that also inserts its tags.
AddRowOnConnection(s, r) ==
    IF sess[s].txn
    THEN pend' = [pend EXCEPT ![s].ins = @ \cup {r}] /\ UNCHANGED items
    ELSE items' = items \cup {r} /\ UNCHANGED pend

\* INSERT_QUERY adds row r to the transaction of s.
AddRow(s, r) == pend' = [pend EXCEPT ![s].ins = @ \cup {r}] /\ UNCHANGED items

InsertRow(s) ==
    LET o == op[s]
    IN
    /\ Ready(s, "insert")
    /\ ~Blocked(s)
    /\ IF \E r \in View(s) : r.name = o.n
       THEN /\ Finish(s, Res("Duplicate", None))
            /\ DropOpTxn(s)
            /\ UNCHANGED <<items, nextId>>
       ELSE /\ AddRow(s, [id |-> nextId, name |-> o.n, value |-> o.v,
                              exp |-> o.e, tags |-> o.tg])
            /\ op' = [op EXCEPT ![s].id = nextId,
                                ![s].pc = IF o.tg = {} THEN "commit" ELSE "tags"]
            /\ nextId' = nextId + 1
    /\ UNCHANGED <<itemTags, now, sess, pool>>

(***************************************************************************)
(* perform_insert: one TAG_INSERT_QUERY per tag, in the same transaction.  *)
(***************************************************************************)
InsertTag(s) ==
    LET o    == op[s]
        done == {t \in Tags : <<o.id, t>> \in pend[s].tins}
    IN
    /\ Ready(s, "tags")
    /\ \E t \in o.tg \ done :
         /\ pend' = [pend EXCEPT ![s] = TagInsert(@, o.id, t)]
         /\ op' = [op EXCEPT ![s].pc = IF o.tg = done \cup {t} THEN "commit"
                                        ELSE "tags"]
    /\ UNCHANGED <<items, itemTags, now, nextId, sess, pool>>

(***************************************************************************)
(* update(): txn.commit().  It ends the transaction as_transaction()       *)
(* began; in a session opened with transaction = true it commits nothing:  *)
(* the session's own transaction is committed by close(true).             *)
(***************************************************************************)
CommitOp(s) ==
    /\ Ready(s, "commit")
    /\ IF sess[s].txn
       THEN UNCHANGED <<items, itemTags, pend>>
       ELSE /\ Publish(s)
            /\ pend' = [pend EXCEPT ![s] = NoTxn]
    /\ Finish(s, Res("ok", None))
    /\ UNCHANGED <<now, nextId, sess, pool>>

(***************************************************************************)
(* A statement of s fails and the error propagates (`?`) out of the call:  *)
(* update() drops the as_transaction() transaction, which rolls back; a    *)
(* transactional session's transaction is left aborted: its later         *)
(* statements fail and its COMMIT rolls back.                              *)
(***************************************************************************)
FailStmt(s) ==
    /\ Finish(s, Res("Backend", None))
    /\ DropOpTxn(s)
    /\ IF sess[s].txn THEN sess' = [sess EXCEPT ![s].aborted = TRUE]
                      ELSE UNCHANGED sess
    /\ UNCHANGED <<items, itemTags, now, nextId, pool>>

\* PostgreSQL breaks a cycle of lock waits by failing one statement.
DeadlockAbort(s) ==
    /\ \E t \in Sessions : WaitsOn(s, t) /\ WaitsOn(t, s)
    /\ FailStmt(s)

\* A statement of update() after its first may fail (connection lost,
\* statement or lock timeout) before it takes effect: the INSERT of an
\* Insert or Replace, a TAG_INSERT_QUERY, or the COMMIT of as_transaction()
\* (none is sent in a transactional session).
StmtError(s) ==
    /\ sess[s].st = "active" /\ ~sess[s].aborted
    /\ op[s].pc \in {"insert", "tags", "commit"}
    /\ op[s].pc = "commit" => ~sess[s].txn
    /\ FailStmt(s)

\* A statement in an aborted transaction fails at once.
FailAborted(s) ==
    /\ sess[s].st = "active"
    /\ sess[s].aborted
    /\ op[s].pc \notin {"idle", "done"}
    /\ Finish(s, Res("Backend", None))
    /\ UNCHANGED <<items, itemTags, now, nextId, sess, pend, pool>>

(***************************************************************************)
(* QueryBackend::close(commit) -> DbSession::close, also what dropping     *)
(* the session does (commit = false): commit or roll back a transaction,   *)
(* return the connection to the pool.                                      *)
(***************************************************************************)
\* Mutation: dropping a session without close(true) forgets to roll back,
\* so its transaction (and its locks) outlive it.
CloseNoRollback(s, commit) ==
    /\ sess[s].st \in {"pending", "active"}
    /\ op[s].pc \in {"idle", "done"}
    /\ IF sess[s].st = "active" /\ sess[s].txn /\ commit /\ ~sess[s].aborted
       THEN Publish(s) /\ pend' = [pend EXCEPT ![s] = NoTxn]
       ELSE UNCHANGED <<items, itemTags, pend>>
    /\ sess' = [sess EXCEPT ![s] = Closed]
    /\ op' = [op EXCEPT ![s] = NoOp]
    /\ UNCHANGED <<now, nextId, pool>>

Close(s, commit) ==
    /\ sess[s].st \in {"pending", "active"}
    /\ op[s].pc \in {"idle", "done"}
    /\ IF sess[s].st = "active" /\ sess[s].txn /\ commit /\ ~sess[s].aborted
       THEN Publish(s)
       ELSE UNCHANGED <<items, itemTags>>
    /\ pend' = [pend EXCEPT ![s] = NoTxn]
    /\ sess' = [sess EXCEPT ![s] = Closed]
    /\ op' = [op EXCEPT ![s] = NoOp]
    /\ UNCHANGED <<now, nextId, pool>>

(***************************************************************************)
(* Backend::scan: session(profile, false) and perform_scan on its owned    *)
(* ref, so the Scan owns the DbSession.  perform_scan's acquire_key is     *)
(* MakeActive: the Scan holds a connection before it is ever read.         *)
(***************************************************************************)
ScanOpen(s) ==
    /\ sess[s].st = "idle"
    /\ \E f \in Filters :
         op' = [op EXCEPT ![s] = [Call("scan", None, None, NoExpiry, {}, f, FALSE)
                                     EXCEPT !.pc = "scan", !.res = Res("ok", {})]]
    /\ sess' = [sess EXCEPT ![s] = [Closed EXCEPT !.st = "pending"]]
    /\ UNCHANGED <<items, itemTags, now, nextId, pend, pool>>

\* The entries the first fetch_next reads: SCAN_QUERY runs once.
ScanRows(s) == Entries(s, ScanWhere(s))

\* Mutation: every page re-runs SCAN_QUERY and reads the entries now
\* visible that were not yielded yet, as offset or keyset paging would.
RemainingRequery(s) ==
    {e \in ScanRows(s) : e.name \notin {y.name : y \in op[s].res.data}}

\* The rows of the statement's cursor not read yet.
Remaining(s) == op[s].rem

\* A full batch: PAGE_SIZE rows read from the cursor are yielded, and the
\* cursor, with its connection, stays open.  The pages accumulate in res.
YieldPage(s, rem) ==
    /\ \E page \in SUBSET rem :
         /\ Cardinality(page) = PageSize
         /\ op' = [op EXCEPT ![s].pc = "stream", ![s].rem = rem \ page,
                             ![s].res = Res("ok", @.data \cup page)]
    /\ UNCHANGED sess

\* Mutation: the connection is kept when the rows run out; only dropping
\* the Scan returns it.
NextBatchKeepsSession(s, rem) ==
    IF Cardinality(rem) >= PageSize THEN YieldPage(s, rem)
    ELSE Finish(s, Res("ok", op[s].res.data \cup rem)) /\ UNCHANGED sess

\* One fetch_next reads rows into the batch until PAGE_SIZE are read; when
\* the rows run out first, drop(rows), drop(acquired) and drop(active)
\* return the connection to the pool, then the last batch (or None) is
\* yielded.
NextBatch(s, rem) ==
    IF Cardinality(rem) >= PageSize THEN YieldPage(s, rem)
    ELSE /\ Finish(s, Res("ok", op[s].res.data \cup rem))
         /\ sess' = [sess EXCEPT ![s] = Closed]

\* Scan::fetch_next.
ScanPoll(s) ==
    /\ sess[s].st = "active"
    /\ \/ op[s].pc = "scan"   /\ NextBatch(s, ScanRows(s))
       \/ op[s].pc = "stream" /\ NextBatch(s, Remaining(s))
    /\ UNCHANGED <<items, itemTags, now, nextId, pend, pool>>

\* A row of the cursor fails (`row?`, or decoding or decrypting it): the
\* error is yielded and try_stream ends, dropping rows, acquired and the
\* DbSession it owns, which returns the connection.
ScanFail(s) ==
    /\ sess[s].st = "active"
    /\ op[s].pc \in {"scan", "stream"}
    /\ Finish(s, Res("Backend", None))
    /\ sess' = [sess EXCEPT ![s] = Closed]
    /\ UNCHANGED <<items, itemTags, now, nextId, pend, pool>>

\* The consumer drops the Scan (or the scan() future, while it waits for a
\* connection, or a Scan it has read to the end): the stream drops the
\* DbSession it still owns, which returns the connection to the pool.
ScanDrop(s) ==
    /\ op[s].pc \in {"scan", "stream", "done"}
    /\ sess' = [sess EXCEPT ![s] = Closed]
    /\ op' = [op EXCEPT ![s] = NoOp]
    /\ UNCHANGED <<items, itemTags, now, nextId, pend, pool>>

(***************************************************************************)
(* Backend::close: conn_pool.close().await.  The pool stops handing out    *)
(* connections at once (sqlx Pool::close); the future, and with it         *)
(* close(), returns once every checked-out connection has come back.       *)
(***************************************************************************)
StoreClose ==
    /\ MayClose
    /\ pool = "open"
    /\ pool' = "closing"
    /\ UNCHANGED <<items, itemTags, now, nextId, sess, pend, op>>

CloseReturns ==
    /\ pool = "closing"
    /\ Connections = {}
    /\ pool' = "closed"
    /\ UNCHANGED <<items, itemTags, now, nextId, sess, pend, op>>

\* Time passes: CURRENT_TIMESTAMP advances.
Tick ==
    /\ now < MaxNow
    /\ now' = now + 1
    /\ UNCHANGED <<items, itemTags, nextId, sess, pend, op, pool>>

Next ==
    \/ Tick
    \/ StoreClose \/ CloseReturns
    \/ \E s \in Sessions : AcquireClosed(s)
    \/ \E s \in Scanners : ScanOpen(s) \/ MakeActive(s) \/ ScanPoll(s) \/ ScanDrop(s)
                            \/ ScanFail(s)
    \/ \E s \in Sessions \ Scanners :
         \/ \E t \in IF s \in TxnSessions THEN BOOLEAN ELSE {FALSE} :
              OpenSession(s, t)
         \/ Invoke(s) \/ MakeActive(s)
         \/ Count(s) \/ Fetch(s) \/ FetchAll(s) \/ Delete(s) \/ Exec(s)
         \/ InsertRow(s) \/ InsertTag(s) \/ CommitOp(s)
         \/ DeadlockAbort(s) \/ FailAborted(s) \/ StmtError(s)
         \/ \E c \in BOOLEAN : Close(s, c)

Spec == Init /\ [][Next]_vars

\* A session runs one call at a time, so at most one of its steps is enabled
\* at once.  Steps that need nothing from others are taken (weak fairness);
\* steps that wait on row locks or on the pool are served when enabled again
\* and again (strong fairness); PostgreSQL's deadlock detector fires on a
\* standing cycle; callers end their sessions.  The consumer of a Scan it
\* has been given reads on or drops it, but may keep a finished Scan.
\* sqlx wakes the waiters of a closed pool at once, and the caller of
\* Backend::close awaits its future.
Fairness ==
    /\ WF_vars(CloseReturns)
    /\ \A s \in Sessions : WF_vars(AcquireClosed(s))
    /\ \A s \in Scanners :
        /\ SF_vars(MakeActive(s))
        /\ WF_vars(sess[s].st = "active" /\ op[s].pc \in {"scan", "stream"}
                   /\ (ScanPoll(s) \/ ScanDrop(s)))
    /\ \A s \in Sessions \ Scanners :
        /\ WF_vars(Count(s) \/ Fetch(s) \/ FetchAll(s) \/ Delete(s) \/ InsertTag(s) \/ CommitOp(s)
                   \/ FailAborted(s) \/ DeadlockAbort(s))
        /\ SF_vars(MakeActive(s) \/ Exec(s) \/ InsertRow(s))
        /\ SF_vars(\E c \in BOOLEAN : Close(s, c))

FairSpec == Spec /\ Fairness

(***************************************************************************)
(* Properties                                                              *)
(***************************************************************************)
TypeOK ==
    /\ items \subseteq Row /\ itemTags \subseteq (1..MaxRows) \X Tags
    /\ now \in 0..MaxNow /\ nextId \in 1..(MaxRows + 1)
    /\ pool \in {"open", "closing", "closed"}
    /\ sess \in [Sessions -> [st: {"idle", "pending", "active"},
                              txn: BOOLEAN, aborted: BOOLEAN, t0: 0..MaxNow]]
    /\ \A s \in Sessions :
         /\ pend[s].ins \subseteq Row /\ pend[s].del \subseteq 1..MaxRows
         /\ pend[s].lock \subseteq 1..MaxRows
         /\ op[s].kind \in Kinds /\ op[s].pc \in Pcs
         /\ op[s].res.code \in Codes

\* perform_insert writes the item row and its tag rows in one transaction:
\* no committed item is ever seen without all of its tags, whatever other
\* sessions commit, roll back or abort in between.
InsertAtomic ==
    \A r \in items : {t \in Tags : <<r.id, t>> \in itemTags} = r.tags

CallsReturn ==
    \A s \in Sessions : op[s].pc \notin {"idle", "done"}
                          ~> op[s].pc \in {"idle", "done"}

\* An awaited Backend::close completes while sessions, transactions and
\* Scans hold connections: every holder gives its connection back (a Scan
\* read to its end before its last batch) and no acquire succeeds again.
CloseCompletes == pool = "closing" ~> pool = "closed"

\* Spec 4.7: Replace removes "ignoring not-found" and then inserts, so a
\* Replace never reports NotFound (update() passes ignore_error = false).
ReplaceNeverNotFound ==
    \A s \in Sessions : op[s].kind = "replace" /\ op[s].pc = "done"
                          => op[s].res.code # "NotFound"

\* Spec 3: (profile, kind, category, name) is unique among live rows, and an
\* expired entry is invisible: Insert reports Duplicate only when a live
\* entry of that name is visible to the session.
DuplicateOnlyIfLive ==
    [][\A s \in Sessions :
         op[s].kind = "insert" /\ op[s].pc = "insert" /\ op'[s].pc = "done"
         /\ op'[s].res.code = "Duplicate"
         => \E r \in View(s) : r.name = op[s].n /\ Live(s, r)]_vars

\* Spec 8.3: Remove of an existing entry succeeds; NotFound means there is
\* no entry of that name when the call returns.
RemoveNotFoundOnlyIfAbsent ==
    [][\A s \in Sessions :
         op[s].kind = "remove" /\ op[s].pc = "exec" /\ op'[s].pc = "done"
         /\ op'[s].res.code = "NotFound"
         => ~\E r \in View(s) : r.name = op[s].n]_vars

(***************************************************************************)
(* Refinement: with one writing session and no transactional writer, each  *)
(* call takes effect atomically at one step, as EntryStore says.  The      *)
(* abstract map is the committed rows with their committed tag rows.       *)
(***************************************************************************)
CommittedEntry(n) ==
    IF \E r \in items : r.name = n
    THEN LET r == CHOOSE x \in items : x.name = n
         IN  [value |-> r.value, exp |-> r.exp,
              tags |-> {t \in Tags : <<r.id, t>> \in itemTags}]
    ELSE None

\* A Scan takes effect when SCAN_QUERY runs; while it streams, it is a call
\* that has returned the pages yielded and the rows still in the cursor.
AbsCall(s) ==
    IF op[s].pc = "stream"
    THEN [kind |-> "scan", n |-> None, v |-> None, e |-> NoExpiry, tg |-> {},
          f |-> None, res |-> Res("ok", op[s].res.data \cup op[s].rem),
          st |-> "done"]
    ELSE [kind |-> op[s].kind, n |-> op[s].n, v |-> op[s].v, e |-> op[s].e,
          tg |-> op[s].tg, f |-> op[s].f,
          res |-> IF op[s].pc \in {"idle", "done"} THEN op[s].res ELSE Res("ok", None),
          st |-> CASE op[s].pc = "idle" -> "idle"
                   [] op[s].pc = "done" -> "done"
                   [] OTHER             -> "pending"]

Store == INSTANCE EntryStore
            WITH kv <- [n \in Names |-> CommittedEntry(n)],
                 calls <- [s \in Sessions |-> AbsCall(s)]

\* Every call of count, fetch, update and remove_all takes effect at a single
\* step between invocation and return, with the result a serial map gives.
EntryStoreRefined == Store!Spec
==============================================================================
