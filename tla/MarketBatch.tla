---------------------------- MODULE MarketBatch ----------------------------
(***************************************************************************)
(* The market digests an admin researches and publishes (routes/market,    *)
(* services/market).                                                       *)
(*                                                                         *)
(* A batch is replaced by an upsert that leaves published_at alone, and    *)
(* published by an update that leaves the items alone.  Publishing loads   *)
(* the row, checks the items it loaded, and then writes by the key.  What  *)
(* is live is read by the wire and by the mail.                            *)
(***************************************************************************)
EXTENDS Integers

CONSTANTS
    Key,            \* the keys of batches
    Publisher,      \* publishing requests at the same time
    Lifetime,       \* days a batch is live without a next_refresh
    LastDay         \* bound: days

VARIABLES
    day,            \* today
    batch,          \* batch[k]: the row of market_digests
    publish,        \* publish[p]: the batch it checked
    edited          \* edited[k]: replaced since the last publisher read it

vars == <<day, batch, publish, edited>>

\* What assert_publishable tells apart: no items, an item without a source, or
\* items that are all sourced.
Items == {"none", "unsourced", "sourced"}
Draft == -1
Absent == [stored |-> FALSE, items |-> "none", published_at |-> Draft, next_refresh |-> Draft]
Row == [stored : BOOLEAN, items : Items, published_at : Draft .. LastDay,
        next_refresh : Draft .. LastDay + 1]

\* Batch.expires_at: the refresh the batch names, or its lifetime.
ExpiresAt(b) == IF b.next_refresh # Draft THEN b.next_refresh ELSE b.published_at + Lifetime
BatchState(b) ==
    CASE b.published_at = Draft -> "draft"
      [] b.published_at # Draft /\ day >= ExpiresAt(b) -> "expired"
      [] OTHER -> "published"
Live == {k \in Key : BatchState(batch[k]) = "published"}

\* live_batch: of those that are live the one published last.
Wire == {k \in Live : \A l \in Live : batch[l].published_at <= batch[k].published_at}

Idle == [busy |-> FALSE, key |-> CHOOSE k \in Key : TRUE]

TypeOK ==
    /\ day \in 0 .. LastDay
    /\ batch \in [Key -> Row]
    /\ publish \in [Publisher -> [busy : BOOLEAN, key : Key]]
    /\ edited \in [Key -> BOOLEAN]

Init ==
    /\ day = 0
    /\ batch = [k \in Key |-> Absent]
    /\ publish = [p \in Publisher |-> Idle]
    /\ edited = [k \in Key |-> FALSE]

-----------------------------------------------------------------------------
\* upsert_batch: items and refresh are replaced, publication is kept.  A failed
\* write may have landed.
Upsert(k, items, refresh) ==
    /\ batch' = [batch EXCEPT ![k] = [@ EXCEPT !.stored = TRUE, !.items = items,
                                               !.next_refresh = refresh]]
    /\ edited' = [edited EXCEPT ![k] = TRUE]
    /\ UNCHANGED <<day, publish>>

\* (A plausible bug in CheckToPublish: an empty batch only is refused.)
CheckToPublishAny(p, k) ==
    /\ ~publish[p].busy /\ batch[k].stored
    /\ batch[k].items # "none"
    /\ publish' = [publish EXCEPT ![p] = [busy |-> TRUE, key |-> k]]
    /\ edited' = [edited EXCEPT ![k] = FALSE]
    /\ UNCHANGED <<day, batch>>

\* publish_batch loads the row; every item has a source, and there is one.
CheckToPublish(p, k) ==
    /\ ~publish[p].busy /\ batch[k].stored
    /\ batch[k].items = "sourced"
    /\ publish' = [publish EXCEPT ![p] = [busy |-> TRUE, key |-> k]]
    /\ edited' = [edited EXCEPT ![k] = FALSE]
    /\ UNCHANGED <<day, batch>>

\* The update by the key, whatever the items are now; or it fails, and may have
\* landed.
Publish(p) ==
    /\ publish[p].busy
    /\ batch' \in {batch, [batch EXCEPT ![publish[p].key].published_at = day]}
    /\ publish' = [publish EXCEPT ![p] = Idle]
    /\ UNCHANGED <<day, edited>>

NextDay ==
    /\ day < LastDay
    /\ day' = day + 1
    /\ UNCHANGED <<batch, publish, edited>>

Next ==
    \/ \E k \in Key, items \in Items, refresh \in {Draft, day + 1} : Upsert(k, items, refresh)
    \/ \E p \in Publisher : (\E k \in Key : CheckToPublish(p, k)) \/ Publish(p)
    \/ NextDay

Spec == Init /\ [][Next]_vars

-----------------------------------------------------------------------------
\* What the wire and the mail show was checked, item by item, by the publisher
\* that read it last, unless the batch was replaced since: no draft goes live
\* by itself, and no refused batch does (publish_batch, assert_publishable,
\* live_batch).
LiveWasChecked == \A k \in Wire : batch[k].items = "sourced" \/ edited[k]

-----------------------------------------------------------------------------
(* Why it holds.  An item that is not sourced came after the last check.    *)

CheckedOrEdited(k) == batch[k].items = "sourced" \/ edited[k]

IndInv ==
    /\ TypeOK
    /\ \A p \in Publisher : publish[p].busy => CheckedOrEdited(publish[p].key)
    /\ \A k \in Key : batch[k].published_at # Draft => CheckedOrEdited(k)
=============================================================================
