----------------------------- MODULE MarketDataBook -----------------------------
(***************************************************************************)
(* fixgateway/marketdata/book_reconstructor.py: the visible book of one    *)
(* symbol and what a message does to it.                                   *)
(*                                                                         *)
(* Bids and asks are one function from levels, <<side, price>>, to sizes.  *)
(* A trade is one more entry type; no trade is the empty tuple.  No        *)
(* sequence number (None) is 0: numbers are positive.                      *)
(***************************************************************************)
EXTENDS Integers, Sequences, SequencesExt

MDEntryType == {"BID", "OFFER", "TRADE"}

MDUpdateAction == {"NEW", "CHANGE", "DELETE"}

NoTrade == <<>>

BookState(levels, trade, last_seq_num, stale) ==
    [levels |-> levels, trade |-> trade, last_seq_num |-> last_seq_num, stale |-> stale]

NoLevels == [level \in {} |-> 0]

EmptyBook == BookState(NoLevels, NoTrade, 0, FALSE)

Level(entry) == <<entry.entry_type, entry.price>>

(* apply_snapshot: the book is what the message lists, less empty levels.  *)
SnapshotBook(listed, trade, seq_num) ==
    BookState([level \in {l \in DOMAIN listed : listed[l] > 0} |-> listed[level]],
              trade, seq_num, FALSE)

(* The copy apply_incremental works on; ok turns FALSE where it raises.    *)
Draft(book) == [levels |-> book.levels, trade |-> book.trade, ok |-> TRUE]

WithLevel(levels, level, size) ==
    [l \in DOMAIN levels \cup {level} |-> IF l = level THEN size ELSE levels[l]]

WithoutLevel(levels, level) == [l \in DOMAIN levels \ {level} |-> levels[l]]

(* One turn of the loop over the entries.                                  *)
Applied(draft, entry) ==
    CASE ~draft.ok -> draft
      [] draft.ok /\ entry.entry_type = "TRADE" ->
            IF entry.update_action = "DELETE" THEN draft
            ELSE [draft EXCEPT !.trade = <<entry.price, entry.size>>]
      [] draft.ok /\ entry.entry_type # "TRADE" /\ entry.update_action = "NEW" ->
            [draft EXCEPT !.levels = WithLevel(@, Level(entry), entry.size)]
      [] draft.ok /\ entry.entry_type # "TRADE" /\ entry.update_action = "CHANGE" ->
            IF Level(entry) \in DOMAIN draft.levels
            THEN [draft EXCEPT !.levels = WithLevel(@, Level(entry), entry.size)]
            ELSE [draft EXCEPT !.ok = FALSE]
      [] draft.ok /\ entry.entry_type # "TRADE" /\ entry.update_action = "DELETE" ->
            IF Level(entry) \in DOMAIN draft.levels
            THEN [draft EXCEPT !.levels = WithoutLevel(@, Level(entry))]
            ELSE [draft EXCEPT !.ok = FALSE]

(* All entries of an incremental, applied to a copy of the book.           *)
Updated(book, entries) == FoldLeft(Applied, Draft(book), entries)

===============================================================================
