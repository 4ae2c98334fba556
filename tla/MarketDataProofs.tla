---------------------------- MODULE MarketDataProofs ----------------------------
(***************************************************************************)
(* The invariants of MarketDataReplay and that it implements FeedView, for *)
(* any symbols, levels, sizes and updates.                                 *)
(*                                                                         *)
(* What a replayed book may look like is said once, by GoodBook; every     *)
(* way through the loop changes the book of one symbol, and puts a good    *)
(* one there.                                                              *)
(***************************************************************************)
EXTENDS MarketDataReplay, TLAPS

(* A publisher's book follows from the one before, if the message fits it. *)
PublishedInOrder ==
    \A s \in Symbols : \A n \in DOMAIN published[s] :
        LET message == published[s][n]
            updated == Updated(published[s][n - 1].book, message.entries)
        IN
        message.type = "X" /\ n > 1 /\ updated.ok =>
            message.book.levels = updated.levels /\ message.book.trade = updated.trade

(* Everything the invariants ask of the book of s, if top is the highest   *)
(* number seen.                                                            *)
GoodBook(s, book, top) ==
    /\ book \in Books
    /\ book.last_seq_num <= Len(published[s])
    /\ book.last_seq_num <= top
    /\ book.last_seq_num # 0 =>
          /\ book.levels = published[s][book.last_seq_num].book.levels
          /\ book.trade = published[s][book.last_seq_num].book.trade
    /\ ~book.stale => book.last_seq_num = top /\ top # 0

GoodBooks ==
    /\ DOMAIN books \subseteq Symbols
    /\ \A s \in DOMAIN books : GoodBook(s, books[s], highest_seen[s])

GoodFeed ==
    /\ published \in [Symbols -> Seq(Messages)]
    /\ \A s \in Symbols : Len(published[s]) <= MaxSeq[s]
    /\ PublishedInOrder

GoodNumbers ==
    /\ seen \in [Symbols -> SUBSET Nat]
    /\ highest_seen \in [Symbols -> Nat]
    /\ \A s \in Symbols :
          /\ \A n \in seen[s] : n \in DOMAIN published[s] /\ n <= highest_seen[s]
          /\ highest_seen[s] = 0 \/ highest_seen[s] \in seen[s]
    /\ result \in Results
    /\ replaying \in BOOLEAN

IInv == GoodFeed /\ GoodNumbers /\ GoodBooks /\ EveryGapReported

(* The inductive invariant is what the runs check, and PublishedInOrder.   *)
LEMMA InvariantParts ==
    IInv => TypeOK /\ BooksAsPublished /\ FreshIsCurrent /\ EveryGapReported
  BY DEF IInv, GoodFeed, GoodNumbers, GoodBooks, GoodBook, TypeOK, BooksAsPublished,
         FreshIsCurrent

(* Marking a book stale leaves the rest of it, and makes an empty one if   *)
(* there is none.                                                          *)
LEMMA MarkedStale ==
    ASSUME IInv, NEW s \in Symbols
    PROVE  LET book == Stale(s)[s] IN
           /\ Stale(s) = WithBook(s, book)
           /\ book.stale = TRUE
           /\ \A top \in Nat : highest_seen[s] <= top => GoodBook(s, book, top)
           /\ s \in DOMAIN books => book.last_seq_num = books[s].last_seq_num
           /\ s \notin DOMAIN books => book.last_seq_num = 0
  <1> DEFINE before == IF s \in DOMAIN books THEN books[s] ELSE EmptyBook
             book == [before EXCEPT !.stale = TRUE]
  <1>1. EmptyBook \in Books
    <2>1. NoLevels \in [{} -> Sizes \ {0}]
      BY DEF NoLevels
    <2>2. NoLevels \in Depth
      BY <2>1 DEF Depth
    <2> QED BY <2>2 DEF EmptyBook, BookState, Books, Trades
  <1>2. before \in Books
    BY <1>1 DEF IInv, GoodBooks, GoodBook
  <1>3. /\ book \in Books
        /\ book.stale = TRUE
        /\ book.levels = before.levels
        /\ book.trade = before.trade
        /\ book.last_seq_num = before.last_seq_num
    BY <1>2 DEF Books
  <1>4. Stale(s) = WithBook(s, book) /\ Stale(s)[s] = book
    BY DEF Stale, WithBook
  <1>5. s \notin DOMAIN books => book.last_seq_num = 0
    BY <1>3 DEF EmptyBook, BookState
  <1>6. Len(published[s]) \in Nat /\ highest_seen[s] \in Nat
    BY DEF IInv, GoodFeed, GoodNumbers
  <1>7. \A top \in Nat : highest_seen[s] <= top => GoodBook(s, book, top)
    <2>1. book.last_seq_num <= highest_seen[s] /\ book.last_seq_num \in Nat
      BY <1>3, <1>5, <1>6 DEF Books, IInv, GoodBooks, GoodBook
    <2> QED BY <2>1, <1>3, <1>5, <1>6 DEF GoodBook, IInv, GoodBooks
  <1> QED BY <1>3, <1>4, <1>5, <1>7

(* A snapshot of a publisher's book is that book, whatever empty levels it *)
(* lists.                                                                  *)
LEMMA SnapshotIsTheBook ==
    ASSUME NEW book \in MarketBooks, NEW n \in Nat
    PROVE  LET taken == SnapshotBook(Listed(book), book.trade, n) IN
           /\ taken \in Books
           /\ taken.levels = book.levels
           /\ taken.trade = book.trade
           /\ taken.last_seq_num = n
           /\ taken.stale = FALSE
  <1> DEFINE listed == Listed(book)
             kept == [level \in {l \in DOMAIN listed : listed[l] > 0} |-> listed[level]]
  <1>1. PICK used \in SUBSET Levels : book.levels \in [used -> Sizes \ {0}]
    BY DEF MarketBooks, Depth
  <1>2. \A level \in used : listed[level] = book.levels[level] /\ listed[level] > 0
    BY <1>1, SizesAssumption DEF Listed
  <1>3. \A level \in Levels \ used : listed[level] = 0
    BY <1>1 DEF Listed
  <1>4. {l \in DOMAIN listed : listed[l] > 0} = used
    BY <1>2, <1>3 DEF Listed
  <1>5. kept = [level \in used |-> book.levels[level]]
    BY <1>2, <1>4
  <1>6. kept = book.levels
    BY <1>1, <1>5
  <1>7. SnapshotBook(listed, book.trade, n) = BookState(book.levels, book.trade, n, FALSE)
    BY <1>6 DEF SnapshotBook
  <1> QED BY <1>7 DEF BookState, MarketBooks, Books

(* Putting a good book under a symbol disturbs no other symbol.            *)
LEMMA BookReplaced ==
    ASSUME IInv, NEW s \in Symbols, NEW book,
           books' = WithBook(s, book),
           published' = published,
           \A r \in Symbols \ {s} : highest_seen'[r] = highest_seen[r],
           GoodBook(s, book, highest_seen'[s])
    PROVE  GoodBooks'
  <1>1. DOMAIN books' = DOMAIN books \cup {s}
    BY DEF WithBook
  <1>2. books'[s] = book /\ \A r \in DOMAIN books \ {s} : books'[r] = books[r]
    BY DEF WithBook
  <1>3. ASSUME NEW r \in DOMAIN books' PROVE GoodBook(r, books[r], highest_seen[r])'
    <2>1. CASE r = s
      BY <1>2, <2>1 DEF GoodBook
    <2>2. CASE r # s
      BY <1>1, <1>2, <2>2 DEF GoodBook, IInv, GoodBooks
    <2> QED BY <2>1, <2>2
  <1>4. DOMAIN books' \subseteq Symbols
    BY <1>1 DEF IInv, GoodBooks
  <1> QED BY <1>3, <1>4 DEF GoodBooks

(* Marking one stale keeps the books good whatever is the highest number.  *)
LEMMA MarkingIsGood ==
    ASSUME IInv, NEW s \in Symbols,
           books' = Stale(s), published' = published,
           highest_seen'[s] \in Nat, highest_seen[s] <= highest_seen'[s],
           \A r \in Symbols \ {s} : highest_seen'[r] = highest_seen[r]
    PROVE  GoodBooks'
  BY MarkedStale, BookReplaced

LEMMA FeedUnchanged ==
    ASSUME IInv, published' = published PROVE GoodFeed'
  BY DEF IInv, GoodFeed, PublishedInOrder

(* The bookkeeping of numbers, for a message that is the newest so far.    *)
LEMMA NumbersAdvance ==
    ASSUME IInv, NEW s \in Symbols, NEW n \in DOMAIN published[s],
           Advances(s, n), result' \in Results
    PROVE  GoodNumbers'
  <1>1. n \in Nat
    BY DEF IInv, GoodFeed
  <1>2. /\ published' = published
        /\ replaying' = replaying
        /\ seen' = [seen EXCEPT ![s] = @ \cup {n}]
        /\ highest_seen' = [highest_seen EXCEPT ![s] = n]
        /\ n > highest_seen[s]
    BY DEF Advances, FirstTime
  <1> QED BY <1>1, <1>2 DEF IInv, GoodNumbers

LEMMA GapIsTyped ==
    ASSUME IInv, NEW s \in Symbols, NEW n \in DOMAIN published[s], Skips(s, n)
    PROVE  Gap(s, n) \in [symbol : Symbols, first_missing : Nat, last_missing : Nat]
  BY DEF IInv, GoodFeed, GoodNumbers, Skips, Gap

(* No number is lost unreported when the newest message so far arrives.    *)
LEMMA GapsStayReported ==
    ASSUME IInv, NEW s \in Symbols, NEW n \in DOMAIN published[s],
           Advances(s, n),
           result'.out_of_order_messages = result.out_of_order_messages,
           result.sequence_gaps \subseteq result'.sequence_gaps,
           Skips(s, n) => Gap(s, n) \in result'.sequence_gaps
    PROVE  EveryGapReported'
  <1>1. /\ seen' = [seen EXCEPT ![s] = @ \cup {n}]
        /\ highest_seen' = [highest_seen EXCEPT ![s] = n]
        /\ n > highest_seen[s]
    BY DEF Advances, FirstTime
  <1>2. n \in Nat \ {0} /\ highest_seen[s] \in Nat /\ seen[s] \subseteq Nat
    BY DEF IInv, GoodFeed, GoodNumbers
  <1> SUFFICES ASSUME NEW r \in Symbols, NEW m \in seen'[r],
                      <<r, m>> \notin result'.out_of_order_messages,
                      NEW k \in m .. highest_seen'[r]
               PROVE  \/ k \in seen'[r]
                      \/ \E gap \in result'.sequence_gaps :
                            gap.symbol = r /\ k \in gap.first_missing .. gap.last_missing
    BY DEF EveryGapReported
  <1>3. CASE r # s
    <2>1. seen'[r] = seen[r] /\ highest_seen'[r] = highest_seen[r]
      BY <1>1, <1>3 DEF IInv, GoodNumbers
    <2> QED BY <2>1 DEF IInv, EveryGapReported
  <1>4. CASE r = s
    <2>1. seen'[s] = seen[s] \cup {n} /\ highest_seen'[s] = n
      BY <1>1 DEF IInv, GoodNumbers
    <2>2. CASE k = n
      BY <2>1, <2>2, <1>4
    <2>3. CASE k # n
      <3>1. m \in seen[s] /\ k < n /\ m <= highest_seen[s] /\ highest_seen[s] # 0
        BY <2>1, <2>3, <1>4, <1>2 DEF IInv, GoodNumbers, GoodFeed
      <3>2. CASE k <= highest_seen[s]
        <4>1. k \in m .. highest_seen[s]
          BY <3>2, <1>2, <3>1
        <4> QED BY <4>1, <3>1, <1>4, <2>1 DEF IInv, EveryGapReported
      <3>3. CASE k > highest_seen[s]
        <4>1. Skips(s, n)
          BY <3>3, <3>1, <1>2 DEF Skips
        <4>2. Gap(s, n).symbol = s
              /\ k \in Gap(s, n).first_missing .. Gap(s, n).last_missing
          BY <3>3, <3>1, <1>2 DEF Gap
        <4> QED BY <4>1, <4>2, <1>4
      <3> QED BY <3>1, <3>2, <3>3, <1>2
    <2> QED BY <2>2, <2>3
  <1> QED BY <1>3, <1>4

-------------------------------------------------------------------------------
(* The publisher's steps.                                                  *)

LEMMA PublishedBookTyped ==
    ASSUME IInv, NEW s \in Symbols
    PROVE  /\ PublishedBook(s) \in MarketBooks
           /\ published[s] # <<>> => PublishedBook(s) = published[s][Len(published[s])].book
  <1>1. NoLevels \in [{} -> Sizes \ {0}]
    BY DEF NoLevels
  <1>2. NoLevels \in Depth
    BY <1>1 DEF Depth
  <1>3. CASE published[s] = <<>>
    BY <1>2, <1>3 DEF PublishedBook, MarketBooks, Trades
  <1>4. CASE published[s] # <<>>
    <2>1. published[s] \in Seq(Messages)
      BY DEF IInv, GoodFeed
    <2>2. published[s][Len(published[s])] \in Messages
      BY <2>1, <1>4
    <2> QED BY <2>2, <1>4 DEF PublishedBook, Messages
  <1> QED BY <1>3, <1>4

(* Whatever is published next leaves all that was received as good as it   *)
(* was, if it follows from the book before.                                *)
LEMMA PublishKeeps ==
    ASSUME IInv, NEW s \in Symbols,
           NEW type \in {"W", "X"}, NEW entries \in Updates \cup {<<>>},
           NEW book \in MarketBooks,
           Publish(s, type, entries, book),
           LET updated == Updated(PublishedBook(s), entries) IN
           type = "X" /\ updated.ok =>
                book.levels = updated.levels /\ book.trade = updated.trade
    PROVE  IInv'
  <1> DEFINE message == [type |-> type, entries |-> entries, book |-> book]
  <1>1. /\ published' = [published EXCEPT ![s] = Append(@, message)]
        /\ Len(published[s]) < MaxSeq[s]
        /\ books' = books /\ seen' = seen /\ highest_seen' = highest_seen
        /\ result' = result /\ replaying' = replaying
    BY DEF Publish, replay
  <1>2. message \in Messages
    BY DEF Messages
  <1>3. published \in [Symbols -> Seq(Messages)]
    BY DEF IInv, GoodFeed
  <1>4. published' \in [Symbols -> Seq(Messages)]
    BY <1>1, <1>2, <1>3
  <1>5. /\ Len(published'[s]) = Len(published[s]) + 1
        /\ DOMAIN published'[s] = DOMAIN published[s] \cup {Len(published[s]) + 1}
        /\ published'[s][Len(published[s]) + 1] = message
        /\ \A n \in DOMAIN published[s] : published'[s][n] = published[s][n]
    BY <1>1, <1>2, <1>3
  <1>6. \A r \in Symbols \ {s} : published'[r] = published[r]
    BY <1>1, <1>3
  <1>7. \A r \in Symbols : Len(published'[r]) <= MaxSeq'[r]
    <2>1. MaxSeq[s] \in Nat /\ Len(published[s]) \in Nat
      BY <1>3, MaxSeqAssumption
    <2> QED BY <1>1, <1>5, <1>6, <2>1 DEF IInv, GoodFeed
  <1>8. PublishedInOrder'
    <2> SUFFICES ASSUME NEW r \in Symbols, NEW n \in DOMAIN published'[r],
                        published'[r][n].type = "X", n > 1,
                        Updated(published'[r][n - 1].book, published'[r][n].entries).ok
                 PROVE  LET updated == Updated(published'[r][n - 1].book,
                                               published'[r][n].entries) IN
                        /\ published'[r][n].book.levels = updated.levels
                        /\ published'[r][n].book.trade = updated.trade
      BY DEF PublishedInOrder
    <2>1. CASE r = s /\ n = Len(published[s]) + 1
      <3>1. /\ published[s] # <<>>
            /\ n - 1 = Len(published[s])
            /\ n - 1 \in DOMAIN published[s]
        BY <2>1, <1>3
      <3>2. published'[r][n - 1].book = PublishedBook(s)
        BY <3>1, <2>1, <1>5, PublishedBookTyped
      <3>3. published'[r][n] = message
        BY <2>1, <1>5
      <3> QED BY <3>2, <3>3
    <2>2. CASE ~(r = s /\ n = Len(published[s]) + 1)
      <3>1. n \in DOMAIN published[r] /\ n - 1 \in DOMAIN published[r]
        BY <2>2, <1>3, <1>5, <1>6
      <3>2. /\ published'[r][n] = published[r][n]
            /\ published'[r][n - 1] = published[r][n - 1]
        BY <3>1, <1>5, <1>6
      <3> QED BY <3>1, <3>2 DEF IInv, GoodFeed, PublishedInOrder
    <2> QED BY <2>1, <2>2
  <1>9. \A r \in Symbols :
            /\ DOMAIN published[r] \subseteq DOMAIN published'[r]
            /\ Len(published[r]) <= Len(published'[r])
            /\ Len(published[r]) \in Nat /\ Len(published'[r]) \in Nat
            /\ \A n \in 1..Len(published[r]) : published'[r][n] = published[r][n]
    <2> TAKE r \in Symbols
    <2>1. published[r] \in Seq(Messages) /\ published'[r] \in Seq(Messages)
      BY <1>3, <1>4
    <2>2. CASE r = s
      BY <2>1, <2>2, <1>5
    <2>3. CASE r # s
      BY <2>1, <2>3, <1>6
    <2> QED BY <2>2, <2>3
  <1>10. GoodNumbers'
    BY <1>1, <1>9 DEF IInv, GoodNumbers
  <1>11. ASSUME NEW r \in DOMAIN books PROVE GoodBook(r, books[r], highest_seen[r])'
    <2>1. /\ GoodBook(r, books[r], highest_seen[r])
          /\ r \in Symbols
      BY DEF IInv, GoodBooks
    <2>2. books[r].last_seq_num \in Nat
      BY <2>1 DEF GoodBook, Books
    <2>3. books[r].last_seq_num # 0 =>
             published'[r][books[r].last_seq_num] = published[r][books[r].last_seq_num]
      BY <1>9, <2>1, <2>2 DEF GoodBook
    <2>4. books[r].last_seq_num <= Len(published'[r])
      BY <1>9, <2>1, <2>2 DEF GoodBook
    <2> QED BY <1>1, <2>1, <2>3, <2>4 DEF GoodBook
  <1>12. GoodBooks'
    BY <1>1, <1>11 DEF IInv, GoodBooks
  <1>13. EveryGapReported'
    BY <1>1 DEF IInv, EveryGapReported
  <1> QED BY <1>4, <1>7, <1>8, <1>10, <1>12, <1>13 DEF IInv, GoodFeed

LEMMA PublisherKeeps ==
    ASSUME IInv, NEW s \in Symbols,
           PublishSnapshot(s) \/ PublishIncremental(s) \/ PublishMisfit(s)
    PROVE  IInv'
  <1>1. CASE PublishSnapshot(s)
    BY <1>1, PublishKeeps, PublishedBookTyped DEF PublishSnapshot
  <1>2. CASE PublishIncremental(s)
    <2>1. PICK entries \in Updates :
            LET updated == Updated(PublishedBook(s), entries)
                book == [levels |-> updated.levels, trade |-> updated.trade]
            IN  book \in MarketBooks /\ Publish(s, "X", entries, book)
      BY <1>2 DEF PublishIncremental
    <2> QED BY <2>1, PublishKeeps
  <1>3. CASE PublishMisfit(s)
    <2>1. PICK entries \in Updates :
            /\ ~Updated(PublishedBook(s), entries).ok
            /\ Publish(s, "X", entries, PublishedBook(s))
      BY <1>3 DEF PublishMisfit
    <2> QED BY <2>1, PublishKeeps, PublishedBookTyped
  <1> QED BY <1>1, <1>2, <1>3

-------------------------------------------------------------------------------
(* The replay's steps.                                                     *)

LEMMA DuplicateKeeps ==
    ASSUME IInv, NEW s \in Symbols, NEW n \in DOMAIN published[s], Duplicate(s, n)
    PROVE  IInv'
  <1>1. n \in Nat
    BY DEF IInv, GoodFeed
  <1>2. /\ result' \in Results
        /\ result'.out_of_order_messages = result.out_of_order_messages
        /\ result'.sequence_gaps = result.sequence_gaps
    BY <1>1 DEF Duplicate, IInv, GoodNumbers, Results
  <1>3. UNCHANGED <<published, books, seen, highest_seen, replaying>>
    BY DEF Duplicate
  <1>4. GoodNumbers'
    BY <1>2, <1>3 DEF IInv, GoodNumbers
  <1>5. GoodBooks'
    BY <1>3 DEF IInv, GoodBooks, GoodBook
  <1>6. EveryGapReported'
    BY <1>2, <1>3 DEF IInv, EveryGapReported
  <1> QED BY <1>3, <1>4, <1>5, <1>6, FeedUnchanged DEF IInv

LEMMA LateKeeps ==
    ASSUME IInv, NEW s \in Symbols, NEW n \in DOMAIN published[s], Late(s, n)
    PROVE  IInv'
  <1>1. n \in Nat \ {0}
    BY DEF IInv, GoodFeed
  <1>2. /\ published' = published /\ replaying' = replaying
        /\ highest_seen' = highest_seen
        /\ seen' = [seen EXCEPT ![s] = @ \cup {n}]
        /\ n < highest_seen[s]
        /\ books' = Stale(s)
    BY DEF Late, FirstTime
  <1>3. /\ result' \in Results
        /\ result'.out_of_order_messages = result.out_of_order_messages \cup {<<s, n>>}
        /\ result'.sequence_gaps = result.sequence_gaps
    <2>1. <<s, n>> \in Symbols \X Nat
      BY <1>1
    <2> QED BY <2>1 DEF Late, Resync, IInv, GoodNumbers, Results
  <1>4. GoodNumbers'
    BY <1>1, <1>2, <1>3 DEF IInv, GoodNumbers
  <1>5. GoodBooks'
    BY <1>2, MarkingIsGood DEF IInv, GoodNumbers
  <1>6. EveryGapReported'
    BY <1>2, <1>3 DEF IInv, EveryGapReported, GoodNumbers
  <1> QED BY <1>2, <1>4, <1>5, <1>6, FeedUnchanged DEF IInv

(* What the ways that take a message for the newest have in common.        *)
LEMMA AdvanceKeeps ==
    ASSUME IInv, NEW s \in Symbols, NEW n \in DOMAIN published[s],
           Advances(s, n), GoodBooks', result' \in Results,
           result'.out_of_order_messages = result.out_of_order_messages,
           result.sequence_gaps \subseteq result'.sequence_gaps,
           Skips(s, n) => Gap(s, n) \in result'.sequence_gaps
    PROVE  IInv'
  <1>1. published' = published
    BY DEF Advances, FirstTime
  <1> QED BY <1>1, FeedUnchanged, NumbersAdvance, GapsStayReported DEF IInv

LEMMA OthersStay ==
    ASSUME IInv, NEW s \in Symbols, NEW n \in DOMAIN published[s], Advances(s, n)
    PROVE  /\ \A r \in Symbols \ {s} : highest_seen'[r] = highest_seen[r]
           /\ highest_seen'[s] = n
           /\ highest_seen[s] < n
           /\ highest_seen[s] \in Nat
           /\ published' = published
           /\ n \in Nat \ {0}
           /\ n <= Len(published[s])
           /\ published[s][n] \in Messages
  BY DEF IInv, GoodFeed, GoodNumbers, Advances, FirstTime

LEMMA SnapshotKeeps ==
    ASSUME IInv, NEW s \in Symbols, NEW n \in DOMAIN published[s], Snapshot(s, n)
    PROVE  IInv'
  <1> DEFINE original == published[s][n].book
             taken == SnapshotBook(Listed(original), original.trade, n)
  <1>1. Advances(s, n) /\ books' = WithBook(s, taken)
    BY DEF Snapshot
  <1>2. original \in MarketBooks
    BY <1>1, OthersStay DEF Messages
  <1>3. GoodBook(s, taken, n)
    <2>1. n \in Nat \ {0} /\ n <= n /\ n <= Len(published[s])
      BY <1>1, OthersStay
    <2>2. /\ taken \in Books /\ taken.last_seq_num = n
          /\ taken.levels = original.levels /\ taken.trade = original.trade
      BY <1>2, <2>1, SnapshotIsTheBook
    <2> QED BY <2>1, <2>2 DEF GoodBook
  <1>4. GoodBooks'
    BY <1>1, <1>3, OthersStay, BookReplaced
  <1>5. /\ result' \in Results
        /\ result'.out_of_order_messages = result.out_of_order_messages
        /\ result.sequence_gaps \subseteq result'.sequence_gaps
        /\ Skips(s, n) => Gap(s, n) \in result'.sequence_gaps
    BY GapIsTyped DEF Snapshot, IInv, GoodNumbers, Results
  <1> QED BY <1>1, <1>4, <1>5, AdvanceKeeps

LEMMA EarlyKeeps ==
    ASSUME IInv, NEW s \in Symbols, NEW n \in DOMAIN published[s], Early(s, n)
    PROVE  IInv'
  <1>1. Advances(s, n) /\ books' = Stale(s) /\ ~Skips(s, n)
    BY DEF Early, Skips
  <1>2. GoodBooks'
    BY <1>1, OthersStay, MarkingIsGood
  <1>3. /\ result' \in Results
        /\ result'.out_of_order_messages = result.out_of_order_messages
        /\ result'.sequence_gaps = result.sequence_gaps
    BY DEF Early, IInv, GoodNumbers, Results
  <1> QED BY <1>1, <1>2, <1>3, AdvanceKeeps

LEMMA AfterGapKeeps ==
    ASSUME IInv, NEW s \in Symbols, NEW n \in DOMAIN published[s], AfterGap(s, n)
    PROVE  IInv'
  <1>1. Advances(s, n) /\ books' = Stale(s) /\ Skips(s, n)
    BY DEF AfterGap
  <1>2. GoodBooks'
    BY <1>1, OthersStay, MarkingIsGood
  <1>3. /\ result' \in Results
        /\ result'.out_of_order_messages = result.out_of_order_messages
        /\ result'.sequence_gaps = result.sequence_gaps \cup {Gap(s, n)}
    BY <1>1, GapIsTyped DEF AfterGap, Resync, IInv, GoodNumbers, Results
  <1> QED BY <1>1, <1>2, <1>3, AdvanceKeeps

(* A stale or missing book stays good when the highest number advances.    *)
LEMMA IgnoredWhileStaleKeeps ==
    ASSUME IInv, NEW s \in Symbols, NEW n \in DOMAIN published[s],
           IgnoredWhileStale(s, n)
    PROVE  IInv'
  <1>1. /\ Advances(s, n) /\ books' = books /\ ~Skips(s, n)
        /\ s \in DOMAIN books => books[s].stale
    BY DEF IgnoredWhileStale, Continues, Skips, IInv, GoodNumbers
  <1>2. ASSUME NEW r \in DOMAIN books PROVE GoodBook(r, books[r], highest_seen[r])'
    <2>1. GoodBook(r, books[r], highest_seen[r]) /\ r \in Symbols
      BY DEF IInv, GoodBooks
    <2>2. r # s => highest_seen'[r] = highest_seen[r]
      BY <1>1, <2>1, OthersStay
    <2>3. books[r].last_seq_num \in Nat
      BY <2>1 DEF GoodBook, Books
    <2>4. CASE r = s
      <3>1. books[s].last_seq_num <= highest_seen'[s]
        BY <1>1, <2>1, <2>3, <2>4, OthersStay DEF GoodBook
      <3> QED BY <1>1, <2>1, <2>4, <3>1, OthersStay DEF GoodBook
    <2>5. CASE r # s
      BY <1>1, <2>1, <2>2, <2>5, OthersStay DEF GoodBook
    <2> QED BY <2>4, <2>5
  <1>3. GoodBooks'
    BY <1>1, <1>2 DEF IInv, GoodBooks
  <1>4. /\ result' \in Results
        /\ result'.out_of_order_messages = result.out_of_order_messages
        /\ result'.sequence_gaps = result.sequence_gaps
    BY DEF IgnoredWhileStale, IInv, GoodNumbers, Results
  <1> QED BY <1>1, <1>3, <1>4, AdvanceKeeps

(* The update of a book that is current is the publisher's own.            *)
LEMMA UpdateIsThePublishers ==
    ASSUME IInv, NEW s \in Symbols, NEW n \in DOMAIN published[s],
           Continues(s, n), s \in DOMAIN books, ~books[s].stale, CanApply(s, n)
    PROVE  LET updated == Updated(books[s], published[s][n].entries) IN
           /\ books[s].last_seq_num = n - 1
           /\ updated.levels = published[s][n].book.levels
           /\ updated.trade = published[s][n].book.trade
  <1> DEFINE before == published[s][n - 1].book
             entries == published[s][n].entries
  <1>1. /\ Advances(s, n) /\ n = highest_seen[s] + 1
        /\ published[s][n].type = "X"
    BY DEF Continues
  <1>2. /\ GoodBook(s, books[s], highest_seen[s])
        /\ books[s].last_seq_num = highest_seen[s] /\ highest_seen[s] # 0
        /\ highest_seen[s] \in Nat
    BY DEF IInv, GoodBooks, GoodBook, GoodNumbers
  <1>3. books[s].levels = before.levels /\ books[s].trade = before.trade
    BY <1>1, <1>2 DEF GoodBook
  <1>4. Draft(books[s]) = Draft(before)
    BY <1>3 DEF Draft
  <1>5. Updated(books[s], entries) = Updated(before, entries)
    BY <1>4 DEF Updated
  <1>6. Updated(before, entries).ok
    BY <1>5 DEF CanApply
  <1>7. n > 1
    BY <1>1, <1>2
  <1>8. /\ published[s][n].book.levels = Updated(before, entries).levels
        /\ published[s][n].book.trade = Updated(before, entries).trade
    BY <1>1, <1>6, <1>7 DEF IInv, GoodFeed, PublishedInOrder
  <1> QED BY <1>1, <1>2, <1>5, <1>8

LEMMA IncrementalKeeps ==
    ASSUME IInv, NEW s \in Symbols, NEW n \in DOMAIN published[s], Incremental(s, n)
    PROVE  IInv'
  <1> DEFINE updated == Updated(books[s], published[s][n].entries)
             taken == Taken(s, n)
  <1>1. /\ Continues(s, n) /\ Advances(s, n) /\ ~Skips(s, n)
        /\ s \in DOMAIN books /\ ~books[s].stale
    BY DEF Incremental, Continues, Skips, IInv, GoodNumbers
  <1>2. ASSUME CanApply(s, n), books' = WithBook(s, taken) PROVE GoodBooks'
    <2>1. /\ updated.levels = published[s][n].book.levels
          /\ updated.trade = published[s][n].book.trade
      BY <1>1, <1>2, UpdateIsThePublishers
    <2>2. published[s][n].book \in MarketBooks
      BY <1>1, OthersStay DEF Messages
    <2>3. /\ taken.levels = updated.levels /\ taken.trade = updated.trade
          /\ taken.last_seq_num = n /\ ~taken.stale
          /\ taken \in Books
      BY <2>1, <2>2, <1>1, OthersStay DEF Taken, BookState, MarketBooks, Books
    <2>4. n \in Nat \ {0} /\ n <= n /\ n <= Len(published[s])
      BY <1>1, OthersStay
    <2>5. GoodBook(s, taken, n)
      BY <2>1, <2>3, <2>4 DEF GoodBook
    <2> QED BY <2>5, <1>1, <1>2, OthersStay, BookReplaced
  <1>3. ASSUME books' = Stale(s) PROVE GoodBooks'
    BY <1>1, <1>3, OthersStay, MarkingIsGood
  <1>4. GoodBooks'
    BY <1>2, <1>3 DEF Incremental
  <1>5. /\ result' \in Results
        /\ result'.out_of_order_messages = result.out_of_order_messages
        /\ result'.sequence_gaps = result.sequence_gaps
    BY DEF Incremental, IInv, GoodNumbers, Results
  <1> QED BY <1>1, <1>4, <1>5, AdvanceKeeps

(* A damaged message leaves every number and every other book alone.       *)
LEMMA DamageKeeps ==
    ASSUME IInv, \/ \E s \in Symbols : Corrupt(s)
                 \/ Undecodable
                 \/ Aborts
    PROVE  IInv'
  <1>1. CASE \E s \in Symbols : Corrupt(s)
    <2>1. PICK s \in Symbols : Corrupt(s)
      BY <1>1
    <2>2. /\ UNCHANGED <<published, seen, highest_seen, replaying>>
          /\ books' = Stale(s)
          /\ result' = [result EXCEPT !.request_resync = TRUE]
      BY <2>1 DEF Corrupt
    <2>3. GoodBooks'
      BY <2>2, MarkingIsGood DEF IInv, GoodNumbers
    <2>4. GoodNumbers' /\ EveryGapReported'
      BY <2>2 DEF IInv, GoodNumbers, Results, EveryGapReported
    <2> QED BY <2>2, <2>3, <2>4, FeedUnchanged DEF IInv
  <1>2. CASE Undecodable \/ Aborts
    <2>1. /\ UNCHANGED <<published, books, seen, highest_seen>>
          /\ replaying' \in BOOLEAN
          /\ \/ result' = result
             \/ result' = [result EXCEPT !.request_resync = TRUE]
      BY <1>2 DEF Undecodable, Aborts, replay, IInv, GoodNumbers
    <2>2. GoodNumbers' /\ EveryGapReported'
      BY <2>1 DEF IInv, GoodNumbers, Results, EveryGapReported
    <2>3. GoodBooks'
      BY <2>1 DEF IInv, GoodBooks, GoodBook
    <2> QED BY <2>1, <2>2, <2>3, FeedUnchanged DEF IInv
  <1> QED BY <1>1, <1>2

-------------------------------------------------------------------------------
(* The invariants hold.                                                    *)

LEMMA InitIsGood == Init => IInv
  <1> SUFFICES ASSUME Init PROVE IInv
    OBVIOUS
  <1>1. GoodFeed
    BY MaxSeqAssumption DEF Init, GoodFeed, PublishedInOrder
  <1>2. GoodNumbers
    BY DEF Init, GoodNumbers, Results
  <1>3. GoodBooks
    BY DEF Init, GoodBooks
  <1>4. EveryGapReported
    BY DEF Init, EveryGapReported
  <1> QED BY <1>1, <1>2, <1>3, <1>4 DEF IInv

LEMMA StepsKeepInvariant == IInv /\ [Next]_vars => IInv'
  <1> SUFFICES ASSUME IInv, [Next]_vars PROVE IInv'
    OBVIOUS
  <1>1. CASE UNCHANGED vars
    <2>1. GoodNumbers' /\ GoodBooks' /\ EveryGapReported'
      BY <1>1 DEF vars, IInv, GoodNumbers, GoodBooks, GoodBook, EveryGapReported
    <2> QED BY <1>1, <2>1, FeedUnchanged DEF vars, IInv
  <1>2. ASSUME NEW s \in Symbols,
               PublishSnapshot(s) \/ PublishIncremental(s) \/ PublishMisfit(s)
        PROVE  IInv'
    BY <1>2, PublisherKeeps
  <1>3. ASSUME NEW s \in Symbols, NEW n \in DOMAIN published[s], Receive(s, n)
        PROVE  IInv'
    BY <1>3, DuplicateKeeps, LateKeeps, SnapshotKeeps, EarlyKeeps, AfterGapKeeps,
       IgnoredWhileStaleKeeps, IncrementalKeeps DEF Receive
  <1> QED BY <1>1, <1>2, <1>3, DamageKeeps DEF Next

LEMMA AlwaysGood == Spec => []IInv
  BY InitIsGood, StepsKeepInvariant, PTL DEF Spec

(* The shape of the replay's state, whatever is lost, late, repeated or    *)
(* damaged on the way.                                                     *)
THEOREM TypeCorrect == Spec => []TypeOK
  BY AlwaysGood, InvariantParts, PTL

(* Every reconstructed book is one the publisher had: apply_incremental    *)
(* works on a copy (book_reconstructor.py:92-122), so that an update that  *)
(* raises half way is not seen.                                            *)
THEOREM BooksAreThePublishers == Spec => []BooksAsPublished
  BY AlwaysGood, InvariantParts, PTL

(* A book not marked stale includes the newest message received.           *)
THEOREM NoBookIsSecretlyBehind == Spec => []FreshIsCurrent
  BY AlwaysGood, InvariantParts, PTL

(* A number missing since the first message of a symbol is in a reported   *)
(* gap (conformance_checker.py:144-179).                                   *)
THEOREM LossesAreReported == Spec => []EveryGapReported
  BY AlwaysGood, InvariantParts, PTL

-------------------------------------------------------------------------------
(* The replay implements FeedView.                                         *)

Shown(book) == [seq |-> book.last_seq_num, fresh |-> ~book.stale]

LEMMA ViewChanges ==
    ASSUME IInv, NEW s \in Symbols, NEW book, books' = WithBook(s, book)
    PROVE  View' = [View EXCEPT ![s] = Shown(book)]
  <1>1. /\ DOMAIN books' = DOMAIN books \cup {s}
        /\ books'[s] = book
        /\ \A r \in DOMAIN books \ {s} : books'[r] = books[r]
    BY DEF WithBook
  <1> QED BY <1>1 DEF View, Shown

LEMMA MarkingLoses ==
    ASSUME IInv, NEW s \in Symbols, books' = Stale(s), published' = published
    PROVE  Abstract!Lose(s)
  <1> DEFINE book == Stale(s)[s]
  <1>1. View' = [View EXCEPT ![s] = Shown(book)]
    BY MarkedStale, ViewChanges
  <1>2. Shown(book) = [seq |-> View[s].seq, fresh |-> FALSE]
    BY MarkedStale DEF Shown, View
  <1>3. Feed' = Feed
    BY DEF Feed
  <1> QED BY <1>1, <1>2, <1>3 DEF Abstract!Lose

LEMMA SnapshotResyncs ==
    ASSUME IInv, NEW s \in Symbols, NEW n \in DOMAIN published[s], Snapshot(s, n)
    PROVE  Abstract!Resync(s)
  <1> DEFINE original == published[s][n].book
             taken == SnapshotBook(Listed(original), original.trade, n)
  <1>1. Advances(s, n) /\ books' = WithBook(s, taken) /\ published[s][n].type = "W"
    BY DEF Snapshot
  <1>2. original \in MarketBooks
    BY <1>1, OthersStay DEF Messages
  <1>3. Shown(taken) = [seq |-> n, fresh |-> TRUE]
    <2>1. taken.last_seq_num = n /\ taken.stale = FALSE
      <3>1. n \in Nat
        BY <1>1, OthersStay
      <3> QED BY <3>1, <1>2, SnapshotIsTheBook
    <2> QED BY <2>1 DEF Shown
  <1>4. View' = [View EXCEPT ![s] = [seq |-> n, fresh |-> TRUE]]
    BY <1>1, <1>3, ViewChanges
  <1>5. n \in DOMAIN Feed[s] /\ Feed[s][n] = "W" /\ Feed' = Feed
    BY <1>1, OthersStay DEF Feed
  <1>6. n > View[s].seq
    <2>1. n > highest_seen[s] /\ highest_seen[s] \in Nat /\ n \in Nat
      BY <1>1, OthersStay DEF Advances, IInv, GoodNumbers
    <2>2. s \in DOMAIN books =>
             books[s].last_seq_num \in Nat /\ books[s].last_seq_num <= highest_seen[s]
      BY DEF IInv, GoodBooks, GoodBook, Books
    <2> QED BY <2>1, <2>2 DEF View
  <1> QED BY <1>4, <1>5, <1>6 DEF Abstract!Resync

(* An incremental is followed, or the view lost.                           *)
LEMMA IncrementalFollowsOrLoses ==
    ASSUME IInv, NEW s \in Symbols, NEW n \in DOMAIN published[s], Incremental(s, n)
    PROVE  Abstract!Follow(s) \/ Abstract!Lose(s)
  <1> DEFINE updated == Updated(books[s], published[s][n].entries)
             taken == Taken(s, n)
  <1>1. /\ Continues(s, n) /\ Advances(s, n) /\ published[s][n].type = "X"
        /\ s \in DOMAIN books /\ ~books[s].stale
    BY DEF Incremental, Continues
  <1>2. published' = published /\ n \in Nat
    BY <1>1, OthersStay
  <1>3. ASSUME CanApply(s, n), books' = WithBook(s, taken) PROVE Abstract!Follow(s)
    <2>1. books[s].last_seq_num = n - 1
      BY <1>1, <1>3, UpdateIsThePublishers
    <2>2. View[s].seq = n - 1 /\ View[s].fresh
      BY <1>1, <2>1 DEF View
    <2>3. View' = [View EXCEPT ![s] = Shown(taken)]
      BY <1>3, ViewChanges
    <2>4. Shown(taken) = [seq |-> n, fresh |-> TRUE]
      BY DEF Shown, Taken, BookState
    <2>5. View[s].seq + 1 = n
      BY <2>2, <1>2
    <2>6. View' = [View EXCEPT ![s] = [seq |-> View[s].seq + 1, fresh |-> TRUE]]
      BY <2>3, <2>4, <2>5
    <2>7. n \in DOMAIN Feed[s] /\ Feed[s][n] = "X" /\ Feed' = Feed
      BY <1>1, <1>2 DEF Feed
    <2> QED BY <2>2, <2>5, <2>6, <2>7 DEF Abstract!Follow
  <1>4. ASSUME books' = Stale(s) PROVE Abstract!Lose(s)
    BY <1>2, <1>4, MarkingLoses
  <1> QED BY <1>3, <1>4 DEF Incremental

LEMMA PublishingPublishes ==
    ASSUME IInv, NEW s \in Symbols,
           NEW type \in {"W", "X"}, NEW entries, NEW book,
           Publish(s, type, entries, book)
    PROVE  Abstract!Publish(s)
  <1> DEFINE message == [type |-> type, entries |-> entries, book |-> book]
  <1>1. /\ published' = [published EXCEPT ![s] = Append(@, message)]
        /\ books' = books
    BY DEF Publish, replay
  <1>2. published \in [Symbols -> Seq(Messages)]
    BY DEF IInv, GoodFeed
  <1>3. View' = View
    BY <1>1 DEF View
  <1>4. Feed[s] \in Seq({"W", "X"}) /\ Len(Feed[s]) = Len(published[s])
    <2>1. published[s] \in Seq(Messages) /\ Feed[s] = [n \in 1..Len(published[s]) |-> published[s][n].type]
      BY <1>2 DEF Feed
    <2>2. \A n \in 1..Len(published[s]) : published[s][n].type \in {"W", "X"}
      <3> TAKE n \in 1..Len(published[s])
      <3>1. published[s][n] \in Messages
        BY <2>1
      <3> QED BY <3>1 DEF Messages
    <2> QED BY <2>1, <2>2
  <1>5. Feed'[s] = Append(Feed[s], type)
    <2>1. published[s] \in Seq(Messages)
      BY <1>2
    <2>2. published'[s] = Append(published[s], message)
      BY <1>1, <1>2
    <2>3. /\ DOMAIN published'[s] = 1 .. Len(published[s]) + 1
          /\ published'[s][Len(published[s]) + 1] = message
          /\ \A n \in 1 .. Len(published[s]) : published'[s][n] = published[s][n]
      BY <2>1, <2>2
    <2>4. Feed'[s] = [n \in 1 .. Len(published[s]) + 1 |-> published'[s][n].type]
      BY <2>3 DEF Feed
    <2>5. Append(Feed[s], type) =
            [n \in 1 .. Len(published[s]) + 1 |->
                IF n = Len(published[s]) + 1 THEN type ELSE Feed[s][n]]
      BY <1>4
    <2>6. ASSUME NEW n \in 1 .. Len(published[s]) + 1
          PROVE  published'[s][n].type =
                    IF n = Len(published[s]) + 1 THEN type ELSE Feed[s][n]
      <3>1. CASE n = Len(published[s]) + 1
        BY <3>1, <2>3
      <3>2. CASE n # Len(published[s]) + 1
        <4>1. n \in 1 .. Len(published[s])
          BY <3>2, <2>1
        <4>2. Feed[s][n] = published[s][n].type
          BY <4>1, <2>1 DEF Feed
        <4> QED BY <3>2, <4>1, <4>2, <2>3
      <3> QED BY <3>1, <3>2
    <2> QED BY <2>4, <2>5, <2>6
  <1>6. \A r \in Symbols \ {s} : Feed'[r] = Feed[r]
    BY <1>1, <1>2 DEF Feed
  <1>7. Feed' = [Feed EXCEPT ![s] = Append(@, type)]
    BY <1>5, <1>6 DEF Feed
  <1> QED BY <1>3, <1>7 DEF Abstract!Publish

(* A step of the replay is a step of the view, or leaves it.               *)
LEMMA StepsMap ==
    ASSUME IInv, [Next]_vars
    PROVE  [Abstract!Next]_<<Feed, View>>
  <1>1. CASE UNCHANGED vars
    BY <1>1 DEF vars, Feed, View
  <1>2. ASSUME NEW s \in Symbols,
               PublishSnapshot(s) \/ PublishIncremental(s) \/ PublishMisfit(s)
        PROVE  Abstract!Next
    <2>1. Abstract!Publish(s)
      BY <1>2, PublishingPublishes
         DEF PublishSnapshot, PublishIncremental, PublishMisfit
    <2> QED BY <2>1 DEF Abstract!Next
  <1>3. ASSUME NEW s \in Symbols, NEW n \in DOMAIN published[s], Receive(s, n)
        PROVE  Abstract!Next \/ UNCHANGED <<Feed, View>>
    <2>1. CASE Duplicate(s, n) \/ IgnoredWhileStale(s, n)
      <3>1. published' = published /\ books' = books
        BY <2>1 DEF Duplicate, IgnoredWhileStale, Continues, Advances, FirstTime
      <3> QED BY <3>1 DEF Feed, View
    <2>2. CASE Late(s, n) \/ Early(s, n) \/ AfterGap(s, n)
      <3>1. published' = published /\ books' = Stale(s)
        BY <2>2 DEF Late, Early, AfterGap, Advances, FirstTime
      <3> QED BY <3>1, MarkingLoses DEF Abstract!Next
    <2>3. CASE Snapshot(s, n)
      BY <2>3, SnapshotResyncs DEF Abstract!Next
    <2>4. CASE Incremental(s, n)
      BY <2>4, IncrementalFollowsOrLoses DEF Abstract!Next
    <2> QED BY <1>3, <2>1, <2>2, <2>3, <2>4 DEF Receive
  <1>4. ASSUME NEW s \in Symbols, Corrupt(s) PROVE Abstract!Next
    BY <1>4, MarkingLoses DEF Corrupt, Abstract!Next
  <1>5. CASE Undecodable \/ Aborts
    BY <1>5 DEF Undecodable, Aborts, replay, Feed, View
  <1> QED BY <1>1, <1>2, <1>3, <1>4, <1>5 DEF Next

(* Nothing but a snapshot newer than all the book includes makes a book    *)
(* good again, and a good book skips no message (conformance_checker.py:   *)
(* 81-82, 127-190): the replay implements FeedView.                        *)
THEOREM ReplayImplementsFeedView == Spec => ImplementsFeedView
  <1>1. Init => Abstract!Init
    BY DEF Init, Abstract!Init, Feed, View
  <1>2. IInv /\ [Next]_vars => [Abstract!Next]_<<Feed, View>>
    BY StepsMap
  <1> QED BY <1>1, <1>2, AlwaysGood, PTL DEF Spec, ImplementsFeedView, Abstract!Spec

===============================================================================
