---------------------------- MODULE MarketDataReplay ----------------------------
(***************************************************************************)
(* fixgateway/marketdata/conformance_checker.py: feed_replay, one message  *)
(* after the other, over whatever way from the publisher to the replay.    *)
(*                                                                         *)
(* The publisher is external: per symbol it numbers its messages from 1    *)
(* and keeps the book they describe.  What it published is delivered in    *)
(* any order, any number of times, or never, intact or damaged.            *)
(***************************************************************************)
EXTENDS MarketDataBook, FiniteSets

CONSTANTS
    Symbols,
    Levels,         \* the <<side, price>> a snapshot lists
    Sizes,          \* the sizes a level can have
    Updates,        \* the entries of the incrementals a publisher may send
    MaxSeq          \* how many messages it sends, per symbol (bound)

(* The sizes of the levels in use; a level in use is not empty.            *)
Depth == UNION {[used -> Sizes \ {0}] : used \in SUBSET Levels}

Trades == {NoTrade} \cup (Nat \X Nat)

ASSUME SizesAssumption == Sizes \subseteq Nat

ASSUME MaxSeqAssumption == MaxSeq \in [Symbols -> Nat]

VARIABLES
    published,      \* per symbol, its messages and the book after each
    books,          \* OrderBook._books
    seen,           \* sequence numbers received, per symbol
    highest_seen,   \* the highest of them, 0 if none
    result,         \* what the ConformanceResult holds so far
    replaying       \* FALSE once feed_replay has raised

(* What a publisher knows of its book, and what the replay knows.          *)
MarketBooks == [levels : Depth, trade : Trades]

Books == [levels : Depth, trade : Trades, last_seq_num : Nat, stale : BOOLEAN]

Messages == [type : {"W", "X"}, entries : Updates \cup {<<>>}, book : MarketBooks]

Results == [sequence_gaps : SUBSET [symbol : Symbols, first_missing : Nat, last_missing : Nat],
            duplicate_messages : SUBSET (Symbols \X Nat),
            out_of_order_messages : SUBSET (Symbols \X Nat),
            request_resync : BOOLEAN]

replay == <<books, seen, highest_seen, result>>
vars == <<published, books, seen, highest_seen, result, replaying>>

Init ==
    /\ published = [s \in Symbols |-> <<>>]
    /\ books = [s \in {} |-> EmptyBook]
    /\ seen = [s \in Symbols |-> {}]
    /\ highest_seen = [s \in Symbols |-> 0]
    /\ result = [sequence_gaps |-> {}, duplicate_messages |-> {},
                 out_of_order_messages |-> {}, request_resync |-> FALSE]
    /\ replaying = TRUE

-------------------------------------------------------------------------------
(* The publisher: it deletes a level that has become empty.                *)

PublishedBook(s) ==
    IF published[s] = <<>> THEN [levels |-> NoLevels, trade |-> NoTrade]
    ELSE published[s][Len(published[s])].book

Publish(s, type, entries, book) ==
    /\ Len(published[s]) < MaxSeq[s]
    /\ published' = [published EXCEPT ![s] =
            Append(@, [type |-> type, entries |-> entries, book |-> book])]
    /\ UNCHANGED <<replay, replaying>>

PublishSnapshot(s) == Publish(s, "W", <<>>, PublishedBook(s))

PublishIncremental(s) ==
    \E entries \in Updates :
        LET updated == Updated(PublishedBook(s), entries)
            book == [levels |-> updated.levels, trade |-> updated.trade]
        IN
        /\ updated.ok
        /\ book \in MarketBooks
        /\ Publish(s, "X", entries, book)

(* An incremental that does not fit the book it is about.                  *)
PublishMisfit(s) ==
    \E entries \in Updates :
        /\ ~Updated(PublishedBook(s), entries).ok
        /\ Publish(s, "X", entries, PublishedBook(s))

(* A snapshot lists the levels in use, and the others with size zero.      *)
Listed(book) ==
    [level \in Levels |->
        IF level \in DOMAIN book.levels THEN book.levels[level] ELSE 0]

-------------------------------------------------------------------------------
(* The replay: one action per way through the loop body.                   *)

WithBook(s, book) ==
    [symbol \in DOMAIN books \cup {s} |-> IF symbol = s THEN book ELSE books[symbol]]

(* mark_stale                                                              *)
Stale(s) ==
    LET book == IF s \in DOMAIN books THEN books[s] ELSE EmptyBook IN
    WithBook(s, [book EXCEPT !.stale = TRUE])

Resync(field, report) ==
    [[result EXCEPT ![field] = @ \cup {report}] EXCEPT !.request_resync = TRUE]

(* Intact message n of symbol s arrives for the first time.                *)
FirstTime(s, n) ==
    /\ replaying
    /\ n \in DOMAIN published[s]
    /\ n \notin seen[s]
    /\ seen' = [seen EXCEPT ![s] = @ \cup {n}]
    /\ UNCHANGED <<published, replaying>>

(* ... and it is not older than one that arrived before.                   *)
Advances(s, n) ==
    /\ FirstTime(s, n)
    /\ n > highest_seen[s]
    /\ highest_seen' = [highest_seen EXCEPT ![s] = n]

Gap(s, n) == [symbol |-> s, first_missing |-> highest_seen[s] + 1, last_missing |-> n - 1]

Skips(s, n) == highest_seen[s] # 0 /\ n > highest_seen[s] + 1

Duplicate(s, n) ==
    /\ replaying
    /\ n \in seen[s]
    /\ result' = [result EXCEPT !.duplicate_messages = @ \cup {<<s, n>>}]
    /\ UNCHANGED <<published, books, seen, highest_seen, replaying>>

Late(s, n) ==
    /\ FirstTime(s, n)
    /\ n < highest_seen[s]
    /\ result' = Resync("out_of_order_messages", <<s, n>>)
    /\ books' = Stale(s)
    /\ UNCHANGED highest_seen

(* Mutant: the gap a snapshot closes is not reported.                      *)
SnapshotUnreported(s, n) ==
    /\ Advances(s, n)
    /\ published[s][n].type = "W"
    /\ books' = WithBook(s, SnapshotBook(Listed(published[s][n].book),
                                         published[s][n].book.trade, n))
    /\ UNCHANGED result

Snapshot(s, n) ==
    /\ Advances(s, n)
    /\ published[s][n].type = "W"
    /\ books' = WithBook(s, SnapshotBook(Listed(published[s][n].book),
                                         published[s][n].book.trade, n))
    /\ result' = IF Skips(s, n)
                 THEN [result EXCEPT !.sequence_gaps = @ \cup {Gap(s, n)}]
                 ELSE result

(* An incremental before anything else.                                    *)
Early(s, n) ==
    /\ Advances(s, n)
    /\ published[s][n].type = "X"
    /\ highest_seen[s] = 0
    /\ books' = Stale(s)
    /\ result' = [result EXCEPT !.request_resync = TRUE]

(* Mutant: the gap is reported and the book left as it is.                 *)
GapTolerated(s, n) ==
    /\ Advances(s, n)
    /\ published[s][n].type = "X"
    /\ Skips(s, n)
    /\ result' = Resync("sequence_gaps", Gap(s, n))
    /\ UNCHANGED books

AfterGap(s, n) ==
    /\ Advances(s, n)
    /\ published[s][n].type = "X"
    /\ Skips(s, n)
    /\ books' = Stale(s)
    /\ result' = Resync("sequence_gaps", Gap(s, n))

Continues(s, n) ==
    /\ Advances(s, n)
    /\ published[s][n].type = "X"
    /\ highest_seen[s] # 0
    /\ n = highest_seen[s] + 1

(* Mutant: a stale book takes the next incremental.                        *)
StaleFollows(s, n) ==
    /\ Continues(s, n)
    /\ s \in DOMAIN books => books[s].stale
    /\ books' = [books EXCEPT ![s].stale = FALSE, ![s].last_seq_num = n]
    /\ UNCHANGED result

IgnoredWhileStale(s, n) ==
    /\ Continues(s, n)
    /\ s \in DOMAIN books => books[s].stale
    /\ result' = [result EXCEPT !.request_resync = TRUE]
    /\ UNCHANGED books

(* apply_incremental on a book that is neither missing nor stale: what it  *)
(* raises leaves the book as it was, and marks it stale.                   *)
CanApply(s, n) ==
    /\ books[s].last_seq_num # 0 => n = books[s].last_seq_num + 1
    /\ Updated(books[s], published[s][n].entries).ok

(* Mutant: the entries before the one that raised stay applied.            *)
IncrementalInPlace(s, n) ==
    LET updated == Updated(books[s], published[s][n].entries) IN
    /\ Continues(s, n)
    /\ s \in DOMAIN books
    /\ ~books[s].stale
    /\ books' = WithBook(s, BookState(updated.levels, updated.trade,
                    IF CanApply(s, n) THEN n ELSE books[s].last_seq_num,
                    ~CanApply(s, n)))
    /\ result' = [result EXCEPT !.request_resync = @ \/ ~CanApply(s, n)]

Taken(s, n) ==
    LET updated == Updated(books[s], published[s][n].entries) IN
    BookState(updated.levels, updated.trade, n, FALSE)

Incremental(s, n) ==
    /\ Continues(s, n)
    /\ s \in DOMAIN books
    /\ ~books[s].stale
    /\ \/ /\ CanApply(s, n)
          /\ books' = WithBook(s, Taken(s, n))
          /\ UNCHANGED result
       \/ /\ ~CanApply(s, n)
          /\ books' = Stale(s)
          /\ result' = [result EXCEPT !.request_resync = TRUE]

(* A message whose checksum or length is wrong but whose fields can be     *)
(* read: the symbol it shows need not be the one it was about.             *)
Corrupt(s) ==
    /\ replaying
    /\ \E sent \in Symbols : published[sent] # <<>>
    /\ books' = Stale(s)
    /\ result' = [result EXCEPT !.request_resync = TRUE]
    /\ UNCHANGED <<published, seen, highest_seen, replaying>>

Undecodable ==
    /\ replaying
    /\ \E sent \in Symbols : published[sent] # <<>>
    /\ result' = [result EXCEPT !.request_resync = TRUE]
    /\ UNCHANGED <<published, books, seen, highest_seen, replaying>>

(* A damaged price, size or type is no FixDecodeError: feed_replay ends    *)
(* with a ValueError and returns nothing.                                  *)
Aborts ==
    /\ replaying
    /\ \E sent \in Symbols : published[sent] # <<>>
    /\ replaying' = FALSE
    /\ UNCHANGED <<published, replay>>

Receive(s, n) ==
    \/ Duplicate(s, n)
    \/ Late(s, n)
    \/ Snapshot(s, n)
    \/ Early(s, n)
    \/ AfterGap(s, n)
    \/ IgnoredWhileStale(s, n)
    \/ Incremental(s, n)

Next ==
    \/ \E s \in Symbols :
          \/ PublishSnapshot(s) \/ PublishIncremental(s) \/ PublishMisfit(s)
          \/ \E n \in DOMAIN published[s] : Receive(s, n)
          \/ Corrupt(s)
    \/ Undecodable
    \/ Aborts

Spec == Init /\ [][Next]_vars

-------------------------------------------------------------------------------

(* The shape of the state: books exist for symbols only, what was seen was *)
(* published, and the highest number is that of a message seen.            *)
TypeOK ==
    /\ published \in [Symbols -> Seq(Messages)]
    /\ \A s \in Symbols : Len(published[s]) <= MaxSeq[s]
    /\ DOMAIN books \subseteq Symbols
    /\ \A s \in DOMAIN books :
          books[s] \in Books /\ books[s].last_seq_num <= Len(published[s])
    /\ seen \in [Symbols -> SUBSET Nat]
    /\ highest_seen \in [Symbols -> Nat]
    /\ \A s \in Symbols :
          /\ \A n \in seen[s] : n \in DOMAIN published[s] /\ n <= highest_seen[s]
          /\ highest_seen[s] = 0 \/ highest_seen[s] \in seen[s]
    /\ result \in Results
    /\ replaying \in BOOLEAN

(* Every reconstructed book, even one marked stale, is the book the        *)
(* publisher had after the message it is labelled with: no half-applied    *)
(* incremental, no empty level of a snapshot (book_reconstructor.py:57-123).*)
BooksAsPublished ==
    \A s \in DOMAIN books :
        books[s].last_seq_num # 0 =>
            LET original == published[s][books[s].last_seq_num].book IN
            /\ books[s].levels = original.levels
            /\ books[s].trade = original.trade

(* A book that is not marked stale includes everything up to the newest    *)
(* message received: no gap, late message or failed incremental leaves a   *)
(* book that looks good and is behind (conformance_checker.py:127-190).    *)
FreshIsCurrent ==
    \A s \in DOMAIN books :
        ~books[s].stale => books[s].last_seq_num = highest_seen[s] /\ highest_seen[s] # 0

(* From the first message of a symbol on, whatever number is missing is    *)
(* inside a reported gap, whether an incremental or a snapshot revealed    *)
(* it, and whatever came late, twice or damaged in between.                *)
EveryGapReported ==
    \A s \in Symbols : \A m \in seen[s] :
        <<s, m>> \notin result.out_of_order_messages =>
            \A n \in m .. highest_seen[s] :
                \/ n \in seen[s]
                \/ \E gap \in result.sequence_gaps :
                      gap.symbol = s /\ n \in gap.first_missing .. gap.last_missing

(* The replay as a FeedView: "marks a book stale until a fresh snapshot    *)
(* arrives" (README.md:36-37), "incrementals are ignored until a newer full *)
(* snapshot arrives" (conformance_checker.py:81-82).                       *)
View ==
    [s \in Symbols |->
        IF s \in DOMAIN books
        THEN [seq |-> books[s].last_seq_num, fresh |-> ~books[s].stale]
        ELSE [seq |-> 0, fresh |-> FALSE]]

Feed == [s \in Symbols |-> [n \in DOMAIN published[s] |-> published[s][n].type]]

Abstract == INSTANCE FeedView WITH feed <- Feed, view <- View

ImplementsFeedView == Abstract!Spec

===============================================================================
