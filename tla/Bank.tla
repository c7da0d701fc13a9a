-------------------------------- MODULE Bank --------------------------------
(* What a chain promises the holders of its accounts, with no block, hash,  *)
(* seal, pool or request in it: every chain made is one set of books, in    *)
(* which a list of transfers is settled at a time, each of them possible    *)
(* after those ahead of it, and one reward is paid with every list.         *)
EXTENDS Integers, Sequences

CONSTANTS
    Accounts,
    Reward,
    Batches         \* the lists of transfers that may be settled at once

VARIABLES
    books,          \* of every chain made
    settled         \* how many lists have been settled in each

Blank ==
    [funds |-> [a \in Accounts |-> 0],      \* what each account has
     next  |-> [a \in Accounts |-> 0]]      \* the number of its next transfer

Possible(book, t) ==
    /\ t.from \in Accounts
    /\ t.amount > 0 /\ t.amount <= book.funds[t.from]
    /\ t.seq = book.next[t.from]

Change(t, a) ==
    (IF t.to = a THEN t.amount ELSE 0) - (IF t.from = a THEN t.amount ELSE 0)

Moved(book, t) ==
    [funds |-> [a \in Accounts |-> book.funds[a] + Change(t, a)],
     next  |-> [a \in Accounts |-> book.next[a] + (IF t.from = a THEN 1 ELSE 0)]]

Rewarded(book, who) ==
    [funds |-> [a \in Accounts |-> book.funds[a] + (IF a = who THEN Reward ELSE 0)],
     next  |-> book.next]

\* The book after each of the first transfers of a batch.
Along(book, batch) ==
    LET entry[k \in 0 .. Len(batch)] ==
            IF k = 0 THEN book ELSE Moved(entry[k - 1], batch[k])
    IN  entry

Init == books = <<>> /\ settled = <<>>

Open == books' = Append(books, Blank) /\ settled' = Append(settled, 0)

Settle(c) ==
    /\ settled' = [settled EXCEPT ![c] = @ + 1]
    /\ LET book == books[c]
       IN  \E batch \in Batches, who \in Accounts :
              /\ \A k \in 1 .. Len(batch) :
                    Possible(Along(book, batch)[k - 1], batch[k])
              /\ books' = [books EXCEPT ![c] =
                              Rewarded(Along(book, batch)[Len(batch)], who)]

Next == Open \/ \E c \in DOMAIN books : Settle(c)

Spec == Init /\ [][Next]_<<books, settled>>
=============================================================================
