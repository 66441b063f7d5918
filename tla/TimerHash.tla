----------------------------- MODULE TimerHash -----------------------------
(***************************************************************************)
(* The hash table of fun_timer/timerfd_hash.c.  A bucket is the sequence   *)
(* of the entries its next pointers run through.  hash_foreach hands every *)
(* entry to a callback, which may itself add and delete: an entry deleted  *)
(* under its own callback stays in its list with a null key until the      *)
(* callback returns.                                                       *)
(***************************************************************************)
EXTENDS Integers, Sequences, FiniteSets, SequencesExt

CONSTANTS
    Keys, Data,
    NoData,             \* the null pointer as data
    Hash,               \* ops->hash
    InitialSize,        \* a_size of hash_new
    SD_HASH_FULLTAB, SD_HASH_GROWTAB,
    MaxSize,            \* bound: the table is not grown past this
    MaxCalls            \* bound: calls made in the callbacks of one hash_foreach

HashAssumption ==
    /\ IsFiniteSet(Keys) /\ NoData \notin Data
    /\ Hash \in [Keys -> Nat]
    /\ {InitialSize, SD_HASH_FULLTAB, SD_HASH_GROWTAB} \subseteq Nat \ {0}
    /\ MaxCalls \in Nat /\ MaxSize \in Nat

NoKey == "NULL"
Entries == 1 .. Cardinality(Keys) + 1   \* blocks for entries; one may hold a null key

VARIABLES
    size, tab, nelem,
    entry,          \* what each allocated entry holds: key, data, hkey, foreach
    pc,             \* "idle", in hash_foreach "bucket", "callback" or "end", or "undefined"
    h, p,           \* hash_foreach's bucket and entry
    calls,          \* calls made in callbacks
    walk            \* history of the hash_foreach: the entries there since it began, how
                    \* often each entry was handed over, whether the table has grown

table == <<size, tab, nelem, entry>>
loop == <<h, p>>
vars == <<table, pc, loop, calls, walk>>

Free == [key |-> NoKey, data |-> NoData, hkey |-> 0, foreach |-> 0]
Chained == UNION {Range(tab[b]) : b \in 0 .. size - 1}
Bucket(hkey) == hkey % size

NoWalk == [since |-> {}, visits |-> [e \in Entries |-> 0], grown |-> FALSE]

Init ==
    /\ size = InitialSize /\ nelem = 0
    /\ tab = [b \in 0 .. InitialSize - 1 |-> <<>>]
    /\ entry = [e \in Entries |-> Free]
    /\ pc = "idle" /\ h = 0 /\ p = 1 /\ calls = 0
    /\ walk = NoWalk

----------------------------------------------------------------------------
\* The walk of hash_lookup and hash_del along a bucket: where it stops at the
\* key, or at a null key, on which ops->compare may not be called; or nowhere.
Stops(k) == {i \in DOMAIN tab[Bucket(Hash[k])] :
                entry[tab[Bucket(Hash[k])][i]].key \in {k, NoKey}}
Found(k) == Stops(k) # {}
FirstStop(k) == tab[Bucket(Hash[k])][CHOOSE i \in Stops(k) : \A j \in Stops(k) : i <= j]
ComparesNull(k) == Found(k) /\ entry[FirstStop(k)].key = NoKey

\* The application calls outside hash_foreach, or in its callback.
Call ==
    \/ pc = "idle" /\ UNCHANGED calls
    \/ pc = "callback" /\ calls < MaxCalls /\ calls' = calls + 1

FaultyRehash(n) ==
    LET all == FlattenSeq([i \in 1 .. size |-> tab[i - 1]])
    IN  [b \in 0 .. n - 1 |-> Reverse(SelectSeq(all, LAMBDA e : b = Bucket(entry[e].hkey)))]

\* rehash: every entry is pushed at the head of its list in the new table.
Rehash(n) ==
    LET all == FlattenSeq([i \in 1 .. size |-> tab[i - 1]])
    IN  [b \in 0 .. n - 1 |-> Reverse(SelectSeq(all, LAMBDA e : b = entry[e].hkey % n))]

\* Whether hash_lookadd grows the table; calloc may refuse.
MayGrow(grows) ==
    IF nelem > SD_HASH_FULLTAB * size THEN grows \in {TRUE, FALSE} ELSE grows = FALSE

\* hash_add of a key the table has: hash_lookadd returns its entry.
Replace(k, d) ==
    /\ Call /\ Found(k) /\ ~ComparesNull(k)
    /\ entry' = [entry EXCEPT ![FirstStop(k)].data = d]
    /\ UNCHANGED <<size, tab, nelem, pc, loop, walk>>

\* hash_add of a new key: a block from calloc, at the head of its list.
AddNew(k, d, grows) ==
    LET e == CHOOSE f \in Entries \ Chained : \A g \in Entries \ Chained : f <= g
        n == IF grows THEN SD_HASH_GROWTAB * size ELSE size
        t == IF grows THEN Rehash(n) ELSE tab
    IN  /\ Call /\ ~Found(k) /\ n <= MaxSize
        /\ MayGrow(grows)
        /\ size' = n
        /\ tab' = [t EXCEPT ![Hash[k] % n] = <<e>> \o @]
        /\ entry' = [entry EXCEPT ![e] = [key |-> k, data |-> d, hkey |-> Hash[k], foreach |-> 0]]
        /\ nelem' = nelem + 1
        /\ walk' = [walk EXCEPT !.visits[e] = 0, !.grown = pc = "callback" /\ (@ \/ grows)]
        /\ UNCHANGED <<pc, loop>>

Unlink(e) == [tab EXCEPT ![Bucket(entry[e].hkey)] = SelectSeq(@, LAMBDA f : f # e)]

\* hash_del: hash_iter_del unlinks and frees the entry, or only empties it while
\* hash_foreach has it under its callback.
Del(k) ==
    /\ Call /\ Found(k) /\ ~ComparesNull(k)
    /\ LET e == FirstStop(k)
       IN  IF entry[e].foreach = 1
           THEN /\ entry' = [entry EXCEPT ![e].key = NoKey, ![e].data = NoData, ![e].foreach = 0]
                /\ walk' = [walk EXCEPT !.since = @ \ {e}]
                /\ UNCHANGED <<tab, nelem>>
           ELSE /\ tab' = Unlink(e) /\ nelem' = nelem - 1
                /\ entry' = [entry EXCEPT ![e] = Free]
                /\ walk' = [walk EXCEPT !.since = @ \ {e}]
    /\ UNCHANGED <<size, pc, loop>>

\* A call that walks into the emptied entry: strcmp on a null pointer.
NullCompare(k) ==
    /\ Call /\ ComparesNull(k)
    /\ pc' = "undefined"
    /\ UNCHANGED <<table, loop, walk>>

\* hash_clear, which hash_delete calls too.
HashClear ==
    /\ pc = "idle" /\ nelem > 0
    /\ tab' = [b \in DOMAIN tab |-> <<>>] /\ nelem' = 0
    /\ entry' = [e \in Entries |-> Free]
    /\ UNCHANGED <<size, pc, loop, calls, walk>>

----------------------------------------------------------------------------
(* hash_foreach.                                                           *)

Foreach ==
    /\ pc = "idle"
    /\ pc' = "bucket"
    /\ walk' = [NoWalk EXCEPT !.since = Chained]
    /\ UNCHANGED <<table, loop, calls>>

\* The callback gets the entry (the history counts up to two).
HandOver(e, entries) ==
    /\ p' = e /\ pc' = "callback"
    /\ entry' = [entries EXCEPT ![e].foreach = 1]
    /\ walk' = [walk EXCEPT !.visits[e] = IF @ < 2 THEN @ + 1 ELSE @]

\* The next bucket, if there is one in the table as it is by now.
EnterBucket ==
    /\ pc = "bucket"
    /\ \/ /\ h >= size
          /\ pc' = "end"
          /\ UNCHANGED <<entry, loop, walk>>
       \/ /\ h < size /\ tab[h] = <<>>
          /\ h' = h + 1
          /\ UNCHANGED <<entry, pc, p, walk>>
       \/ /\ h < size /\ tab[h] # <<>>
          /\ HandOver(Head(tab[h]), entry)
          /\ UNCHANGED h
    /\ UNCHANGED <<size, tab, nelem, calls>>

\* p->next, read when the callback has returned; 0 is the end of the list.
Successor(e) ==
    LET list == tab[Bucket(entry[e].hkey)]
        after == {i \in DOMAIN list : i > 1 /\ list[i - 1] = e}
    IN  IF after = {} THEN 0 ELSE list[CHOOSE i \in after : TRUE]

\* The callback returns: an entry it deleted is now unlinked and freed, and the
\* walk goes on from the successor unless the callback asked to stop.
CallbackReturn(ret) ==
    LET q == Successor(p)
        deleted == entry[p].foreach = 0
        rest == [entry EXCEPT ![p] = IF deleted THEN Free ELSE [@ EXCEPT !.foreach = 0]]
    IN  /\ pc = "callback"
        /\ IF deleted THEN tab' = Unlink(p) /\ nelem' = nelem - 1 ELSE UNCHANGED <<tab, nelem>>
        /\ \/ /\ ret # 0
              /\ pc' = "end" /\ entry' = rest /\ walk' = NoWalk /\ UNCHANGED <<h, p>>
           \/ /\ ret = 0 /\ q # 0
              /\ HandOver(q, rest) /\ UNCHANGED h
           \/ /\ ret = 0 /\ q = 0
              /\ pc' = "bucket" /\ h' = h + 1 /\ entry' = rest /\ UNCHANGED <<p, walk>>
        /\ UNCHANGED <<size, calls>>

\* hash_foreach returns.
ForeachReturn ==
    /\ pc = "end"
    /\ pc' = "idle" /\ h' = 0 /\ p' = 1 /\ calls' = 0 /\ walk' = NoWalk
    /\ UNCHANGED table

Next ==
    \/ \E k \in Keys, d \in Data : Replace(k, d) \/ \E grows \in BOOLEAN : AddNew(k, d, grows)
    \/ \E k \in Keys : Del(k) \/ NullCompare(k)
    \/ HashClear \/ Foreach \/ EnterBucket \/ ForeachReturn
    \/ \E ret \in {0, 1} : CallbackReturn(ret)

\* The loop goes on and callbacks return, some day without asking to stop.
Spec ==
    /\ Init /\ [][Next]_vars
    /\ WF_vars(EnterBucket) /\ WF_vars(CallbackReturn(0)) /\ WF_vars(ForeachReturn)

----------------------------------------------------------------------------
(* The iterators.                                                          *)

\* The loop over the buckets that hash_begin and hash_iter_next have in common.
FirstFrom(b) ==
    LET full == {c \in b .. size - 1 : tab[c] # <<>>}
    IN  IF full = {} THEN 0 ELSE Head(tab[CHOOSE c \in full : \A d \in full : c <= d])

\* From list to list through the table; 0 is hash_end.
hash_begin == FirstFrom(0)
hash_iter_next(e) ==
    IF Successor(e) # 0 THEN Successor(e) ELSE FirstFrom(Bucket(entry[e].hkey) + 1)

----------------------------------------------------------------------------
\* The type of the state, with no entry chained twice and nelem counting them.
TypeOK ==
    /\ size \in Nat \ {0} /\ tab \in [0 .. size - 1 -> Seq(Entries)]
    /\ entry \in [Entries -> [key : Keys \cup {NoKey}, data : Data \cup {NoData},
                              hkey : Nat, foreach : {0, 1}]]
    /\ \A b \in DOMAIN tab : IsInjective(tab[b])
    /\ nelem = Cardinality(Chained)
    /\ pc \in {"idle", "bucket", "callback", "end", "undefined"}

\* Every entry is in the bucket where hash_lookup looks for its key, and no key
\* is in two entries: across rehash, and while the callbacks of hash_foreach
\* change the lists under it.
LookupFindsKeys ==
    /\ \A b \in DOMAIN tab : \A e \in Range(tab[b]) :
          Bucket(entry[e].hkey) = b /\ (entry[e].key # NoKey => entry[e].hkey = Hash[entry[e].key])
    /\ \A e, f \in Chained : (entry[e].key = entry[f].key /\ entry[e].key # NoKey) => e = f

\* An entry without a key is only ever the one under the callback.
EmptiedIsCurrent ==
    \A e \in Chained : entry[e].key = NoKey => pc \in {"callback", "undefined"} /\ e = p

\* The entry hash_foreach goes on from is still in the table: its callback
\* cannot have had it freed.
CurrentIsChained == pc = "callback" => p \in Chained

\* A hash_foreach that ran to its end, the table not having grown meanwhile, has
\* handed over every entry that was there from beginning to end, and none twice.
ForeachVisitsEach ==
    ~walk.grown =>
        /\ \A e \in Chained : walk.visits[e] <= 1
        /\ pc = "end" => \A e \in walk.since \cap Chained : walk.visits[e] = 1

\* The entries in the order of the buckets are what hash_begin and
\* hash_iter_next lead through, to hash_end, in a table that rehash has changed
\* and whose entries callbacks have deleted.
IteratorVisitsAll ==
    LET order == FlattenSeq([b \in 1 .. size |-> tab[b - 1]])
    IN  /\ hash_begin = IF order = <<>> THEN 0 ELSE order[1]
        /\ \A n \in DOMAIN order :
              hash_iter_next(order[n]) = IF n = Len(order) THEN 0 ELSE order[n + 1]

Contents == [k \in Keys |->
                IF \E e \in Chained : entry[e].key = k
                THEN entry[CHOOSE e \in Chained : entry[e].key = k].data ELSE NoData]

Map == INSTANCE KeyMap WITH map <- Contents

\* The table is a map: a deletion put off by hash_foreach takes effect at once,
\* its completion and rehash change nothing.
ImplementsMap == Map!Spec

\* hash_foreach comes to its end.
ForeachEnds == []<>(pc \in {"idle", "undefined"})
=============================================================================
