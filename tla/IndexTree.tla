----------------------------- MODULE IndexTree ------------------------------
(***************************************************************************)
(* allocators/index_tree.hpp behind memory_index: the descriptors of pages *)
(* of memory, in a tree of tables that threads change and read without a   *)
(* lock.  Every atomic load, store, addition and exchange is a step; a     *)
(* table that only its creator can see is filled in one.                   *)
(*                                                                         *)
(* A page is the sequence of the indices splitter::split makes of its      *)
(* address.  The table null() of a level is Null: an empty table, and in   *)
(* the last level the null descriptor.                                     *)
(*                                                                         *)
(* Threads index blocks and their stacks, workers of a collection deindex  *)
(* blocks, threads that end deindex their stacks, everybody looks pages    *)
(* up: all at any time, but no two operations change one page at a time,   *)
(* and a page is not deindexed while a thread works with what is on it.    *)
(***************************************************************************)
EXTENDS Integers, Sequences, FiniteSets

CONSTANTS
    Threads,
    LEVEL_CNT,
    Indices,        \* the indices of a table
    Pages,          \* the pages the program uses
    Descriptors,
    Levels,         \* addresses of tables
    Root, Null

ASSUME LevelCntAssumption == LEVEL_CNT \in Nat \ {0}
ASSUME PagesAssumption ==
    Pages \subseteq [1..LEVEL_CNT -> Indices] /\ IsFiniteSet(Pages) /\ Pages # {}
ASSUME LevelsAssumption ==
    /\ {Root, Null} \cap Levels = {} /\ Root # Null
    /\ Descriptors \cap (Levels \cup {Null}) = {}

VARIABLES
    m_ptr,      \* m_ptr[l][i]: a table, or a descriptor in the last level
    m_cnt,      \* m_cnt[l][i], of the tables above the last level
    pool,       \* tables that were created and not destroyed
    mem,        \* what the program did with each page
    pc, page, entry,
    at,         \* the tables each thread went through, Root first
    fresh,      \* the tables it created, or came back from
    known,      \* history: the page a thread looks up was in when it began
    lost,       \* history: pages indexed below a table that was about to go
    undefined   \* a thread used a destroyed table, or changed null()

tree == <<m_ptr, m_cnt, pool>>
local == <<pc, page, entry, at, fresh, known>>
vars == <<tree, mem, local, lost, undefined>>

Tables == Levels \cup {Root}
Adding == {"count", "load", "publish", "store"}
Removing == {"descend", "erase", "uncount", "unlink", "destroy"}

TypeOK ==
    /\ m_ptr \in [Tables -> [Indices -> Levels \cup Descriptors \cup {Null}]]
    /\ m_cnt \in [Tables -> [Indices -> 0..Cardinality(Pages)]]
    /\ pool \subseteq Levels
    /\ mem \in [Pages -> {"free", "indexing", "in", "deindexing"}]
    /\ pc \in [Threads -> {"idle", "get", "got"} \cup Adding \cup Removing]
    /\ page \in [Threads -> Pages]
    /\ entry \in [Threads -> Descriptors \cup {Null}]
    /\ at \in [Threads -> Seq(Tables \cup {Null})]
    /\ \A t \in Threads : Len(at[t]) \in 1..LEVEL_CNT
    /\ fresh \in [Threads -> Seq(Levels)]
    /\ known \in [Threads -> BOOLEAN]
    /\ lost \subseteq Pages
    /\ undefined \in BOOLEAN

SomePage == CHOOSE p \in Pages : TRUE
Empty == [i \in Indices |-> Null]
NoCount == [i \in Indices |-> 0]

Init ==
    /\ m_ptr = [l \in Tables |-> Empty]
    /\ m_cnt = [l \in Tables |-> NoCount]
    /\ pool = {}
    /\ mem = [p \in Pages |-> "free"]
    /\ pc = [t \in Threads |-> "idle"]
    /\ page = [t \in Threads |-> SomePage]
    /\ entry = [t \in Threads |-> Null]
    /\ at = [t \in Threads |-> <<Root>>]
    /\ fresh = [t \in Threads |-> <<>>]
    /\ known = [t \in Threads |-> FALSE]
    /\ lost = {}
    /\ undefined = FALSE

Depth(t) == Len(at[t])
Here(t) == at[t][Depth(t)]
Idx(t) == page[t][Depth(t)]

\* m_data[*idx] of the table the thread is in; null() is never written.
Ptr(t) == IF Here(t) = Null THEN Null ELSE m_ptr[Here(t)][Idx(t)]

SetPtr(t, x) == m_ptr' = [m_ptr EXCEPT ![Here(t)][Idx(t)] = x]

Goto(t, label) == pc' = [pc EXCEPT ![t] = label]

Begin(t, p, label) ==
    /\ pc[t] = "idle"
    /\ Goto(t, label)
    /\ page' = [page EXCEPT ![t] = p]
    /\ at' = [at EXCEPT ![t] = <<Root>>]

\* The operation is through; locals that are dead are forgotten.
End(t) ==
    /\ Goto(t, "idle")
    /\ at' = [at EXCEPT ![t] = <<Root>>]
    /\ entry' = [entry EXCEPT ![t] = Null]
    /\ fresh' = [fresh EXCEPT ![t] = <<>>]
    /\ page' = [page EXCEPT ![t] = SomePage]
    /\ known' = [known EXCEPT ![t] = FALSE]

\* A destroyed table, or a change of null().
Astray(t) ==
    \/ Here(t) \notin pool \cup {Root, Null}
    \/ Here(t) = Null /\ pc[t] \notin {"get", "got", "descend"}

-----------------------------------------------------------------------------
(* index                                                                   *)

Index(t, p, d) ==
    /\ Begin(t, p, IF LEVEL_CNT = 1 THEN "store" ELSE "count")
    /\ mem[p] = "free"
    /\ mem' = [mem EXCEPT ![p] = "indexing"]
    /\ entry' = [entry EXCEPT ![t] = d]
    /\ UNCHANGED <<tree, fresh, known>>

Count(t) ==
    /\ pc[t] = "count"
    /\ m_cnt' = [m_cnt EXCEPT ![Here(t)][Idx(t)] = @ + 1]
    /\ Goto(t, "load")
    /\ UNCHANGED <<m_ptr, pool, mem, page, entry, at, fresh, known>>

\* next_level->index.
Enter(t, next) ==
    /\ at' = [at EXCEPT ![t] = Append(@, next)]
    /\ Goto(t, IF Depth(t) + 1 = LEVEL_CNT THEN "store" ELSE "count")

LoadLevel(t) ==
    /\ pc[t] = "load"
    /\ Ptr(t) # Null
    /\ Enter(t, Ptr(t))
    /\ UNCHANGED <<tree, mem, page, entry, fresh, known>>

\* No table there: one is created, and the tables below, with only this page.
CreateLevel(t) ==
    /\ pc[t] = "load"
    /\ Ptr(t) = Null
    /\ \E new \in [1..LEVEL_CNT - Depth(t) -> Levels \ pool] :
          LET below(l) == CHOOSE j \in DOMAIN new : new[j] = l
              i(j) == page[t][Depth(t) + j]
          IN
          /\ \A j, k \in DOMAIN new : new[j] = new[k] => j = k
          /\ fresh' = [fresh EXCEPT ![t] = new]
          /\ pool' = pool \cup {new[j] : j \in DOMAIN new}
          /\ m_ptr' = [l \in Tables |->
                IF \A j \in DOMAIN new : new[j] # l THEN m_ptr[l]
                ELSE [Empty EXCEPT ![i(below(l))] =
                        IF below(l) = Len(new) THEN entry[t] ELSE new[below(l) + 1]]]
          /\ m_cnt' = [l \in Tables |->
                IF \A j \in DOMAIN new : new[j] # l THEN m_cnt[l]
                ELSE [NoCount EXCEPT ![i(below(l))] =
                        IF below(l) = Len(new) THEN 0 ELSE 1]]
    /\ Goto(t, "publish")
    /\ UNCHANGED <<mem, page, entry, at, known>>

\* The compare and swap finds the null table still.
Publish(t) ==
    /\ pc[t] = "publish"
    /\ Ptr(t) = Null
    /\ SetPtr(t, fresh[t][1])
    /\ mem' = [mem EXCEPT ![page[t]] = "in"]
    /\ End(t)
    /\ UNCHANGED <<m_cnt, pool>>

\* Mutation: whoever lost the race takes the page for indexed.
PublishLate_Return(t) ==
    /\ pc[t] = "publish"
    /\ Ptr(t) # Null
    /\ pool' = pool \ {fresh[t][1]}
    /\ mem' = [mem EXCEPT ![page[t]] = "in"]
    /\ End(t)
    /\ UNCHANGED <<m_ptr, m_cnt>>

\* Or another thread's table: the own one is destroyed, those below are not.
PublishLate(t) ==
    /\ pc[t] = "publish"
    /\ Ptr(t) # Null
    /\ pool' = pool \ {fresh[t][1]}
    /\ fresh' = [fresh EXCEPT ![t] = <<>>]
    /\ Enter(t, Ptr(t))
    /\ UNCHANGED <<m_ptr, m_cnt, mem, page, entry, known>>

StoreEntry(t) ==
    /\ pc[t] = "store"
    /\ SetPtr(t, entry[t])
    /\ mem' = [mem EXCEPT ![page[t]] = "in"]
    /\ End(t)
    /\ UNCHANGED <<m_cnt, pool>>

-----------------------------------------------------------------------------
(* deindex                                                                 *)

Deindex(t, p) ==
    /\ Begin(t, p, IF LEVEL_CNT = 1 THEN "erase" ELSE "descend")
    /\ mem[p] = "in"
    /\ \A u \in Threads : known[u] => page[u] # p
    /\ mem' = [mem EXCEPT ![p] = "deindexing"]
    /\ UNCHANGED <<tree, entry, fresh, known>>

Descend(t) ==
    /\ pc[t] = "descend"
    /\ at' = [at EXCEPT ![t] = Append(@, Ptr(t))]
    /\ Goto(t, IF Depth(t) + 1 = LEVEL_CNT THEN "erase" ELSE "descend")
    /\ UNCHANGED <<tree, mem, page, entry, fresh, known>>

\* Back in the table above, if there is one, with next_level in fresh.
Up(t) ==
    IF Depth(t) = 1
      THEN /\ mem' = [mem EXCEPT ![page[t]] = "free"]
           /\ End(t)
      ELSE /\ at' = [at EXCEPT ![t] = SubSeq(@, 1, Depth(t) - 1)]
           /\ fresh' = [fresh EXCEPT ![t] = <<Here(t)>>]
           /\ Goto(t, "uncount")
           /\ UNCHANGED <<mem, page, entry, known>>

EraseEntry(t) ==
    /\ pc[t] = "erase"
    /\ SetPtr(t, Null)
    /\ Up(t)
    /\ UNCHANGED <<m_cnt, pool>>

\* Mutation: the table stays when its last page goes.
Uncount_Keep(t) ==
    /\ pc[t] = "uncount"
    /\ m_cnt' = [m_cnt EXCEPT ![Here(t)][Idx(t)] = @ - 1]
    /\ Up(t)
    /\ UNCHANGED <<m_ptr, pool>>

Uncount(t) ==
    /\ pc[t] = "uncount"
    /\ m_cnt' = [m_cnt EXCEPT ![Here(t)][Idx(t)] = @ - 1]
    /\ IF m_cnt[Here(t)][Idx(t)] = 1
         THEN Goto(t, "unlink") /\ UNCHANGED <<mem, page, entry, at, fresh, known>>
         ELSE Up(t)
    /\ UNCHANGED <<m_ptr, pool>>

Unlink(t) ==
    /\ pc[t] = "unlink"
    /\ SetPtr(t, Null)
    /\ Goto(t, "destroy")
    /\ UNCHANGED <<m_cnt, pool, mem, page, entry, at, fresh, known>>

DestroyLevel(t) ==
    /\ pc[t] = "destroy"
    /\ pool' = pool \ {fresh[t][1]}
    /\ Up(t)
    /\ UNCHANGED <<m_ptr, m_cnt>>

-----------------------------------------------------------------------------
(* get_descriptor                                                          *)

Lookup(t, p) ==
    /\ Begin(t, p, "get")
    /\ known' = [known EXCEPT ![t] = mem[p] = "in"]
    /\ UNCHANGED <<tree, mem, entry, fresh>>

Get(t) ==
    /\ pc[t] = "get"
    /\ IF Depth(t) = LEVEL_CNT
         THEN /\ entry' = [entry EXCEPT ![t] = Ptr(t)]
              /\ Goto(t, "got")
              /\ UNCHANGED at
         ELSE /\ at' = [at EXCEPT ![t] = Append(@, Ptr(t))]
              /\ UNCHANGED <<pc, entry>>
    /\ UNCHANGED <<tree, mem, page, fresh, known>>

Got(t) ==
    /\ pc[t] = "got"
    /\ End(t)
    /\ UNCHANGED <<tree, mem>>

-----------------------------------------------------------------------------

Step(t) ==
    \/ Count(t) \/ LoadLevel(t) \/ CreateLevel(t) \/ Publish(t) \/ PublishLate(t)
    \/ StoreEntry(t)
    \/ Descend(t) \/ EraseEntry(t) \/ Uncount(t) \/ Unlink(t) \/ DestroyLevel(t)
    \/ Get(t) \/ Got(t)

\* Bound: once a page is lost, no other is indexed; pages are still removed and
\* looked up.
Call(t) ==
    \E p \in Pages :
        \/ lost = {} /\ \E d \in Descriptors : Index(t, p, d)
        \/ Deindex(t, p)
        \/ Lookup(t, p)

\* A thread that is in a table that was destroyed works there in its next step,
\* or one that lost its page changes null(), which all empty slots share.  What
\* follows is not modelled, nor what others do in between.
Stray ==
    /\ ~undefined
    /\ \E t \in Threads : Astray(t)
    /\ undefined' = TRUE
    /\ UNCHANGED <<tree, mem, local, lost>>

\* A table that lost its last page, and that remove_index is about to unlink.
Doomed(l) == \E u \in Threads : pc[u] = "unlink" /\ fresh[u] = <<l>>

\* remove_index took the last count and will unlink and destroy the table
\* although this thread raised the count since: its page goes with the table.
EntersDoomed(t) == pc[t] = "load" /\ Doomed(Ptr(t))

Work(t) ==
    /\ ~undefined /\ \A u \in Threads : ~Astray(u)
    /\ Call(t) \/ Step(t)
    /\ lost' = IF EntersDoomed(t) THEN lost \cup {page[t]} ELSE lost
    /\ UNCHANGED undefined

Next == Stray \/ \E t \in Threads : Work(t)

Spec == Init /\ [][Next]_vars

-----------------------------------------------------------------------------
(* Properties                                                              *)

\* The tables of a page, Root first, and its descriptor last.
Path(ptr, p) ==
    LET a[d \in 1..LEVEL_CNT + 1] ==
          IF d = 1 THEN Root
          ELSE IF a[d - 1] = Null THEN Null ELSE ptr[a[d - 1]][p[d - 1]]
    IN  a

At(p) == Path(m_ptr, p)

\* The descriptors that the pages have.
Entries == [p \in Pages |-> At(p)[LEVEL_CNT + 1]]

PM == INSTANCE PageMap WITH index <- Entries

\* Until a page is indexed below a table that remove_index is about to destroy,
\* and however tables come and go below other pages, indexing and deindexing
\* change the entry of their own page, at one instant, and return after it.
KeepsIndex == PM!Init /\ [][lost' = {} => PM!Next]_(PM!vars)

\* Who looks up a page that was indexed walks through tables that exist and
\* gets its descriptor, although other pages below the same tables go.
FindsIndexed ==
    \A t \in Threads : known[t] =>
        /\ Here(t) \in pool \cup {Root}
        /\ at[t] = [d \in 1..Depth(t) |-> At(page[t])[d]]
        /\ pc[t] = "got" => entry[t] \in Descriptors /\ entry[t] = At(page[t])[LEVEL_CNT + 1]

Below(p, d) == {q \in Pages : mem[q] = "in" /\ SubSeq(q, 1, d) = SubSeq(p, 1, d)}

\* When nobody changes the tree, every count is the number of pages below,
\* and there is a table exactly where there are pages, none of them destroyed.
CountsExact ==
    (\A t \in Threads : pc[t] \notin Adding \cup Removing) =>
        \A p \in Pages : \A d \in 1..LEVEL_CNT - 1 :
            LET l == At(p)[d] IN l # Null =>
                /\ l \in pool \cup {Root}
                /\ m_cnt[l][p[d]] = Cardinality(Below(p, d))
                /\ (m_ptr[l][p[d]] = Null) <=> (Below(p, d) = {})

\* The assertion of last_level::remove_index, that the page is indexed.  For a
\* lost page it fails: the count a thread raises before it loads the pointer
\* does not keep remove_index from destroying the table it finds there.
RemovesIndexed == \A t \in Threads : pc[t] = "erase" => Ptr(t) # Null

\* Until a page is indexed below a table that remove_index is about to destroy,
\* lookups find what was indexed, removals find their page, and the tables and
\* their counts are those of the pages.  (Executions also end where a
\* lookup of a page that is not indexed is left in a destroyed table.)
TreeSound ==
    lost = {} => TypeOK /\ FindsIndexed /\ RemovesIndexed /\ CountsExact

=============================================================================
