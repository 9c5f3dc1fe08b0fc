------------------------------- MODULE Tracks -------------------------------
(***************************************************************************)
(* Tracks and the table they are kept in: hashtable.c, the reference       *)
(* counts of sp_track.c, and the garbage collection that cache.c starts    *)
(* every five minutes.                                                     *)
(*                                                                         *)
(* The networking thread adds tracks while it parses answers, releases     *)
(* them and collects garbage; the main thread adds, references and         *)
(* releases tracks by its links.  The hashtable has a recursive mutex,     *)
(* which the collector keeps during its walk.  Outside of it are the       *)
(* reference counts, the time between finding nothing and inserting, the   *)
(* time between inserting a track and referencing it, and the first read   *)
(* of hashtable_remove().                                                  *)
(*                                                                         *)
(* A node is a track and its entry in the table, which are allocated and   *)
(* freed on their own; the name of a node is not used again.  A bucket is  *)
(* the sequence of its entries.                                            *)
(***************************************************************************)
EXTENDS Naturals, Sequences, FiniteSets, FiniteSetsExt, Functions

CONSTANTS Key,        \* ids of tracks
          Buckets,    \* size of the table
          Bucket(_),  \* the bucket of a key
          MaxNodes,   \* bound on the tracks that are allocated
          MaxRefs     \* a track with that count is not referenced once more

Node == 1 .. MaxNodes
Nil == 0
Thread == {"main", "io"}

ASSUME TracksAssumption ==
  /\ MaxNodes \in Nat /\ MaxRefs \in Nat /\ Buckets \in Nat \ {0} /\ Key # {}
  /\ \A k \in Key : Bucket(k) \in 1 .. Buckets

VARIABLES table,      \* hashtable->entries
          count,      \* hashtable->count
          entry,      \* the entries that are allocated
          dont_free,  \* the entries with that flag
          freelist,   \* hashtable->freelist
          owner,      \* who has the mutex
          depth,      \* and how often
          key,        \* the key of each entry, and track->id
          memory,     \* the memory of each track
          ref_count,  \* track->ref_count
          iter,       \* the iterator: bucket, entry and the entry after that
          pc,         \* where each thread is
          arg,        \* the track it works on, or the key it has not found
          reg,        \* a value it has read
          held,       \* the tracks that each thread has a reference to
          visited,    \* history: the entries that the collector has seen
          races,      \* history: the races that happened first
          astray      \* freed memory was used, or an assertion failed

lockVars == <<owner, depth>>
tableVars == <<table, count, entry, dont_free, freelist>>
trackVars == <<key, memory, ref_count>>
threadVars == <<pc, arg, reg, held>>
historyVars == <<visited, races>>
trackAllVars ==
  <<lockVars, tableVars, trackVars, threadVars, iter, historyVars, astray>>

Other(th) == IF th = "main" THEN "io" ELSE "main"
Fresh == {n \in Node : memory[n] = "none"}
Chain(k) == table[Bucket(k)]
InTable == UNION {Range(table[b]) : b \in 1 .. Buckets}
(* A thread goes to the next place with a track and a value it has read.   *)
Goto(th, where, n, value) ==
  /\ pc' = [pc EXCEPT ![th] = where]
  /\ arg' = [arg EXCEPT ![th] = n]
  /\ reg' = [reg EXCEPT ![th] = value]
Return(th) == Goto(th, "idle", Nil, 0)
Races(new) == races' = IF races = {} THEN new ELSE races

(* A thread has a pointer to the track that is not counted.                *)
UsedBy(th, n) ==
  arg[th] = n /\ pc[th] \in {"init", "add", "added", "sub", "subtracted", "remove", "removing", "free"}

(* A thread frees a track.                                                 *)
Frees(th, n) == arg[th] = n /\ pc[th] \in {"remove", "removing", "free"}

(* The mutex, PTHREAD_MUTEX_RECURSIVE.                                     *)
Available(th) == depth = 0 \/ owner = th
Lock(th) == Available(th) /\ owner' = th /\ depth' = depth + 1
Unlock == depth' = depth - 1 /\ UNCHANGED owner
-----------------------------------------------------------------------------
(* hashtable_create() and sp_session_init()                                *)
TracksInit ==
  /\ table = [b \in 1 .. Buckets |-> <<>>] /\ count = 0
  /\ entry = {} /\ dont_free = {} /\ freelist = {}
  /\ owner = "main" /\ depth = 0
  /\ key = [n \in Node |-> CHOOSE k \in Key : TRUE]
  /\ memory = [n \in Node |-> "none"]
  /\ ref_count = [n \in Node |-> 0]
  /\ iter = [offset |-> 0, entry |-> Nil, next |-> Nil]
  /\ pc = [th \in Thread |-> "idle"] /\ arg = [th \in Thread |-> Nil]
  /\ reg = [th \in Thread |-> 0] /\ held = [th \in Thread |-> {}]
  /\ visited = {} /\ races = {} /\ astray = FALSE

(* A pointer to memory that has been freed, or that was never set, is      *)
(* followed, or an assertion about a count fails.                          *)
GoesAstray ==
  /\ astray' = TRUE
  /\ UNCHANGED <<lockVars, tableVars, trackVars, threadVars, iter, historyVars>>
-----------------------------------------------------------------------------
(* osfy_track_add(): hashtable_find() finds the track ...                  *)
Found(th, n) ==
  /\ pc[th] = "idle" /\ Available(th)
  /\ n \in InTable /\ n \notin held[th]
  /\ n = Min({m \in InTable : key[m] = key[n]}) /\ ref_count[n] < MaxRefs
  /\ Races((IF memory[n] = "raw" THEN {"raw"} ELSE {}) \union
           (IF Frees(Other(th), n) THEN {"freed in use"} ELSE {}))
  /\ Goto(th, "add", n, 0)
  /\ UNCHANGED <<lockVars, tableVars, trackVars, held, iter, visited, astray>>

(* ... or not, and the track is allocated.  Its count can be anything.     *)
NotFound(th, k) ==
  /\ pc[th] = "idle" /\ Available(th) /\ Fresh # {}
  /\ \A m \in InTable : key[m] # k
  /\ LET n == Min(Fresh) IN
     /\ memory' = [memory EXCEPT ![n] = "raw"]
     /\ key' = [key EXCEPT ![n] = k]
     /\ \E garbage \in {0, 1} : ref_count' = [ref_count EXCEPT ![n] = garbage]
     /\ Goto(th, "insert", n, 0)
  /\ UNCHANGED <<lockVars, tableVars, held, iter, historyVars, astray>>

(* hashtable_insert(); it does not initialise dont_free.                   *)
Insert(th) ==
  /\ pc[th] = "insert" /\ Available(th)
  /\ LET n == arg[th] IN
     /\ table' = [table EXCEPT ![Bucket(key[n])] = Append(@, n)]
     /\ entry' = entry \union {n}
     /\ dont_free' \in {dont_free, dont_free \union {n}}
     /\ count' = count + 1
     /\ Races(IF \E m \in InTable : key[m] = key[n] THEN {"twice"} ELSE {})
  /\ Goto(th, "init", arg[th], 0)
  /\ UNCHANGED <<lockVars, freelist, trackVars, held, iter, visited, astray>>

(* Slip: the count is not among the fields that are set.                   *)
InitialiseKeepsCount(th) ==
  /\ pc[th] = "init"
  /\ IF memory[arg[th]] = "freed" THEN GoesAstray
     ELSE /\ memory' = [memory EXCEPT ![arg[th]] = "live"]
          /\ Goto(th, "add", arg[th], 0)
          /\ UNCHANGED <<lockVars, tableVars, key, ref_count, held, iter, historyVars, astray>>

(* The fields of the track are set.                                        *)
Initialise(th) ==
  /\ pc[th] = "init"
  /\ IF memory[arg[th]] = "freed" THEN GoesAstray
     ELSE /\ memory' = [memory EXCEPT ![arg[th]] = "live"]
          /\ ref_count' = [ref_count EXCEPT ![arg[th]] = 0]
          /\ Goto(th, "add", arg[th], 0)
          /\ UNCHANGED <<lockVars, tableVars, key, held, iter, historyVars, astray>>

(* sp_track_release() by a thread that has a reference.                    *)
Release(th, n) ==
  /\ pc[th] = "idle" /\ n \in held[th]
  /\ Goto(th, "sub", n, 0)
  /\ UNCHANGED <<lockVars, tableVars, trackVars, held, iter, historyVars, astray>>

(* ref_count++ and --ref_count are a load, of a count that the release     *)
(* asserts to be positive, ...                                             *)
Load(th) ==
  /\ pc[th] \in {"add", "sub"}
  /\ IF memory[arg[th]] = "freed" \/ (pc[th] = "sub" /\ ref_count[arg[th]] = 0)
     THEN GoesAstray
     ELSE /\ Goto(th, IF pc[th] = "add" THEN "added" ELSE "subtracted", arg[th],
                  ref_count[arg[th]])
          /\ UNCHANGED <<lockVars, tableVars, trackVars, held, iter, historyVars, astray>>

Store(th, value) ==
  /\ ref_count' = [ref_count EXCEPT ![arg[th]] = value]
  /\ Races((IF ref_count[arg[th]] = reg[th] THEN {} ELSE {"lost update"}) \union
           (IF UsedBy(Other(th), arg[th]) /\ value = 0 THEN {"freed in use"} ELSE {}))
  /\ UNCHANGED <<lockVars, tableVars, key, memory, iter, visited, astray>>

(* ... and a store.  A track without references is freed.                  *)
AddRef(th) ==
  /\ pc[th] = "added"
  /\ IF memory[arg[th]] = "freed" THEN GoesAstray
     ELSE /\ Store(th, reg[th] + 1)
          /\ held' = [held EXCEPT ![th] = @ \union {arg[th]}]
          /\ Return(th)

(* Slip: the track is freed but stays in the table.                        *)
SubRefStays(th) ==
  /\ pc[th] = "subtracted" /\ reg[th] > 0
  /\ IF memory[arg[th]] = "freed" THEN GoesAstray
     ELSE /\ Store(th, reg[th] - 1)
          /\ held' = [held EXCEPT ![th] = @ \ {arg[th]}]
          /\ IF reg[th] = 1 THEN Goto(th, "free", arg[th], 0) ELSE Return(th)

SubRef(th) ==
  /\ pc[th] = "subtracted" /\ reg[th] > 0
  /\ IF memory[arg[th]] = "freed" THEN GoesAstray
     ELSE /\ Store(th, reg[th] - 1)
          /\ held' = [held EXCEPT ![th] = @ \ {arg[th]}]
          /\ IF reg[th] = 1 THEN Goto(th, "remove", arg[th], 0) ELSE Return(th)
-----------------------------------------------------------------------------
(* The id of a track, which can be any before it is initialised.           *)
Id(n) == IF memory[n] = "raw" THEN Key ELSE {key[n]}

(* osfy_track_free() asserts that nobody has a reference, and              *)
(* hashtable_remove() reads the head of the bucket of track->id ...        *)
ReadHead(th) ==
  /\ pc[th] = "remove"
  /\ IF memory[arg[th]] = "freed" \/ ref_count[arg[th]] # 0 THEN GoesAstray
     ELSE \E k \in Id(arg[th]) : LET chain == Chain(k) IN
          /\ IF chain = <<>> THEN Goto(th, "free", arg[th], 0)
             ELSE Goto(th, "removing", arg[th], chain[1])
          /\ UNCHANGED <<lockVars, tableVars, trackVars, held, iter, historyVars, astray>>

(* The bucket of that head, and the places in it of an id.                 *)
Searched(th) == Bucket(key[reg[th]])
Matches(th, k) == {i \in DOMAIN table[Searched(th)] : key[table[Searched(th)][i]] = k}
Without(s, i) == SubSeq(s, 1, i - 1) \o SubSeq(s, i + 1, Len(s))
Successor(n) ==
  LET chain == Chain(key[n])
      i == CHOOSE j \in DOMAIN chain : chain[j] = n IN
  IF i = Len(chain) THEN Nil ELSE chain[i + 1]

(* An entry leaves the bucket; an iterator may be before it.               *)
Leaves(b, i) ==
  /\ table' = [table EXCEPT ![b] = Without(@, i)]
  /\ count' = count - 1
  /\ iter' = IF table[b][i] = iter.next
             THEN [iter EXCEPT !.next = Successor(iter.next)] ELSE iter

(* Slip: dont_free is not looked at.                                       *)
UnlinkFrees(b, i) ==
  /\ Leaves(b, i)
  /\ entry' = entry \ {table[b][i]}
  /\ UNCHANGED <<freelist, dont_free>>

(* It is freed, unless an iterator is on it, or unless dont_free was never *)
(* initialised.                                                            *)
Unlink(b, i) ==
  /\ Leaves(b, i)
  /\ freelist' = freelist \union ({table[b][i]} \intersect dont_free)
  /\ entry' = entry \ ({table[b][i]} \ dont_free)
  /\ UNCHANGED dont_free

(* ... takes the mutex and removes the first entry with the id; if there   *)
(* is none, it returns with the mutex.                                     *)
Remove(th) ==
  /\ pc[th] = "removing" /\ Available(th)
  /\ IF reg[th] \notin InTable \/ memory[arg[th]] = "freed" THEN GoesAstray
     ELSE /\ Goto(th, "free", arg[th], 0)
          /\ UNCHANGED <<trackVars, held, visited, astray>>
          /\ \E k \in Id(arg[th]) :
               \/ /\ Matches(th, k) = {}
                  /\ Lock(th)
                  /\ UNCHANGED <<tableVars, iter, races>>
               \/ /\ Matches(th, k) # {}
                  /\ LET i == Min(Matches(th, k)) IN
                     /\ Unlink(Searched(th), i)
                     /\ Races(IF /\ pc[Other(th)] = "removing"
                                 /\ reg[Other(th)] = table[Searched(th)][i]
                              THEN {"stale head"} ELSE {})
                  /\ UNCHANGED lockVars

(* The track itself, and what its fields point to, if they are set.        *)
Free(th) ==
  /\ pc[th] = "free"
  /\ \/ memory[arg[th]] \in {"freed", "raw"} /\ GoesAstray
     \/ /\ memory[arg[th]] # "freed"
        /\ memory' = [memory EXCEPT ![arg[th]] = "freed"]
        /\ IF th = "io" /\ iter.offset > 0 THEN Goto(th, "next", Nil, 0) ELSE Return(th)
        /\ UNCHANGED <<lockVars, tableVars, key, ref_count, held, iter, historyVars,
                       astray>>
-----------------------------------------------------------------------------
(* osfy_track_garbage_collect(): hashtable_iterator_init() locks, ...      *)
GcStart ==
  /\ pc["io"] = "idle"
  /\ Lock("io")
  /\ iter' = [offset |-> 1, entry |-> Nil, next |-> Nil]
  /\ Goto("io", "bucket", Nil, 0)
  /\ UNCHANGED <<tableVars, trackVars, held, historyVars, astray>>

(* The iterator moves to an entry, whose flag it sets.                     *)
MovesTo(n, offset) ==
  /\ iter' = [offset |-> offset, entry |-> n, next |-> Successor(n)]
  /\ dont_free' = (dont_free \ {iter.entry}) \union {n}
  /\ visited' = visited \union {n}
  /\ Goto("io", "visit", n, 0)
  /\ UNCHANGED <<lockVars, table, count, entry, freelist, trackVars, held, races, astray>>

(* ... hashtable_iterator_next() goes to the next entry of the bucket; the *)
(* current one may have been removed, but not freed, ...                   *)
IterNext ==
  /\ pc["io"] = "next"
  /\ IF iter.entry \notin entry THEN GoesAstray
     ELSE \/ iter.next # Nil /\ MovesTo(iter.next, iter.offset)
          \/ /\ iter.next = Nil
             /\ dont_free' = dont_free \ {iter.entry}
             /\ iter' = [iter EXCEPT !.offset = @ + 1, !.entry = Nil]
             /\ Goto("io", "bucket", Nil, 0)
             /\ UNCHANGED <<lockVars, table, count, entry, freelist, trackVars, held,
                            historyVars, astray>>

(* ... or to the first of the next bucket that has one, ...                *)
IterBucket ==
  LET left == {b \in iter.offset .. Buckets : table[b] # <<>>} IN
  /\ pc["io"] = "bucket"
  /\ \/ left # {} /\ MovesTo(table[Min(left)][1], Min(left))
     \/ /\ left = {}
        /\ iter' = [iter EXCEPT !.offset = Buckets + 1]
        /\ Goto("io", "end", Nil, 0)
        /\ UNCHANGED <<lockVars, tableVars, trackVars, held, historyVars, astray>>

(* Slip: the walk stops at a track that is in use.                         *)
GcVisitStops ==
  /\ pc["io"] = "visit"
  /\ LET n == arg["io"] IN
     IF memory[n] = "freed" THEN GoesAstray
     ELSE /\ \/ ref_count[n] # 0 /\ Goto("io", "end", Nil, 0) /\ UNCHANGED races
             \/ /\ ref_count[n] = 0
                /\ Goto("io", "remove", n, 0)
                /\ Races(IF UsedBy("main", n) THEN {"freed in use"} ELSE {})
          /\ UNCHANGED <<lockVars, tableVars, trackVars, held, iter, visited, astray>>

(* ... and a track that nobody has a reference to is freed.                *)
GcVisit ==
  /\ pc["io"] = "visit"
  /\ LET n == arg["io"] IN
     IF memory[n] = "freed" THEN GoesAstray
     ELSE /\ \/ /\ ref_count[n] # 0
                /\ Goto("io", "next", Nil, 0) /\ UNCHANGED races
             \/ /\ ref_count[n] = 0
                /\ Goto("io", "remove", n, 0)
                /\ Races(IF UsedBy("main", n) THEN {"freed in use"} ELSE {})
          /\ UNCHANGED <<lockVars, tableVars, trackVars, held, iter, visited, astray>>

(* hashtable_iterator_free()                                               *)
GcEnd ==
  /\ pc["io"] = "end"
  /\ entry' = entry \ freelist /\ dont_free' = dont_free \ freelist /\ freelist' = {}
  /\ Unlock
  /\ iter' = [offset |-> 0, entry |-> Nil, next |-> Nil]
  /\ visited' = {}
  /\ Return("io")
  /\ UNCHANGED <<table, count, trackVars, held, races, astray>>
-----------------------------------------------------------------------------
Continue(th) ==
  \/ Insert(th) \/ Initialise(th) \/ Load(th) \/ AddRef(th) \/ SubRef(th)
  \/ ReadHead(th) \/ Remove(th) \/ Free(th)

Collect == IterNext \/ IterBucket \/ GcVisit \/ GcEnd

Begin ==
  \/ GcStart
  \/ \E th \in Thread :
       \/ \E n \in Node : Found(th, n)
       \/ \E k \in Key : NotFound(th, k)

(* What has raced does not stop the threads; MaxRefs bounds counts that    *)
(* are wrong.                                                              *)
TracksNext ==
  /\ ~astray
  /\ \/ Begin
     \/ Collect
     \/ \E th \in Thread : Continue(th) \/ \E n \in Node : Release(th, n)

TracksSpec == TracksInit /\ [][TracksNext]_trackAllVars
-----------------------------------------------------------------------------
(* The fields of the table and of the tracks.                              *)
TracksTypeOK ==
  /\ count = Cardinality(InTable)
  /\ freelist \subseteq entry /\ InTable \subseteq entry
  /\ depth \in Nat /\ owner \in Thread
  /\ iter.offset \in 0 .. Buckets + 1 /\ iter.entry \in Node \union {Nil}
  /\ races \subseteq {"freed in use", "raw", "twice", "stale head", "lost update"}

(* Memory that was freed or never set is used, and an assertion about a    *)
(* count fails, only after one of five races: a track is freed, by its     *)
(* last release or by the collector, while the other thread has found it,  *)
(* but not yet counted its reference, or frees it too; it is found before  *)
(* it is initialised; both threads add it; a removal starts from an entry  *)
(* that the other thread removes; an update of a count is lost.            *)
OnlyRacesGoAstray == races = {} => ~astray

(* Without them, who has a reference to a track has a track that is alive, *)
(* in the table and the only one with its id, and the count is what is     *)
(* held.                                                                   *)
ReferencesAreGood ==
  races = {} =>
    /\ \A th \in Thread : \A n \in held[th] : memory[n] = "live" /\ n \in InTable
    /\ \A m, n \in InTable : key[m] = key[n] => m = n
    /\ \A n \in Node :
         memory[n] = "live" => ref_count[n] = Cardinality({th \in Thread : n \in held[th]})

(* An iterator stands on an entry that is allocated, also after the entry  *)
(* was removed under it, and so is the one that it goes to next.           *)
IteratorIsLive ==
  iter.entry # Nil => iter.entry \in entry /\ (iter.next = Nil \/ iter.next \in entry)

(* The collector, which removes entries as it walks, misses none.          *)
GcMissesNothing == pc["io"] = "end" => InTable \subseteq visited

(* Every entry that is allocated is in the table or on the freelist, and   *)
(* only the collector leaves the mutex locked, while it walks.             *)
NothingLeaks ==
  /\ entry = InTable \union freelist
  /\ races = {} => depth = IF iter.offset > 0 THEN 1 ELSE 0

(* What the table keeps at every step, whatever has raced: its types and   *)
(* count, an iterator on allocated entries, and no entry that is lost.     *)
TracksInv == TracksTypeOK /\ IteratorIsLive /\ NothingLeaks
=============================================================================
