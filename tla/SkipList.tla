------------------------------ MODULE SkipList ------------------------------
(* SkipList: the store of a key-value server.  A node is named by its key; the  *)
(* header stands before all keys.  The server calls every operation under its   *)
(* own mutex, so an operation is one step; the coin tosses of get_random_level  *)
(* are a choice.                                                                *)
EXTENDS Integers, Sequences, FiniteSets

CONSTANTS MaxKey,      \* keys are 1..MaxKey, ordered as std::string orders them
          Value,       \* values; a key's own text is the value "key"
          MaxLevel     \* _max_level, 6 in the code
ASSUME SkipAssumption == MaxKey \in Nat /\ MaxLevel \in Nat \ {0} /\ "key" \in Value /\ "none" \notin Value

Header == 0
Key == 1..MaxKey
Null == MaxKey + 1
NoValue == "none"
Level == 0..MaxLevel

VARIABLES
    forward,   \* level -> node -> the next node on that level, Null at its end
    node_level,\* node -> its level, -1 if there is no such node
    value,     \* key -> value of the node
    listLevel, \* _skip_list_level
    count,     \* _element_count
    dumped,    \* the last dump_file: keys and values, in order
    store,     \* the map the list stands for: what the operations should have left
    loaded     \* history: keys load_file has brought, not written since

skipVars == <<forward, node_level, value, listLevel, count, dumped, store, loaded>>

Links == [f |-> forward, lvl |-> node_level, val |-> value, top |-> listLevel, n |-> count]

EmptyList ==
    [f |-> [i \in Level |-> [n \in {Header} \cup Key |-> Null]],
     lvl |-> [k \in Key |-> -1], val |-> [k \in Key |-> NoValue], top |-> 0, n |-> 0]

Becomes(s) ==
    /\ forward' = s.f /\ node_level' = s.lvl /\ value' = s.val /\ listLevel' = s.top /\ count' = s.n

SkipInit ==
    /\ forward = EmptyList.f /\ node_level = EmptyList.lvl /\ value = EmptyList.val
    /\ listLevel = 0 /\ count = 0
    /\ dumped = <<>> /\ store = [k \in Key |-> NoValue] /\ loaded = {}

-----------------------------------------------------------------------------
\* The inner loop of every operation: along level i while the next key is smaller.
Along(s, i, from, key) ==
    LET go[n \in {Header} \cup Key] ==
            IF s.f[i][n] # Null /\ s.f[i][n] < key THEN go[s.f[i][n]] ELSE n
    IN  go[from]

\* The outer loop: update[i], each level starting where the one above stopped.
update(s, key) ==
    LET down[i \in 0..s.top] == Along(s, i, IF i = s.top THEN Header ELSE down[i + 1], key)
    IN  down

Reached(s, key) == s.f[0][update(s, key)[0]]

\* search_element: the value found, or NoValue.
search_element(s, key) == IF Reached(s, key) = key THEN s.val[key] ELSE NoValue

\* Mutant of Predecessor: above the old level too, the node found last is used.
PredecessorBelow(s, u, i) == u[IF i <= s.top THEN i ELSE s.top]

\* Above the old level, the header is the predecessor.
Predecessor(s, u, i) == IF i <= s.top THEN u[i] ELSE Header

\* insert_element with the level the coins gave.
insert_element(s, key, v, level) ==
    LET u == update(s, key)
    IN  IF Reached(s, key) = key THEN s
        ELSE [f |-> [i \in Level |->
                       IF i > level THEN s.f[i]
                       ELSE [s.f[i] EXCEPT ![key] = s.f[i][Predecessor(s, u, i)], ![Predecessor(s, u, i)] = key]],
              lvl |-> [s.lvl EXCEPT ![key] = level], val |-> [s.val EXCEPT ![key] = v],
              top |-> IF level > s.top THEN level ELSE s.top, n |-> s.n + 1]

\* The loop of delete_element: up to the first level the node is not on.
Unlinked(s, u, key) ==
    [i \in Level |-> IF i <= s.top /\ \A j \in 0..i : s.f[j][u[j]] = key
                     THEN [s.f[i] EXCEPT ![u[i]] = s.f[i][key], ![key] = Null] ELSE s.f[i]]

\* _skip_list_level after a deletion: empty levels are left.
Lowered(s, f) == CHOOSE i \in 0..s.top : /\ i = 0 \/ f[i][Header] # Null
                                         /\ \A j \in (i + 1)..s.top : f[j][Header] = Null

delete_element(s, key) ==
    LET f == Unlinked(s, update(s, key), key)
    IN  IF Reached(s, key) # key THEN s
        ELSE [f |-> f, lvl |-> [s.lvl EXCEPT ![key] = -1], val |-> [s.val EXCEPT ![key] = NoValue],
              top |-> Lowered(s, f), n |-> s.n - 1]

-----------------------------------------------------------------------------
\* get_random_level: never 0.
RandomLevel == 1..MaxLevel

Cleared(s, k) == IF search_element(s, k) # NoValue THEN delete_element(s, k) ELSE s

\* insert_set_element: what Put and Append do to the store.
InsertSet(k, v, level) ==
    /\ Becomes(insert_element(Cleared(Links, k), k, v, level))
    /\ store' = [store EXCEPT ![k] = v] /\ loaded' = loaded \ {k}
    /\ UNCHANGED dumped

Delete(k) ==
    /\ Becomes(delete_element(Links, k))
    /\ store' = [store EXCEPT ![k] = NoValue] /\ loaded' = loaded \ {k}
    /\ UNCHANGED dumped

\* dump_file: along level 0.
Walk(s) ==
    LET from[n \in {Header} \cup Key] ==
            IF s.f[0][n] = Null THEN <<>> ELSE <<[key |-> s.f[0][n], value |-> s.val[s.f[0][n]]]>> \o from[s.f[0][n]]
    IN  from[Header]

dump_file == dumped' = Walk(Links) /\ UNCHANGED <<forward, node_level, value, listLevel, count, store, loaded>>

\* The keys of the dump, and the value a key has in it.
Dumped == {dumped[i].key : i \in DOMAIN dumped}
DumpedValue(k) == dumped[CHOOSE i \in DOMAIN dumped : dumped[i].key = k].value

\* load_file inserts each key of the dump that is not there yet, with its own
\* text as the value; what it should leave is the dump's values.
load_file(levels) ==
    LET after[i \in 0..Len(dumped)] ==
            IF i = 0 THEN Links ELSE insert_element(after[i - 1], dumped[i].key, "key", levels[dumped[i].key])
    IN  /\ dumped # <<>>
        /\ Becomes(after[Len(dumped)])
        /\ store' = [k \in Key |-> IF k \in Dumped THEN DumpedValue(k) ELSE store[k]]
        /\ loaded' = loaded \cup Dumped
        /\ UNCHANGED dumped

\* A new server: an empty list, and the dump it is to load.
Renew ==
    /\ Becomes(EmptyList) /\ store' = [k \in Key |-> NoValue] /\ loaded' = {}
    /\ UNCHANGED dumped

SkipNext ==
    \/ \E k \in Key, v \in Value, l \in RandomLevel : InsertSet(k, v, l)
    \/ \E k \in Key : Delete(k)
    \/ dump_file \/ Renew
    \/ \E ls \in [Key -> RandomLevel] : load_file(ls)

SkipSpec == SkipInit /\ [][SkipNext]_skipVars

-----------------------------------------------------------------------------
\* Nodes, links and counters of SkipList have their types.
SkipTypeOK ==
    /\ forward \in [Level -> [{Header} \cup Key -> Key \cup {Null}]]
    /\ node_level \in [Key -> -1..MaxLevel] /\ value \in [Key -> Value \cup {NoValue}]
    /\ listLevel \in Level /\ count \in 0..MaxKey

\* Through every sequence of inserts, overwrites, deletes, dumps and loads the
\* list has the keys of the map: search_element finds a key exactly when it is
\* there, with the value it was given last unless load_file brought the key
\* (skipList.h:299 inserts it with its own text), and dump_file lists all in order.
AnswersAsMap ==
    /\ \A k \in Key : /\ search_element(Links, k) = NoValue <=> store[k] = NoValue
                      /\ k \notin loaded => search_element(Links, k) = store[k]
    /\ LET w == Walk(Links)
       IN  /\ \A i, j \in DOMAIN w : i < j => w[i].key < w[j].key
           /\ {w[i].key : i \in DOMAIN w} = {k \in Key : store[k] # NoValue}
           /\ count = Len(w)

\* The levels are nested: a level links exactly the nodes that reach it, in
\* order, none of them deleted, and no level above _skip_list_level has a node.
LevelsNested ==
    \A i \in Level : \A n \in {Header} \cup {k \in Key : node_level[k] >= i} :
        LET later == {k \in Key : k > n /\ node_level[k] >= i}
        IN  /\ forward[i][n] = IF later = {} THEN Null ELSE CHOOSE k \in later : \A l \in later : k <= l
            /\ i > listLevel => later = {}

\* The towers and what they answer (insert_element, delete_element).
ListSound == SkipTypeOK /\ LevelsNested /\ AnswersAsMap
=============================================================================
