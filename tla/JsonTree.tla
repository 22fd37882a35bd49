------------------------------- MODULE JsonTree -------------------------------
(***************************************************************************)
(* The trees of cJSON, in which the program holds its configuration: what  *)
(* parsing builds, step by step, and the operations on trees.  The items   *)
(* of an array or object are a list through next and prev, which child     *)
(* points to; prev of the first is the last.  An allocation can fail at    *)
(* any time, and a text can end or go wrong anywhere.                      *)
(*                                                                         *)
(* A client (SetUpFromConf, PgPrepareCtx) holds some roots, and uses the   *)
(* library as it is meant to be used: an item it adds is a root it holds,  *)
(* and in no tree.  Values, names and the strings that hold them are left  *)
(* out, but for the allocations of theirs that fail.                       *)
(***************************************************************************)
EXTENDS Integers, Sequences

CONSTANTS
    MaxNodes,        \* bound: items at one time
    NestingLimit,    \* CJSON_NESTING_LIMIT
    CircularLimit    \* CJSON_CIRCULAR_LIMIT

ASSUME JsonAssumption ==
    MaxNodes \in Nat /\ NestingLimit \in Nat /\ CircularLimit \in Nat

VARIABLES
    nodes,               \* the items that are allocated
    next, prev, child,   \* their pointers
    roots,               \* the trees that the client holds
    parse                \* the calls of the parser, the innermost last

jsonVars == <<nodes, next, prev, child, roots, parse>>
treeVars == <<nodes, next, prev, child>>

Node == 1 .. MaxNodes
Null == 0
Link == Node \cup {Null}

\* A call of parse_array or parse_object for item; for the root, of parse_value.
ParseCall == [item : Node, first : Link, current : Link,
              pc : {"value", "after", "failed"}]

JsonTypeOK ==
    /\ nodes \subseteq Node /\ roots \subseteq nodes
    /\ next \in [Node -> Link] /\ prev \in [Node -> Link] /\ child \in [Node -> Link]
    /\ parse \in Seq(ParseCall) /\ Len(parse) <= NestingLimit + 1

NullLinks == [n \in Node |-> Null]
JsonInit ==
    /\ nodes = {} /\ roots = {} /\ parse = <<>>
    /\ next = NullLinks /\ prev = NullLinks /\ child = NullLinks

-----------------------------------------------------------------------------
\* A set of items that the pointers of its members do not leave.
Closed(S, nxt, chd) == \A m \in S : {nxt[m], chd[m]} \subseteq S \cup {Null}

\* All that a walk from n along these pointers meets: the least such set.
From(n, nxt, chd) ==
    LET closed == {S \in SUBSET Node : n \in S \cup {Null} /\ Closed(S, nxt, chd)} IN
    {m \in Node : \A S \in closed : m \in S}

\* The items of the list that begins at n, and those of the array or object p.
List(n) == From(n, next, next)
Children(p) == List(child[p])

\* All that is below n and its successors, and all that is in the tree of n.
Reach(n) == From(n, next, child)
Below(n) == {n} \cup Reach(child[n])

\* cJSON_New_Item: zeroed memory.  The caller takes the item for n.
NewItem(n) == n = CHOOSE m \in Node \ nodes : \A k \in Node \ nodes : m <= k

\* The pointers of freed items mean nothing any more.
Freed(pointers, gone) == [n \in Node |-> IF n \in gone THEN Null ELSE pointers[n]]

\* cJSON_Delete: the item, its successors, and all that is below them.
Deleted(n, nxt, chd) == From(n, nxt, chd)

Free(gone, nxt, prv, chd) ==
    /\ nodes' = nodes \ gone
    /\ next' = Freed(nxt, gone) /\ prev' = Freed(prv, gone) /\ child' = Freed(chd, gone)

-----------------------------------------------------------------------------
\* cJSON_ParseWithLengthOpts; without memory for the root it returns NULL.
Quiet == parse = <<>>

StartParse ==
    /\ Quiet
    /\ \E n \in Node \ nodes :
         /\ NewItem(n)
         /\ nodes' = nodes \cup {n}
         /\ parse' = <<[item |-> n, first |-> Null, current |-> Null, pc |-> "value"]>>
    /\ UNCHANGED <<next, prev, child, roots>>

call == parse[Len(parse)]
parsing(pc) == parse # <<>> /\ call.pc = pc
ReturnWith(pc) ==
    parse' = [SubSeq(parse, 1, Len(parse) - 1) EXCEPT ![Len(parse) - 1].pc = pc]
GoOn(pc) == parse' = [parse EXCEPT ![Len(parse)].pc = pc]

\* parse_value of null, false, true, a number or a string; or there is none, or
\* no memory for it.
ParseScalar ==
    /\ parsing("value")
    /\ GoOn("after") \/ GoOn("failed")
    /\ UNCHANGED <<treeVars, roots>>

\* The item whose value is parsed: the root, or the current one of the call.
Parsed == IF Len(parse) = 1 THEN call.item ELSE call.current

\* parse_value of '[' or '{': at the limit it is refused, "[]" is complete.
\* What follows is the first item of the list, for which NextItem stands.
ParseList ==
    /\ parsing("value")
    /\ \/ Len(parse) > NestingLimit /\ GoOn("failed") /\ UNCHANGED treeVars
       \/ Len(parse) <= NestingLimit /\ GoOn("after") /\ UNCHANGED treeVars
       \/ /\ Len(parse) <= NestingLimit
          /\ \E n \in Node \ nodes :
               /\ NewItem(n)
               /\ nodes' = nodes \cup {n}
               /\ parse' = Append(parse, [item |-> Parsed, first |-> n, current |-> n,
                                          pc |-> "value"])
          /\ UNCHANGED <<next, prev, child>>
    /\ UNCHANGED roots

\* A comma, and the next item at the end of the list; the name of an object's
\* item is parsed first, and that can fail.
NextItem ==
    /\ parsing("after") /\ Len(parse) > 1
    /\ \E n \in Node \ nodes :
         /\ NewItem(n)
         /\ nodes' = nodes \cup {n}
         /\ next' = [next EXCEPT ![call.current] = n]
         /\ prev' = [prev EXCEPT ![n] = call.current]
         /\ parse' \in {[parse EXCEPT ![Len(parse)].current = n, ![Len(parse)].pc = pc] :
                          pc \in {"value", "failed"}}
    /\ UNCHANGED <<child, roots>>

\* Neither a comma nor the end, or no memory for an item.
ParseFails ==
    /\ parsing("after") /\ Len(parse) > 1
    /\ GoOn("failed")
    /\ UNCHANGED <<treeVars, roots>>

\* ']' or '}': only now does the item get its list.
EndList ==
    /\ parsing("after") /\ Len(parse) > 1
    /\ prev' = [prev EXCEPT ![call.first] = call.current]
    /\ child' = [child EXCEPT ![call.item] = call.first]
    /\ ReturnWith("after")
    /\ UNCHANGED <<nodes, next, roots>>

\* A list that fails is deleted from its first item, and its caller fails.
FailList ==
    /\ parsing("failed") /\ Len(parse) > 1
    /\ Free(Deleted(call.first, next, child), next, prev, child)
    /\ ReturnWith("failed")
    /\ UNCHANGED roots

EndParse ==
    /\ Len(parse) = 1 /\ call.pc # "value"
    /\ IF call.pc = "after"
       THEN roots' = roots \cup {call.item} /\ UNCHANGED treeVars
       ELSE Free(Deleted(call.item, next, child), next, prev, child) /\ UNCHANGED roots
    /\ parse' = <<>>

-----------------------------------------------------------------------------
\* cJSON_CreateNull and the others that create an item; a string whose copy
\* fails is deleted again.
Create ==
    /\ Quiet
    /\ \E n \in Node \ nodes :
         NewItem(n) /\ nodes' = nodes \cup {n} /\ roots' = roots \cup {n}
    /\ UNCHANGED <<next, prev, child, parse>>

\* cJSON_CreateIntArray and the like: an array of n items, or, when memory for
\* one of them fails, nothing.
CreateFilledArray ==
    /\ Quiet
    /\ \E n \in 1 .. MaxNodes - 1 :
       \E order \in [0 .. n -> Node \ nodes] :
         LET fresh == {order[i] : i \in 0 .. n}
             at(k) == CHOOSE i \in 0 .. n : order[i] = k
         IN
         /\ \A i, j \in 0 .. n : i < j => order[i] < order[j]
         /\ nodes' = nodes \cup fresh /\ roots' = roots \cup {order[0]}
         /\ next' = [k \in Node |-> IF k \in fresh /\ at(k) \in 1 .. n - 1
                                    THEN order[at(k) + 1] ELSE next[k]]
         /\ prev' = [k \in Node |-> IF k \in fresh /\ at(k) >= 1
                                    THEN order[IF at(k) = 1 THEN n ELSE at(k) - 1] ELSE prev[k]]
         /\ child' = [child EXCEPT ![order[0]] = order[1]]
    /\ UNCHANGED parse

\* Any item of any tree the client holds.
Held == UNION {Below(r) : r \in roots}
Added(parent, item) ==
    Quiet /\ item \in roots /\ parent \in Held /\ parent \notin Below(item)

\* Faulty variant: the first item does not learn of the new last one.
LinkLastForgotten(parent, item) ==
    prev' = [prev EXCEPT ![item] = prev[child[parent]]]

LinkLast(parent, item) ==
    prev' = [prev EXCEPT ![item] = prev[child[parent]], ![child[parent]] = item]

\* add_item_to_array: behind the last item, which is the prev of the first.
Attach(parent, item) ==
    IF child[parent] = Null
    THEN /\ child' = [child EXCEPT ![parent] = item]
         /\ prev' = [prev EXCEPT ![item] = item]
         /\ next' = [next EXCEPT ![item] = Null]
    ELSE /\ next' = [next EXCEPT ![prev[child[parent]]] = item]
         /\ LinkLast(parent, item)
         /\ UNCHANGED child

\* cJSON_AddItemToArray and cJSON_AddItemToObject.
AddItem(parent, item) ==
    /\ Added(parent, item)
    /\ Attach(parent, item)
    /\ roots' = roots \ {item}
    /\ UNCHANGED <<nodes, parse>>

\* cJSON_AddNullToObject and the like: the new item is added at once, or deleted
\* again when there is no memory for its name.
AddNew(parent) ==
    /\ Quiet /\ parent \in Held
    /\ \E n \in Node \ nodes : NewItem(n) /\ nodes' = nodes \cup {n} /\ Attach(parent, n)
    /\ UNCHANGED <<roots, parse>>

\* The pointers that close the gap where item was, and item's own set to NULL.
DetachedNext(parent, item) ==
    [n \in Node |-> IF n = item THEN Null
                    ELSE IF item # child[parent] /\ n = prev[item] THEN next[item]
                    ELSE next[n]]
DetachedPrev(parent, item) ==
    [n \in Node |-> IF n = item THEN Null
                    ELSE IF n = next[item] THEN prev[item]
                    ELSE IF item # child[parent] /\ next[item] = Null /\ n = child[parent]
                         THEN prev[item]
                    ELSE prev[n]]
DetachedChild(parent, item) ==
    IF item = child[parent] THEN [child EXCEPT ![parent] = next[item]] ELSE child

\* cJSON_DetachItemViaPointer: the client holds the item.
DetachItem(parent, item) ==
    /\ Quiet /\ parent \in Held /\ item \in Children(parent)
    /\ next' = DetachedNext(parent, item)
    /\ prev' = DetachedPrev(parent, item)
    /\ child' = DetachedChild(parent, item)
    /\ roots' = roots \cup {item}
    /\ UNCHANGED <<nodes, parse>>

\* cJSON_DeleteItemFromArray: detached, then deleted.
DeleteItem(parent, item) ==
    /\ Quiet /\ parent \in Held /\ item \in Children(parent)
    /\ LET nxt == DetachedNext(parent, item)
           chd == DetachedChild(parent, item)
       IN  Free(Deleted(item, nxt, chd), nxt, DetachedPrev(parent, item), chd)
    /\ UNCHANGED <<roots, parse>>

\* cJSON_InsertItemInArray, before the item that is there.
InsertItem(parent, before, item) ==
    /\ Added(parent, item) /\ before \in Children(parent)
    /\ next' = [n \in Node |-> IF n = item THEN before
                               ELSE IF before # child[parent] /\ n = prev[before] THEN item
                               ELSE next[n]]
    /\ prev' = [prev EXCEPT ![item] = prev[before], ![before] = item]
    /\ child' = IF before = child[parent] THEN [child EXCEPT ![parent] = item] ELSE child
    /\ roots' = roots \ {item}
    /\ UNCHANGED <<nodes, parse>>

\* cJSON_ReplaceItemViaPointer: old's place goes to item, and old is deleted.
ReplaceItem(parent, old, item) ==
    LET isFirst == child[parent] = old
        onlyOne == isFirst /\ prev[old] = old
        nxt == [n \in Node |-> IF n = old THEN Null
                               ELSE IF n = item THEN next[old]
                               ELSE IF ~isFirst /\ n = prev[old] THEN item ELSE next[n]]
        prv == [n \in Node |-> IF n = old THEN Null
                               ELSE IF n = item THEN IF onlyOne THEN item ELSE prev[old]
                               ELSE IF n = next[old] THEN item
                               ELSE IF ~isFirst /\ next[old] = Null /\ n = child[parent]
                                    THEN item
                               ELSE prev[n]]
        chd == IF isFirst THEN [child EXCEPT ![parent] = item] ELSE child
    IN
    /\ Added(parent, item) /\ old \in Children(parent)
    /\ Free(Deleted(old, nxt, chd), nxt, prv, chd)
    /\ roots' = roots \ {item}
    /\ UNCHANGED parse

\* No item lies more than CircularLimit levels below root.
Shallow(root) ==
    \E depth \in [Below(root) -> 0 .. CircularLimit] :
        /\ depth[root] = 0
        /\ \A m \in Below(root) :
             /\ child[m] # Null => depth[child[m]] = depth[m] + 1
             /\ m # root /\ next[m] # Null => depth[next[m]] = depth[m]

\* cJSON_Duplicate_rec: a copy of the whole tree, item by item, or nothing, for
\* what there is of it when memory fails or the tree is too deep is deleted.
Duplicate(root) ==
    /\ Quiet /\ root \in Held /\ Shallow(root)
    /\ \E copy \in [Below(root) -> Node \ nodes] :
         LET fresh == {copy[m] : m \in Below(root)}
             old(n) == CHOOSE m \in Below(root) : copy[m] = n
             Copied(pointers, n) ==
                 IF n \notin fresh THEN pointers[n]
                 ELSE IF pointers[old(n)] = Null THEN Null ELSE copy[pointers[old(n)]]
         IN
         /\ \A m, n \in Below(root) : m < n => copy[m] < copy[n]
         /\ nodes' = nodes \cup fresh /\ roots' = roots \cup {copy[root]}
         /\ child' = [n \in Node |-> Copied(child, n)]
         /\ next' = [n \in Node |-> IF n = copy[root] THEN Null ELSE Copied(next, n)]
         /\ prev' = [n \in Node |-> IF n = copy[root] THEN Null ELSE Copied(prev, n)]
    /\ UNCHANGED parse

\* cJSON_Delete of a tree the client holds.
Delete(root) ==
    /\ Quiet /\ root \in roots
    /\ Free(Deleted(root, next, child), next, prev, child)
    /\ roots' = roots \ {root}
    /\ UNCHANGED parse

JsonNext ==
    \/ StartParse \/ ParseScalar \/ ParseList \/ NextItem \/ ParseFails \/ EndList \/ FailList
    \/ EndParse \/ Create \/ CreateFilledArray
    \/ \E parent \in nodes :
         \/ AddNew(parent)
         \/ \E item \in roots : AddItem(parent, item)
         \/ \E old \in Children(parent) :
              \/ DetachItem(parent, old) \/ DeleteItem(parent, old)
              \/ \E item \in roots : InsertItem(parent, old, item) \/ ReplaceItem(parent, old, item)
    \/ \E root \in nodes : Duplicate(root) \/ Delete(root)

JsonSpec == JsonInit /\ [][JsonNext]_jsonVars

-----------------------------------------------------------------------------
\* What the parser holds: the root it fills, and the list of every call.
ParserOwned ==
    {parse[i].first : i \in 2 .. Len(parse)} \cup {parse[i].item : i \in 1 .. Len(parse)}
Owners == roots \cup ParserOwned

\* From the first item, prev leads to the last one, and from the others back.
WellLinked(p) ==
    child[p] # Null =>
        /\ prev[child[p]] \in Children(p) /\ next[prev[child[p]]] = Null
        /\ \A m \in Children(p) : next[m] # Null => prev[next[m]] = m

\* Whatever fails while a text is parsed, and however trees are put together and
\* taken apart, every item that is allocated belongs to exactly one tree or to
\* the parser, so that none is leaked and none is freed twice; nothing points
\* to a freed item; a root has no neighbours, which deleting it would take
\* along; and a list can be walked both ways (cJSON.c:248-267, 1355-1594,
\* 2039-2176, 2506-2586).
TreeIntact ==
    /\ nodes = (UNION {Below(n) : n \in Owners}) \cup UNION {Reach(n) : n \in ParserOwned}
    /\ \A n \in nodes :
         /\ {next[n], prev[n], child[n]} \subseteq nodes \cup {Null}
         /\ WellLinked(n)
         /\ \A q \in nodes : q # n => Children(q) \cap Children(n) = {}
    /\ \A r \in roots :
         /\ next[r] = Null
         /\ \A n \in nodes : r \notin Children(n)
         /\ \A q \in roots : q # r => Below(q) \cap Below(r) = {}
=============================================================================
