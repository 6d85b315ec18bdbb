----------------------------- MODULE RadixCache -----------------------------
(***************************************************************************)
(* sglang_mlx/srt/mem_cache/radix_cache.py: the radix tree that maps token *)
(* prefixes to KV slots.  The tree is a heap of TreeNode objects linked by *)
(* parent and children; evictable_leaves and the two sizes are maintained  *)
(* incrementally, as in the code.                                          *)
(*                                                                         *)
(* A node is named by the path its key ended at when it was created: the   *)
(* name of its parent followed by its own key.  Splitting cuts the front   *)
(* of a node's key off, so a live node's path never changes and the name   *)
(* stands for the object's identity; TreeWellFormed checks that the        *)
(* pointers agree with the names.  A deleted node is garbage.              *)
(*                                                                         *)
(* A call whose code loops takes several steps: one that starts it, one    *)
(* for each iteration of its loop, and one that returns.  The cache has no *)
(* lock and is used by one thread, so a call starts only when none is      *)
(* under way: the steps of two calls never mix.                            *)
(*                                                                         *)
(* The readings of time.monotonic() matter: the access time of a call and  *)
(* the time a TreeNode is created at.  The clock never goes back but may   *)
(* return the same reading twice; a call lasts one tick at most, and the   *)
(* clock stops at max_time (the bound).                                    *)
(***************************************************************************)
EXTENDS PrefixMap

CONSTANTS Token, Slot, Client, EvictSizes,
    Setups      \* caches and how they are used, see SetupsAssumption

\* params.eviction_policy, the keys clients look up, the (key, value) pairs and
\* the priorities they insert with, the clients that lock nodes, and the bound
\* on the clock.  A value has a slot for every token of its key, as those have
\* that forward_prefill and forward_decode give it.
ASSUME SetupsAssumption ==
    \A s \in Setups :
        /\ s.policy \in {"lru", "lfu", "fifo", "mru", "filo", "priority"}
        /\ s.keys \subseteq Seq(Token)
        /\ \A call \in s.inserts :
            /\ call \in Seq(Token) \X Seq(Slot)
            /\ Len(call[1]) = Len(call[2])
        /\ s.priorities \subseteq Nat /\ s.clients \subseteq Client /\ s.max_time \in Nat
ASSUME ClientAssumption == IsFiniteSet(Client)
ASSUME SizesAssumption == EvictSizes \subseteq Nat

Keys == UNION {s.keys : s \in Setups}
Inserts == UNION {s.inserts : s \in Setups}

VARIABLES
    setup,      \* the one of this cache
    tree,       \* the RadixCache object: nodes, leaves and sizes
    hold,       \* client -> the node it has locked, Root if none
    clock,      \* the last reading of time.monotonic()
    reply,      \* what the last call returned
    call        \* the call under way and its local variables

vars == <<setup, tree, hold, clock, reply, call>>

Root == <<>>
MinPriority == -1      \* -sys.maxsize: below every priority a caller gives

\* A dict with one entry, {x: y}, and d[x] = y.
Only(x, y) == [z \in {x} |-> y]
Put(d, x, y) == [z \in DOMAIN d \union {x} |-> IF z = x THEN y ELSE d[z]]

TreeNode(parent, key, value, lock_ref, children, priority, t) ==
    [parent |-> parent, key |-> key, value |-> value, lock_ref |-> lock_ref,
     children |-> children, priority |-> priority,
     last_access_time |-> t, creation_time |-> t]

\* The root is its own parent: None in the code, which nothing follows.
EmptyTree(t) ==
    [nodes |-> Only(Root, TreeNode(Root, <<>>, <<>>, 1, <<>>, MinPriority, t)),
     evictable_leaves |-> {}, evictable_size_ |-> 0, protected_size_ |-> 0]

NoReply == [op |-> "none"]
NoCall == [op |-> "none"]

Init ==
    /\ setup \in Setups
    /\ clock = 0
    /\ tree = EmptyTree(clock)
    /\ hold = [c \in Client |-> Root]
    /\ reply = NoReply
    /\ call = NoCall

-----------------------------------------------------------------------------
(***************************************************************************)
(* The helpers, as functions from a tree to the tree they leave.           *)
(***************************************************************************)

\* _key_match: length of the common prefix.
KeyMatch(key0, key1) ==
    Max({n \in 0 .. Len(key0) : n <= Len(key1) /\ Take(key0, n) = Take(key1, n)})

Drop(s, n) == SubSeq(s, n + 1, Len(s))     \* s[n:]

Touch_Never(s, id, t) == s                  \* access times not refreshed
Touch(s, id, t) == [s EXCEPT !.nodes[id].last_access_time = t]

RaisePriority(s, id, priority) ==
    [s EXCEPT !.nodes[id].priority = Max({@, priority})]

\* _update_leaf_status: value is never None on a live node, so a node counts
\* as a leaf exactly when it has no children.
UpdateLeafStatus(s, id) ==
    [s EXCEPT !.evictable_leaves =
        IF s.nodes[id].lock_ref > 0 \/ DOMAIN s.nodes[id].children # {}
        THEN @ \ {id} ELSE @ \union {id}]

\* _split_node: a new node takes the first n tokens of child, with a copy of
\* its lock count and priority, and goes between child and its parent.
UpperNode_Unlocked(old, child, n, u) ==         \* lock_ref not copied
    TreeNode(old.parent, Take(old.key, n), Take(old.value, n),
             0, Only(old.key[n + 1], child), old.priority, u)
UpperNode_DefaultPriority(old, child, n, u) ==  \* priority not copied
    TreeNode(old.parent, Take(old.key, n), Take(old.value, n),
             old.lock_ref, Only(old.key[n + 1], child), 0, u)
UpperNode(old, child, n, u) ==
    TreeNode(old.parent, Take(old.key, n), Take(old.value, n),
             old.lock_ref, Only(old.key[n + 1], child), old.priority, u)
LowerNode_OldParent(old, new, n) ==             \* child.parent not set
    [old EXCEPT !.key = Drop(@, n), !.value = Drop(@, n)]
LowerNode(old, new, n) ==
    [old EXCEPT !.parent = new, !.key = Drop(@, n), !.value = Drop(@, n)]
SplitName(s, child, n) == s.nodes[child].parent \o Take(s.nodes[child].key, n)
SplitNode(s, child, n, u) ==
    LET old == s.nodes[child]
        new == SplitName(s, child, n)
        nodes == [s.nodes EXCEPT ![child] = LowerNode(old, new, n),
                                 ![old.parent].children = Put(@, old.key[1], new)]
    IN  [s EXCEPT !.nodes = Put(nodes, new, UpperNode(old, child, n, u))]

LinkLeaf(s, id, key, value, priority, u) ==
    LET new == id \o key
        nodes == [s.nodes EXCEPT ![id].children = Put(@, key[1], new)]
    IN  [s EXCEPT !.nodes = Put(nodes, new, TreeNode(id, key, value, 0, <<>>, priority, u)),
                  !.evictable_size_ = @ + Len(key)]

AddLeaf_ParentStays(s, id, key, value, priority, u) ==  \* parent's status not updated
    UpdateLeafStatus(LinkLeaf(s, id, key, value, priority, u), id \o key)

\* The end of _insert_helper: what is left of the key becomes a new leaf.
AddLeaf(s, id, key, value, priority, u) ==
    UpdateLeafStatus(
        UpdateLeafStatus(LinkLeaf(s, id, key, value, priority, u), id), id \o key)

\* An iteration of inc_lock_ref and of dec_lock_ref, on the node it is at; what
\* they add to delta; and the node they go on to.
LockGain(node) == IF node.lock_ref = 0 THEN Len(node.key) ELSE 0
LockNode(s, id) ==
    LET n == LockGain(s.nodes[id])
    IN  UpdateLeafStatus([s EXCEPT !.evictable_size_ = @ - n,
                                   !.protected_size_ = @ + n,
                                   !.nodes[id].lock_ref = @ + 1], id)

UnlockGain(node) == IF node.lock_ref = 1 THEN Len(node.key) ELSE 0
UnlockNode(s, id) ==
    LET n == UnlockGain(s.nodes[id])
    IN  UpdateLeafStatus([s EXCEPT !.evictable_size_ = @ + n,
                                   !.protected_size_ = @ - n,
                                   !.nodes[id].lock_ref = @ - 1], id)

Above_Root(id) == Root                          \* the ancestors forgotten
Above(id) == tree.nodes[id].parent

\* The nodes without id, which leaves its parent's children.
NodesWithout(s, id) ==
    LET node == s.nodes[id]
        rest == Restrict(s.nodes, DOMAIN s.nodes \ {id})
    IN  [rest EXCEPT ![node.parent].children = Restrict(@, DOMAIN @ \ {node.key[1]})]

DeleteLeaf_SizeStays(s, id) ==                  \* evictable_size_ not updated
    UpdateLeafStatus([s EXCEPT !.nodes = NodesWithout(s, id),
                               !.evictable_leaves = @ \ {id}], s.nodes[id].parent)

\* _delete_leaf; its assertion, that the parent's entry is the node, is part
\* of TreeWellFormed.
DeleteLeaf(s, id) ==
    UpdateLeafStatus([s EXCEPT !.nodes = NodesWithout(s, id),
                               !.evictable_size_ = @ - Len(s.nodes[id].key),
                               !.evictable_leaves = @ \ {id}], s.nodes[id].parent)

\* evict_policy.py: the strategy's get_priority, then what decides between
\* equals: the second component of a tuple, or TreeNode.__lt__, which both
\* are last_access_time.  hit_count is 0 on every node, nothing increments it.
HeapKey(node) ==
    CASE setup.policy = "lru"      -> <<node.last_access_time, node.last_access_time>>
      [] setup.policy = "lfu"      -> <<0, node.last_access_time>>
      [] setup.policy = "fifo"     -> <<node.creation_time, node.last_access_time>>
      [] setup.policy = "mru"      -> <<-node.last_access_time, node.last_access_time>>
      [] setup.policy = "filo"     -> <<-node.creation_time, node.last_access_time>>
      [] setup.policy = "priority" -> <<node.priority, node.last_access_time>>

Before(k, l) == k[1] < l[1] \/ (k[1] = l[1] /\ k[2] < l[2])

\* What heappop may return: equal entries come out in an order that depends
\* on the iteration order of a set of objects.
Poppable(s, heap) ==
    {x \in heap : \A y \in heap : ~Before(HeapKey(s.nodes[y]), HeapKey(s.nodes[x]))}

PushedBy_Never(s, x) == {}                      \* parents not pushed back

\* The nodes the loop of evict pushes back once x is deleted.
PushedBy(s, x) ==
    LET p == s.nodes[x].parent
    IN  IF DOMAIN DeleteLeaf(s, x).nodes[p].children = {} /\ s.nodes[p].lock_ref = 0
        THEN {p} ELSE {}

-----------------------------------------------------------------------------
(***************************************************************************)
(* The public calls.                                                       *)
(***************************************************************************)

Idle == call = NoCall
Return(r) == reply' = r /\ call' = NoCall

\* time.monotonic(), at the start of a call and within it.
Now == {t \in {clock, clock + 1} : t <= setup.max_time}
Later == {u \in Now : u <= call.t + 1}

\* Where the loops of _match_prefix_helper and _insert_helper stand: len tokens
\* of the key are matched, up to the end of node.
Rest == Drop(call.key, call.len)
CanDescend == Rest # <<>> /\ Rest[1] \in DOMAIN tree.nodes[call.node].children
Child == tree.nodes[call.node].children[Rest[1]]
Common == KeyMatch(tree.nodes[Child].key, Rest)
ChildMatches == Common = Len(tree.nodes[Child].key)
Touched == Touch(tree, Child, call.t)

\* match_prefix: the empty key returns the root without reading the clock.
MatchReply(key, slots, node) ==
    [op |-> "match", key |-> key, slots |-> slots, last_node |-> node]

MatchPrefix(key) ==
    /\ Idle
    /\ IF key = <<>>
       THEN Return(MatchReply(key, <<>>, Root)) /\ UNCHANGED <<tree, clock>>
       ELSE \E t \in Now :
                /\ tree' = Touch(tree, Root, t)
                /\ clock' = t
                /\ call' = [op |-> "match", key |-> key, node |-> Root, len |-> 0,
                            value |-> <<>>, t |-> t]
                /\ UNCHANGED reply
    /\ UNCHANGED hold

\* An iteration that matches all of a node, and one that matches the front of
\* its key only and ends the loop.
MatchDescend ==
    /\ call.op = "match" /\ CanDescend /\ ChildMatches
    /\ tree' = Touched
    /\ call' = [call EXCEPT !.node = Child, !.len = @ + Common,
                            !.value = @ \o tree.nodes[Child].value]
    /\ UNCHANGED <<hold, clock, reply>>

MatchSplit ==
    /\ call.op = "match" /\ CanDescend /\ ~ChildMatches
    /\ \E u \in Later : tree' = SplitNode(Touched, Child, Common, u) /\ clock' = u
    /\ Return(MatchReply(call.key, call.value \o Take(tree.nodes[Child].value, Common),
                         SplitName(tree, Child, Common)))
    /\ UNCHANGED hold

MatchReturn ==
    /\ call.op = "match" /\ ~CanDescend
    /\ Return(MatchReply(call.key, call.value, call.node))
    /\ UNCHANGED <<tree, hold, clock>>

\* insert: the start and the iterations of _insert_helper.
InsertReply(len) == [op |-> "insert", len |-> len]

Insert(key, value, priority) ==
    /\ Idle
    /\ \E t \in Now :
        /\ tree' = RaisePriority(Touch(tree, Root, t), Root, priority)
        /\ clock' = t
        /\ IF key = <<>> THEN Return(InsertReply(0))
           ELSE /\ call' = [op |-> "insert", key |-> key, node |-> Root, len |-> 0,
                            value |-> value, priority |-> priority, t |-> t]
                /\ UNCHANGED reply
    /\ UNCHANGED hold

InsertDescend ==
    /\ call.op = "insert" /\ CanDescend /\ ChildMatches
    /\ tree' = RaisePriority(Touched, Child, call.priority)
    /\ call' = [call EXCEPT !.node = Child, !.len = @ + Common]
    /\ UNCHANGED <<hold, clock, reply>>

InsertSplit ==
    /\ call.op = "insert" /\ CanDescend /\ ~ChildMatches
    /\ LET new == SplitName(tree, Child, Common)
       IN  /\ \E u \in Later :
                /\ tree' = RaisePriority(SplitNode(Touched, Child, Common, u), new,
                                         call.priority)
                /\ clock' = u
           /\ call' = [call EXCEPT !.node = new, !.len = @ + Common]
    /\ UNCHANGED <<hold, reply>>

InsertLeaf ==
    /\ call.op = "insert" /\ ~CanDescend /\ Rest # <<>>
    /\ \E u \in Later :
        /\ tree' = AddLeaf(tree, call.node, Rest, Drop(call.value, call.len),
                           call.priority, u)
        /\ clock' = u
    /\ Return(InsertReply(call.len))
    /\ UNCHANGED hold

InsertReturn ==
    /\ call.op = "insert" /\ Rest = <<>>
    /\ Return(InsertReply(call.len))
    /\ UNCHANGED <<tree, hold, clock>>

\* A client locks the node the last call, a match_prefix, returned, as
\* forward_prefill does; inc_lock_ref goes up to, and without, the root.
Lock(c) ==
    /\ Idle /\ reply.op = "match" /\ hold[c] = Root
    /\ call' = [op |-> "lock", client |-> c, node |-> reply.last_node, delta |-> 0]
    /\ UNCHANGED <<tree, hold, clock, reply>>

LockStep ==
    /\ call.op = "lock" /\ call.node # Root
    /\ tree' = LockNode(tree, call.node)
    /\ call' = [call EXCEPT !.delta = @ - LockGain(tree.nodes[call.node]),
                            !.node = Above(call.node)]
    /\ UNCHANGED <<hold, clock, reply>>

LockReturn ==
    /\ call.op = "lock" /\ call.node = Root
    /\ hold' = [hold EXCEPT ![call.client] = reply.last_node]
    /\ Return([op |-> "lock", delta |-> call.delta])
    /\ UNCHANGED <<tree, clock>>

\* And unlocks it some calls later, as finish_request does.
Unlock(c) ==
    /\ Idle /\ hold[c] # Root
    /\ call' = [op |-> "unlock", client |-> c, node |-> hold[c], delta |-> 0]
    /\ UNCHANGED <<tree, hold, clock, reply>>

UnlockStep ==
    /\ call.op = "unlock" /\ call.node # Root
    /\ tree' = UnlockNode(tree, call.node)
    /\ call' = [call EXCEPT !.delta = @ + UnlockGain(tree.nodes[call.node]),
                            !.node = Above(call.node)]
    /\ UNCHANGED <<hold, clock, reply>>

UnlockReturn ==
    /\ call.op = "unlock" /\ call.node = Root
    /\ hold' = [hold EXCEPT ![call.client] = Root]
    /\ Return([op |-> "unlock", delta |-> call.delta])
    /\ UNCHANGED <<tree, clock>>

\* evict: freed is what its loop has passed to allocator.free; before, the
\* tree it started from, is for the properties.
Evict(n) ==
    /\ Idle
    /\ call' = [op |-> "evict", n |-> n, heap |-> tree.evictable_leaves, num |-> 0,
                freed |-> {}, before |-> tree]
    /\ UNCHANGED <<tree, hold, clock, reply>>

EvictsMore == call.num < call.n /\ call.heap # {}

EvictStep ==
    /\ call.op = "evict" /\ EvictsMore
    /\ \E x \in Poppable(tree, call.heap) :
        /\ tree' = DeleteLeaf(tree, x)
        /\ call' = [call EXCEPT !.heap = (@ \ {x}) \union PushedBy(tree, x),
                                !.num = @ + Len(tree.nodes[x].value),
                                !.freed = @ \union ToSet(tree.nodes[x].value)]
    /\ UNCHANGED <<hold, clock, reply>>

EvictReturn ==
    /\ call.op = "evict" /\ ~EvictsMore
    /\ Return([op |-> "evict", n |-> call.n, num |-> call.num, freed |-> call.freed])
    /\ UNCHANGED <<tree, hold, clock>>

\* A node of the tree before a reset cannot be unlocked after it: the walk
\* would never meet the new root.
Reset ==
    /\ Idle /\ \A c \in Client : hold[c] = Root
    /\ \E t \in Now : tree' = EmptyTree(t) /\ clock' = t
    /\ Return(NoReply)
    /\ UNCHANGED hold

Next ==
    /\ \/ \E key \in setup.keys : MatchPrefix(key)
       \/ MatchDescend \/ MatchSplit \/ MatchReturn
       \/ \E i \in setup.inserts, p \in setup.priorities : Insert(i[1], i[2], p)
       \/ InsertDescend \/ InsertSplit \/ InsertLeaf \/ InsertReturn
       \/ \E c \in setup.clients : Lock(c)
       \/ LockStep \/ LockReturn
       \/ \E c \in setup.clients : Unlock(c)
       \/ UnlockStep \/ UnlockReturn
       \/ \E n \in EvictSizes : Evict(n)
       \/ EvictStep \/ EvictReturn
       \/ Reset
    /\ UNCHANGED setup

Spec == Init /\ [][Next]_vars

-----------------------------------------------------------------------------
Nodes == DOMAIN tree.nodes
NonRoot == Nodes \ {Root}
Locked(id) == tree.nodes[id].lock_ref > 0

\* The entries of the map a node stands for, one for each token of its key.
EntriesOf(s, id) ==
    {Take(id, n) : n \in (Len(s.nodes[id].parent) + 1) .. Len(id)}
EntriesOfAll(s, ids) == UNION {EntriesOf(s, id) : id \in ids}

TypeOK ==
    /\ \A id \in Nodes :
        LET node == tree.nodes[id]
        IN  /\ node.key \in Seq(Token) /\ node.value \in Seq(Slot)
            /\ node.lock_ref \in Nat /\ node.priority \in setup.priorities \union {MinPriority}
            /\ node.last_access_time \in 0 .. clock
    /\ hold \in [Client -> Nodes]
    /\ clock \in 0 .. setup.max_time

\* The pointers form one tree whose paths are the names: every node is
\* reachable under the first token of its key (the assertion of _delete_leaf),
\* from the parent it points to, and its value has a slot per token.
TreeWellFormed ==
    /\ Root \in Nodes
    /\ \A id \in NonRoot :
        LET node == tree.nodes[id]
        IN  /\ node.parent \in Nodes /\ node.key # <<>>
            /\ node.parent \o node.key = id
            /\ Len(node.value) = Len(node.key)
            /\ node.key[1] \in DOMAIN tree.nodes[node.parent].children
            /\ tree.nodes[node.parent].children[node.key[1]] = id
    /\ \A id \in Nodes : \A tok \in DOMAIN tree.nodes[id].children :
        LET child == tree.nodes[id].children[tok]
        IN  child \in NonRoot /\ tree.nodes[child].parent = id
            /\ tree.nodes[child].key[1] = tok

\* Between calls, lock_ref counts the holders of a node and of all its
\* descendants, also on the node a split put above a held one, and the root
\* keeps its own lock.
LockRefCounts ==
    Idle => \A id \in Nodes : tree.nodes[id].lock_ref =
                IF id = Root THEN 1 ELSE Cardinality({c \in Client : IsPrefix(id, hold[c])})

\* evictable_leaves, maintained call by call, is what a scan would find.
LeavesExact ==
    tree.evictable_leaves =
        {id \in Nodes : ~Locked(id) /\ DOMAIN tree.nodes[id].children = {}}

\* evictable_size_ and protected_size_ count the tokens of the unlocked and
\* of the locked nodes; together they are what total_size computes.
SizesExact ==
    /\ tree.evictable_size_ =
            Cardinality(EntriesOfAll(tree, {id \in NonRoot : ~Locked(id)}))
    /\ tree.protected_size_ =
            Cardinality(EntriesOfAll(tree, {id \in NonRoot : Locked(id)}))

\* A node is at least as important as what hangs below it: insert raises the
\* priority of every node it passes, a split copies it upwards.
PriorityMonotone ==
    \A id \in NonRoot :
        tree.nodes[id].priority <= tree.nodes[tree.nodes[id].parent].priority

\* What an evict has dropped so far, and what it could still drop.
Dropped == DOMAIN call.before.nodes \ Nodes
Kept == {id \in NonRoot : ~Locked(id)}

\* With the priority policy evict drops no node, leaf or not, while an
\* unlocked node of strictly lower priority stays anywhere in the tree.
PriorityOrder ==
    setup.policy = "priority" =>
        \A x \in Dropped, y \in Kept :
            call.before.nodes[x].priority <= tree.nodes[y].priority

\* With the lru policy, and with lfu, which never counts a hit, evict drops no
\* node, leaf or not, that was used more recently than an unlocked node it
\* keeps.  One tick is allowed for: within a call the new leaf is stamped
\* after the nodes on the way to it.
LruOrder ==
    setup.policy \in {"lru", "lfu"} =>
        \A x \in Dropped, y \in Kept :
            call.before.nodes[x].last_access_time <= tree.nodes[y].last_access_time + 1

\* With fifo, filo and mru evict drops no node that is younger, older or used
\* less recently than an unlocked leaf it keeps, however many parents have
\* joined the heap by then.  Over inner nodes these policies promise nothing:
\* a split makes the front of an old node a new one, on top of its rest.
LeafOrder ==
    \A x \in Dropped, y \in Kept :
        DOMAIN call.before.nodes[y].children = {} =>
            LET dropped == call.before.nodes[x]
                kept == tree.nodes[y]
            IN  /\ setup.policy = "fifo" => dropped.creation_time <= kept.creation_time
                /\ setup.policy = "filo" => dropped.creation_time >= kept.creation_time
                /\ setup.policy = "mru" => dropped.last_access_time >= kept.last_access_time

\* Every policy keeps its order, although the heap holds only leaves and its
\* keys are taken when a node joins it.
EvictionOrder == call.op = "evict" => PriorityOrder /\ LruOrder /\ LeafOrder

\* The map a tree represents.
Holder(s, p) == CHOOSE id \in DOMAIN s.nodes : p \in EntriesOf(s, id)
MapOf(s) ==
    [p \in EntriesOfAll(s, DOMAIN s.nodes) |->
        LET node == s.nodes[Holder(s, p)]
        IN  node.value[Len(p) - Len(node.parent)]]

\* An eviction is seen from outside once it returns.
CachedMap == MapOf(IF call.op = "evict" THEN call.before ELSE tree)

Cache == INSTANCE PrefixCache WITH cached <- CachedMap, pin <- hold

\* Every call does to the map, and returns to the caller, what PrefixCache
\* says: the longest cached prefix and its slots, first writer wins, eviction
\* of unlocked suffixes only and of enough of them, exact deltas.
RefinesPrefixCache == Cache!Spec
=============================================================================
