--------------------------- MODULE ConversationProofs ---------------------------
(***************************************************************************)
(* Safety of the messaging conversations, for any set of prompts and any   *)
(* number of messages, stops and clears.                                   *)
(*                                                                         *)
(* The trees (TreesInv): what the runs check of runners, queues and resumed *)
(* sessions is inductive once it is known that prompts hang from their     *)
(* roots (TreesFit), that a prompt waits behind what it replies to         *)
(* (ParentsFirst) and that work is done in the tree it was claimed in      *)
(* (ClaimsFit).  Most actions only remove, settle and end (TreesShrink),   *)
(* which keeps all of it; a claim that starts (ClaimStarts), an admission  *)
(* and a restart are the others.                                           *)
(*                                                                         *)
(* The store (StoreFits): a tree of it that is not as published is in the  *)
(* hands of whoever holds the workflow's lock.  The close (CloseFits): its *)
(* stop leaves no work and no turn, so nothing changes but what is saved.  *)
(*                                                                         *)
(* Queues and trees are data of any size.  What would be an induction is   *)
(* argued with smallest elements (RestExists), and with the sets that are  *)
(* closed under replying (Hangs, Subtree).                                 *)
(***************************************************************************)
EXTENDS Conversation, SequenceTheorems, WellFoundedInduction, TLAPS

-----------------------------------------------------------------------------
(* The inductive invariant. *)

\* Every prompt hangs from its root: a set that has the roots and what hangs from it has
\* them all.
Hangs(nodes) == \A t \in SUBSET Nodes :
    (\A m \in Nodes : nodes[m].state # "absent" /\ (nodes[m].parent \in t \/ nodes[m].root = m) => m \in t)
        => \A m \in Nodes : nodes[m].state # "absent" => m \in t

\* A prompt hangs from its root directly or through another prompt of the same tree, and
\* what may run has a status message.
PromptFits(nodes, n) ==
    IF nodes[n].state = "absent" THEN nodes[n] = Blank
    ELSE LET r == nodes[n].root
             p == nodes[n].parent
         IN  /\ r \in Nodes /\ nodes[r].state # "absent" /\ nodes[r].root = r
             /\ p = NoNode <=> r = n
             /\ p # NoNode => /\ p # n /\ p \in Nodes /\ nodes[p].state # "absent"
                                 /\ nodes[p].root = r
                              /\ nodes[n].viaStatus => nodes[p].status
             /\ nodes[n].state \in Runnable => nodes[n].status

\* The trees of nodes.
TreesFit(nodes) == Hangs(nodes) /\ \A n \in Nodes : PromptFits(nodes, n)

\* A snapshot that can be restored: every prompt of it hangs from the root r, through
\* prompts of the snapshot.
SnapshotFits(s, r) ==
    /\ Restorable(s, r)
    /\ \A n \in DOMAIN s : /\ s[n].state # "absent" /\ s[n].root = r /\ s[n].parent # n
                           /\ s[n].parent = NoNode => n = r
    /\ \A t \in SUBSET Nodes :
          r \in t /\ (\A m \in DOMAIN s : s[m].parent \in t => m \in t) => DOMAIN s \subseteq t

\* A prompt waits behind those it replies to.
ParentsFirst == \A r \in Nodes : \A i, j \in DOMAIN queue[r] :
    i < j => node[queue[r][i]].parent # queue[r][j]

\* Work is done on a prompt of the tree it was claimed in.
ClaimsFit == \A c \in Claims :
    /\ ~Over(c) => tasks[c].root \in Nodes
    /\ Working(c) => LET n == tasks[c].node IN n \in Nodes /\ Known(n) /\ node[n].root = tasks[c].root

\* Whoever holds the lock will drop the tree of r or save it again.
Waits(r) == r \in wf.drop \/ r \in wf.roots \/ \E p \in wf.snaps : p[1] = r

\* What the store holds can be restored, no prompt is in two trees of it, and what is
\* stored of a prompt that is gone, or was captured, is still to be dropped or saved.
StoreFits ==
    /\ \A r \in Nodes : store[r] # NoSnapshot => SnapshotFits(store[r], r)
          /\ (r \in Published \/ r \in wf.drop)
    /\ \A q, r \in Nodes : \A n \in DOMAIN store[q] : n \in DOMAIN store[r] => q = r
    /\ \A r \in Nodes : \A n \in DOMAIN store[r] : IF Known(n) THEN node[n].root = r ELSE Waits(r)
    /\ \A p \in wf.snaps : p[1] \in Published /\ SnapshotFits(p[2], p[1])
          /\ DOMAIN p[2] = Members(p[1])
    /\ Unlocked => wf.roots = {} /\ wf.snaps = {} /\ wf.drop = {}

\* A turn is of this generation or of an earlier one.
TurnsFit == \A n \in Nodes : turn[n].token <= generation

\* From the stop that begins the close nothing runs or is admitted, and what is not saved
\* yet is in the hands of the holder of the lock.
CloseFits == closing # "open" =>
    /\ \A n \in Nodes : node[n].state \notin Runnable /\ ~Current(n)
    /\ \A c \in Claims : ~Working(c)
    /\ wf.op \in {"idle", "stop", "stopAll"} /\ wf.drop = {}
    /\ \A p \in wf.snaps : p[2] = SnapshotOf(node, p[1])
    /\ \A r \in Nodes : r \notin Published => store[r] = NoSnapshot
    /\ \A r \in Published : \/ store[r] = SnapshotOf(node, r)
                            \/ closing # "closed" /\ Waits(r)

\* The types of the trees.
TreesTyped ==
    /\ node \in [Nodes -> NodeRecord] /\ tasks \in [Claims -> TaskRecord]
    /\ active \in [Nodes -> Claims \cup {0}] /\ queue \in [Nodes -> Seq(Nodes)]

\* The invariant of the trees.
TreesInv ==
    /\ TreesTyped /\ TreesFit(node)
    /\ QueueIsPending /\ ParentsFirst /\ ParentSettledFirst
    /\ ActiveHasTask /\ OneRunnerPerTree /\ ClaimsFit /\ ResumeMatchesParent

\* The inductive invariant.
ConversationInv == TreesInv /\ TypeOK /\ StopIsQuiet /\ StoreFits /\ TurnsFit /\ CloseFits

\* What a removal of R may do to another prompt m.
PromptShrinks(R, m) ==
    IF node[m].state = "absent" THEN node'[m] = node[m]
    ELSE /\ node'[m].root = node[m].root /\ node'[m].parent = node[m].parent
         /\ node'[m].viaStatus <=> node[m].viaStatus
         /\ node'[m].state \in {node[m].state, "ERROR", "COMPLETED"}
         /\ \/ node'[m].status <=> node[m].status
            \/ /\ ~node'[m].status /\ node'[m].state = "ERROR"
               /\ \A k \in Nodes \ R : Known(k) /\ node[k].parent = m => ~node[k].viaStatus
         /\ (node'[m].session <=> node[m].session) \/ node[m].state = "IN_PROGRESS"
               \/ ~node'[m].status

\* What is left of a queue are the prompts still pending, in their order.
QueueShrinks(r) ==
    /\ IsInjective(queue'[r]) /\ InOrderOf(queue'[r], queue[r])
    /\ ToSet(queue'[r]) = {n \in ToSet(queue[r]) : node'[n].state = "PENDING"}

\* No claim starts to work, and those that run a prompt that is left still do.
ClaimShrinks(R, c) ==
    /\ tasks'[c].node = tasks[c].node /\ tasks'[c].root = tasks[c].root
    /\ tasks'[c].resume <=> tasks[c].resume
    /\ Over(c)' <=> Over(c)
    /\ Working(c)' => Working(c) /\ tasks[c].node \notin R
    /\ Working(c) /\ tasks[c].place # "finishing" /\ tasks[c].node \in Nodes
       /\ node'[tasks[c].node].state = "IN_PROGRESS" => Working(c)' /\ tasks'[c].place # "finishing"

\* A step that only removes the prompts of R, settles others and ends work on them.
TreesShrink(R) ==
    /\ TreesTyped' /\ R \in SUBSET Nodes /\ HasReplies(R)
    /\ \A m \in R : node'[m] = Blank
    /\ \A m \in Nodes \ R : PromptShrinks(R, m)
    /\ \A r \in Nodes : QueueShrinks(r) /\ active'[r] = IF r \in R THEN 0 ELSE active[r]
    /\ \A c \in Claims : ClaimShrinks(R, c)

-----------------------------------------------------------------------------
(* What leaves a queue. *)

\* Of some numbers one is the smallest.
LEMMA SmallestOf == ASSUME NEW T \in SUBSET Nat, T # {} PROVE \E x \in T : \A y \in T : x <= y
<1>1. IsWellFoundedOn(OpToRel(<,Nat), Nat)
  BY NatLessThanWellFounded
<1>2. PICK x \in T : \A y \in T : ~ (<<y, x>> \in OpToRel(<,Nat))
  BY <1>1, WFMin
<1>3. \A y \in T : <<y, x>> \in OpToRel(<,Nat) <=> y < x
  BY DEF OpToRel
<1>4. \A y \in T : x <= y
  <2> TAKE y \in T
  <2>1. x \in Int /\ y \in Int
    OBVIOUS
  <2>2. ~(y < x)
    BY <1>2, <1>3
  <2> QED
    BY <2>1, <2>2
<1> QED
  BY <1>4

\* p is a sequence of what the first i of q hold outside of gone, in their order.
Rest(p, q, gone) ==
    /\ p \in Seq(ToSet(q) \ gone) /\ Len(p) <= Len(q)
    /\ ToSet(p) = ToSet(q) \ gone /\ InOrderOf(p, q)

\* The first elements of a sequence, in its order, without repetition.
LEMMA PrefixOf ==
  ASSUME NEW S, NEW q \in Seq(S), Len(q) > 0
  PROVE  LET f == SubSeq(q, 1, Len(q) - 1)
         IN  /\ f \in Seq(S) /\ Len(f) = Len(q) - 1 /\ DOMAIN f = 1..Len(q) - 1
             /\ \A i \in 1..Len(q) - 1 : f[i] = q[i]
<1> DEFINE n == Len(q) - 1
           f == SubSeq(q, 1, n)
<1>1. n \in Nat /\ 1 \in Int /\ \A i \in 1..n : q[i] \in S
  OBVIOUS
<1>2. f \in Seq(S) /\ Len(f) = n
  <2>1. \A m \in Int : (\A i \in 1..m : q[i] \in S) =>
           SubSeq(q, 1, m) \in Seq(S) /\ Len(SubSeq(q, 1, m)) = IF 1 <= m THEN m - 1 + 1 ELSE 0
    BY SubSeqProperties
  <2>2. f \in Seq(S) /\ Len(f) = IF 1 <= n THEN n - 1 + 1 ELSE 0
    BY <1>1, <2>1
  <2>3. (IF 1 <= n THEN n - 1 + 1 ELSE 0) = n
    <3> HIDE DEF n
    <3> QED
      BY <1>1
  <2> QED
    BY <2>2, <2>3
<1>3. DOMAIN f = 1..n
  BY <1>2
<1>4. \A i \in 1..n : f[i] = q[i]
  BY <1>1
<1> QED
  BY <1>2, <1>3, <1>4

\* One element more of q, kept or left out.
LEMMA RestGrows ==
  ASSUME NEW S, NEW q \in Seq(S), Len(q) > 0, NEW gone,
         NEW p0, Rest(p0, SubSeq(q, 1, Len(q) - 1), gone)
  PROVE  \E p : Rest(p, q, gone)
<1> DEFINE n == Len(q)
           f == SubSeq(q, 1, n - 1)
           e == q[n]
<1>1. n \in Nat /\ n > 0 /\ DOMAIN q = 1..n
  OBVIOUS
<1>2. f \in Seq(S) /\ Len(f) = n - 1 /\ DOMAIN f = 1..n - 1 /\ \A i \in 1..n - 1 : f[i] = q[i]
  BY <1>1, PrefixOf
<1>3. ToSet(q) = ToSet(f) \cup {e}
  <2>1. \A i \in DOMAIN q : i = n \/ (i \in DOMAIN f /\ q[i] = f[i])
    BY <1>1, <1>2
  <2>2. \A i \in DOMAIN f : i \in DOMAIN q /\ f[i] = q[i]
    BY <1>1, <1>2
  <2>3. n \in DOMAIN q
    BY <1>1
  <2> QED
    BY <2>1, <2>2, <2>3 DEF ToSet
<1>4. p0 \in Seq(ToSet(f) \ gone) /\ Len(p0) <= n - 1 /\ ToSet(p0) = ToSet(f) \ gone
         /\ InOrderOf(p0, f)
  BY <1>2 DEF Rest
<1> HIDE DEF f, e
<1>5. CASE e \in gone
  <2>1. InOrderOf(p0, q)
    <3> SUFFICES ASSUME NEW i \in DOMAIN p0, NEW j \in DOMAIN p0, i < j
                 PROVE  \E k, l \in DOMAIN q : k < l /\ p0[i] = q[k] /\ p0[j] = q[l]
      BY DEF InOrderOf
    <3>1. PICK k, l \in DOMAIN f : k < l /\ p0[i] = f[k] /\ p0[j] = f[l]
      BY <1>4 DEF InOrderOf
    <3>2. k \in DOMAIN q /\ l \in DOMAIN q /\ f[k] = q[k] /\ f[l] = q[l]
      BY <1>1, <1>2
    <3> QED
      BY <3>1, <3>2
  <2>2. ToSet(q) \ gone = ToSet(f) \ gone
    BY <1>3, <1>5
  <2>3. Rest(p0, q, gone)
    BY <1>1, <1>4, <2>1, <2>2 DEF Rest
  <2> QED
    BY <2>3
<1>6. CASE e \notin gone
  <2> DEFINE p == Append(p0, e)
  <2>1. p0 \in Seq(ToSet(q) \ gone) /\ e \in ToSet(q) \ gone
    BY <1>3, <1>4, <1>6
  <2>2. /\ p \in Seq(ToSet(q) \ gone) /\ Len(p) = Len(p0) + 1 /\ DOMAIN p = 1..Len(p0) + 1
        /\ Len(p0) \in Nat /\ DOMAIN p0 = 1..Len(p0)
        /\ \A i \in 1..Len(p0) : p[i] = p0[i]
        /\ p[Len(p0) + 1] = e
    BY <2>1
  <2> HIDE DEF p
  <2>3. ToSet(p) = ToSet(p0) \cup {e}
    <3>1. \A i \in DOMAIN p : p[i] = e \/ (i \in DOMAIN p0 /\ p[i] = p0[i])
      BY <2>2
    <3>2. \A i \in DOMAIN p0 : i \in DOMAIN p /\ p[i] = p0[i]
      BY <2>2
    <3>3. Len(p0) + 1 \in DOMAIN p /\ p[Len(p0) + 1] = e
      BY <2>2
    <3> QED
      BY <3>1, <3>2, <3>3 DEF ToSet
  <2>4. \A i \in DOMAIN p0 : \E k \in DOMAIN f : p0[i] = f[k]
    BY <1>4 DEF ToSet
  <2>5. InOrderOf(p, q)
    <3> SUFFICES ASSUME NEW i \in DOMAIN p, NEW j \in DOMAIN p, i < j
                 PROVE  \E k, l \in DOMAIN q : k < l /\ p[i] = q[k] /\ p[j] = q[l]
      BY DEF InOrderOf
    <3>1. CASE j = Len(p0) + 1
      <4>1. PICK k \in DOMAIN f : p0[i] = f[k]
        BY <2>2, <2>4, <3>1
      <4>2. k \in DOMAIN q /\ k < n /\ n \in DOMAIN q /\ p[i] = q[k] /\ p[j] = q[n]
        BY <1>1, <1>2, <2>2, <3>1, <4>1 DEF e
      <4> QED
        BY <4>2
    <3>2. CASE j # Len(p0) + 1
      <4>1. i \in DOMAIN p0 /\ j \in DOMAIN p0 /\ p[i] = p0[i] /\ p[j] = p0[j]
        BY <2>2, <3>2
      <4>2. PICK k, l \in DOMAIN f : k < l /\ p0[i] = f[k] /\ p0[j] = f[l]
        BY <1>4, <4>1 DEF InOrderOf
      <4>3. k \in DOMAIN q /\ l \in DOMAIN q /\ f[k] = q[k] /\ f[l] = q[l]
        BY <1>1, <1>2
      <4> QED
        BY <4>1, <4>2, <4>3
    <3> QED
      BY <3>1, <3>2
  <2>6. Rest(p, q, gone)
    BY <1>1, <1>3, <1>4, <1>6, <2>2, <2>3, <2>5 DEF Rest
  <2> QED
    BY <2>6
<1> QED
  BY <1>5, <1>6

\* There is a sequence of what q holds outside of gone, in the order of q: by the smallest
\* prefix of q without one.
LEMMA RestExists == ASSUME NEW S, NEW q \in Seq(S), NEW gone PROVE \E p : Rest(p, q, gone)
<1> DEFINE T == {k \in Nat : \E s \in Seq(S) : Len(s) = k /\ \A p : ~Rest(p, s, gone)}
<1>1. SUFFICES ASSUME T # {} PROVE FALSE
  <2>1. Len(q) \in Nat
    OBVIOUS
  <2> QED
    BY <2>1
<1>2. PICK k \in T : \A y \in T : k <= y
  BY <1>1, SmallestOf
<1>3. PICK s \in Seq(S) : Len(s) = k /\ \A p : ~Rest(p, s, gone)
  BY <1>2
<1>4. CASE k = 0
  <2>1. s = <<>>
    BY <1>3, <1>4
  <2>2. DOMAIN s = {} /\ ToSet(s) = {} /\ Len(s) = 0
    BY <2>1 DEF ToSet
  <2>3. s \in Seq(ToSet(s) \ gone) /\ InOrderOf(s, s)
    BY <2>1, <2>2 DEF InOrderOf
  <2>4. Rest(s, s, gone)
    BY <2>2, <2>3 DEF Rest
  <2> QED
    BY <1>3, <2>4
<1>5. CASE k > 0
  <2> DEFINE f == SubSeq(s, 1, k - 1)
  <2>1. f \in Seq(S) /\ Len(f) = k - 1 /\ k \in Nat
    BY <1>2, <1>3, <1>5, PrefixOf
  <2>2. k - 1 \notin T /\ k - 1 \in Nat
    <3>1. k - 1 \in Nat /\ ~(k <= k - 1)
      BY <1>5, <2>1
    <3> HIDE DEF T
    <3> QED
      BY <1>2, <3>1
  <2>3. \E p0 : Rest(p0, f, gone)
    <3> HIDE DEF f
    <3> QED
      BY <2>1, <2>2
  <2>4. f = SubSeq(s, 1, Len(s) - 1) /\ Len(s) > 0
    BY <1>3, <1>5
  <2> HIDE DEF f
  <2>5. \E p : Rest(p, s, gone)
    BY <2>3, <2>4, RestGrows
  <2> QED
    BY <1>3, <2>5
<1> QED
  BY <1>2, <1>4, <1>5

\* Without leaves what it should.
LEMMA WithoutLeaves ==
  ASSUME NEW S, NEW q \in Seq(S), IsInjective(q), NEW gone
  PROVE  /\ Without(q, gone) \in Seq(S) /\ ToSet(Without(q, gone)) = ToSet(q) \ gone
         /\ IsInjective(Without(q, gone)) /\ InOrderOf(Without(q, gone), q)
<1> DEFINE left == ToSet(q) \ gone
           P(p) == ToSet(p) = left /\ InOrderOf(p, q)
<1>1. PICK p : Rest(p, q, gone)
  BY RestExists
<1>2. p \in SeqOf(left, Len(q)) /\ P(p)
  <2>1. Len(p) \in 0..Len(q) /\ p \in [1..Len(p) -> left]
    BY <1>1 DEF Rest
  <2>2. P(p)
    BY <1>1 DEF Rest
  <2> QED
    BY <2>1, <2>2 DEF SeqOf
<1>3. Without(q, gone) = CHOOSE x \in SeqOf(left, Len(q)) : P(x)
  BY DEF Without
<1>4. Without(q, gone) \in SeqOf(left, Len(q)) /\ P(Without(q, gone))
  <2> HIDE DEF P
  <2> QED
    BY <1>2, <1>3
<1> DEFINE w == Without(q, gone)
<1> HIDE DEF w
<1>5. PICK m \in 0..Len(q) : w \in [1..m -> left]
  BY <1>4 DEF SeqOf, w
<1>6. w \in Seq(left) /\ Len(w) = m /\ DOMAIN w = 1..m
  BY <1>5
<1>7. left \subseteq S
  BY DEF ToSet
<1>8. IsInjective(w)
  <2> SUFFICES ASSUME NEW i \in DOMAIN w, NEW j \in DOMAIN w, w[i] = w[j], i < j PROVE FALSE
    BY <1>6 DEF IsInjective
  <2>1. PICK k, l \in DOMAIN q : k < l /\ w[i] = q[k] /\ w[j] = q[l]
    BY <1>4 DEF InOrderOf, w
  <2>2. k = l
    BY <2>1 DEF IsInjective
  <2> QED
    BY <2>1, <2>2
<1> QED
  BY <1>4, <1>6, <1>7, <1>8, SeqMonotonic DEF w

-----------------------------------------------------------------------------
(* Steps that only remove, settle and end. *)

\* When replies go with what they reply to, and the rest keeps its place, the trees fit.
LEMMA TreesStand ==
  ASSUME NEW nodes, NEW nodes2, NEW R \in SUBSET Nodes, TreesFit(nodes),
         \A m \in Nodes : nodes[m].state # "absent" /\ nodes[m].parent \in R => m \in R,
         \A m \in R : nodes2[m] = Blank,
         \A m \in Nodes \ R :
            IF nodes[m].state = "absent" THEN nodes2[m] = nodes[m]
            ELSE /\ nodes2[m].root = nodes[m].root /\ nodes2[m].parent = nodes[m].parent
                 /\ nodes2[m].viaStatus <=> nodes[m].viaStatus
                 /\ nodes2[m].state # "absent"
                 /\ nodes2[m].state \in Runnable => nodes[m].state \in Runnable
                 /\ \/ nodes2[m].status <=> nodes[m].status
                    \/ /\ nodes2[m].state \notin Runnable
                       /\ \A k \in Nodes \ R : nodes[k].state # "absent" /\ nodes[k].parent = m
                             => ~nodes[k].viaStatus
  PROVE  TreesFit(nodes2)
<1> USE NodesAssumption
<1>1. \A n \in Nodes : nodes2[n].state # "absent" =>
         /\ n \notin R /\ nodes[n].state # "absent"
         /\ nodes2[n].root = nodes[n].root /\ nodes2[n].parent = nodes[n].parent
  BY DEF Blank, TreesFit, PromptFits
<1>2. \A n \in Nodes : nodes2[n].state # "absent" => nodes[n].root \notin R
  <2> DEFINE t == {m \in Nodes : nodes[m].state # "absent" /\ (nodes[m].root \in R => m \in R)}
  <2>1. \A m \in Nodes : nodes[m].state # "absent" /\ (nodes[m].parent \in t \/ nodes[m].root = m)
           => m \in t
    BY DEF TreesFit, PromptFits
  <2>2. t \in SUBSET Nodes
    OBVIOUS
  <2> HIDE DEF t
  <2>3. \A m \in Nodes : nodes[m].state # "absent" => m \in t
    BY <2>1, <2>2 DEF TreesFit, Hangs
  <2> QED
    BY <1>1, <2>3 DEF t
<1>3. ASSUME NEW n \in Nodes PROVE PromptFits(nodes2, n)
  <2>1. CASE nodes2[n].state = "absent"
    <3>1. n \in R \/ nodes[n].state = "absent"
      BY <2>1
    <3>2. nodes2[n] = Blank
      BY <3>1 DEF TreesFit, PromptFits
    <3> QED
      BY <2>1, <3>2 DEF PromptFits
  <2>2. CASE nodes2[n].state # "absent"
    <3> DEFINE r == nodes[n].root
               p == nodes[n].parent
    <3>1. n \notin R /\ nodes[n].state # "absent" /\ nodes2[n].root = r /\ nodes2[n].parent = p
             /\ r \notin R
      BY <1>1, <1>2, <2>2
    <3>2. /\ r \in Nodes /\ nodes[r].state # "absent" /\ nodes[r].root = r
          /\ p = NoNode <=> r = n
          /\ p # NoNode => p # n /\ p \in Nodes /\ nodes[p].state # "absent" /\ nodes[p].root = r
      BY <3>1 DEF TreesFit, PromptFits
    <3>3. p \notin R
      BY <3>1
    <3>4. nodes2[r].state # "absent" /\ nodes2[r].root = r
      BY <3>1, <3>2
    <3>5. p # NoNode => nodes2[p].state # "absent" /\ nodes2[p].root = r
      BY <3>2, <3>3
    <3>6. p # NoNode /\ nodes2[n].viaStatus => nodes2[p].status
      <4>1. SUFFICES ASSUME p # NoNode, nodes2[n].viaStatus PROVE nodes2[p].status
        OBVIOUS
      <4>2. nodes[n].viaStatus
        BY <3>1, <4>1
      <4>3. nodes[p].status
        BY <3>1, <4>1, <4>2 DEF TreesFit, PromptFits
      <4> QED
        BY <3>1, <3>2, <3>3, <4>1, <4>2, <4>3
    <3>7. nodes2[n].state \in Runnable => nodes2[n].status
      <4>1. SUFFICES ASSUME nodes2[n].state \in Runnable PROVE nodes2[n].status
        OBVIOUS
      <4>2. nodes[n].state \in Runnable
        BY <3>1, <4>1
      <4>3. nodes[n].status
        BY <3>1, <4>2 DEF TreesFit, PromptFits
      <4> QED
        BY <3>1, <4>1, <4>3
    <3> QED
      BY <2>2, <3>1, <3>2, <3>4, <3>5, <3>6, <3>7 DEF PromptFits
  <2> QED
    BY <2>1, <2>2
<1>4. Hangs(nodes2)
  <2> SUFFICES ASSUME NEW t \in SUBSET Nodes, NEW x \in Nodes, nodes2[x].state # "absent",
                      \A m \in Nodes : nodes2[m].state # "absent"
                         /\ (nodes2[m].parent \in t \/ nodes2[m].root = m) => m \in t
               PROVE  x \in t
    BY DEF Hangs
  <2> DEFINE u == t \cup R
  <2>1. \A m \in Nodes : nodes[m].state # "absent" /\ (nodes[m].parent \in u \/ nodes[m].root = m)
           => m \in u
    OBVIOUS
  <2>2. x \in u
    <3> HIDE DEF u
    <3>1. u \in SUBSET Nodes
      BY DEF u
    <3> QED
      BY <1>1, <2>1, <3>1 DEF TreesFit, Hangs
  <2> QED
    BY <1>1, <2>2
<1> QED
  BY <1>3, <1>4 DEF TreesFit

\* A step that only removes, settles and ends keeps the trees.
LEMMA ShrinkKeepsTrees == ASSUME TreesInv, NEW R, TreesShrink(R) PROVE TreesFit(node')
<1> USE NodesAssumption
<1>1. \A m \in Nodes : node[m].state # "absent" /\ node[m].parent \in R => m \in R
  BY DEF TreesShrink, HasReplies, Known
<1>2. R \in SUBSET Nodes /\ \A m \in R : node'[m] = Blank
  BY DEF TreesShrink
<1>3. \A m \in Nodes \ R : PromptShrinks(R, m)
  BY DEF TreesShrink
<1>4. TreesFit(node)
  BY DEF TreesInv
<1>5. ASSUME NEW m \in Nodes \ R
      PROVE  IF node[m].state = "absent" THEN node'[m] = node[m]
             ELSE /\ node'[m].root = node[m].root /\ node'[m].parent = node[m].parent
                  /\ node'[m].viaStatus <=> node[m].viaStatus
                  /\ node'[m].state # "absent"
                  /\ node'[m].state \in Runnable => node[m].state \in Runnable
                  /\ \/ node'[m].status <=> node[m].status
                     \/ /\ node'[m].state \notin Runnable
                        /\ \A k \in Nodes \ R : node[k].state # "absent" /\ node[k].parent = m
                              => ~node[k].viaStatus
  BY <1>3, <1>5 DEF PromptShrinks, Runnable, Known
<1> QED
  BY <1>1, <1>2, <1>4, <1>5, TreesStand

\* What is there afterwards was there before, as it is now.
LEMMA ShrinkLeaves ==
  ASSUME TreesInv, NEW R, TreesShrink(R), NEW n \in Nodes, node'[n].state # "absent"
  PROVE  /\ n \notin R /\ Known(n)
         /\ node'[n].root = node[n].root /\ node'[n].parent = node[n].parent
         /\ node'[n].state \in {node[n].state, "ERROR", "COMPLETED"}
         /\ node[n].root \in Nodes \ R
         /\ node[n].parent # NoNode =>
              /\ node[n].parent \in Nodes \ R /\ node'[node[n].parent].state # "absent"
              /\ node[n].parent # n /\ node[node[n].parent].root = node[n].root
<1>1. n \notin R
  BY DEF TreesShrink, Blank
<1>2. PromptShrinks(R, n)
  BY <1>1 DEF TreesShrink
<1>3. Known(n) /\ node'[n].root = node[n].root /\ node'[n].parent = node[n].parent
      /\ node'[n].state \in {node[n].state, "ERROR", "COMPLETED"}
  BY <1>2 DEF PromptShrinks, Known
<1>4. PromptFits(node', n) /\ PromptFits(node, n)
  BY ShrinkKeepsTrees DEF TreesFit, TreesInv
<1>5. node'[n].root \in Nodes /\ node'[node'[n].root].state # "absent"
  BY <1>4 DEF PromptFits
<1>6. \A m \in R : node'[m].state = "absent"
  BY DEF TreesShrink, Blank
<1>7. node'[n].parent # NoNode => node'[n].parent \in Nodes /\ node'[node'[n].parent].state # "absent"
  BY <1>4 DEF PromptFits
<1>8. node[n].parent # NoNode => node[n].parent # n /\ node[node[n].parent].root = node[n].root
  BY <1>3, <1>4 DEF PromptFits, Known
<1> QED
  BY <1>1, <1>3, <1>5, <1>6, <1>7, <1>8

\* The queues hold the pending prompts that are left, parents first.
LEMMA ShrinkKeepsQueues ==
  ASSUME TreesInv, NEW R, TreesShrink(R)
  PROVE QueueIsPending' /\ ParentsFirst' /\ ParentSettledFirst'
<1>1. ASSUME NEW r \in Nodes
      PROVE ToSet(queue'[r]) = {n \in Nodes : node'[n].state = "PENDING" /\ node'[n].root = r}
  <2>1. ToSet(queue[r]) = {n \in Nodes : node[n].state = "PENDING" /\ node[n].root = r}
    BY DEF TreesInv, QueueIsPending, Members, Known
  <2>2. ToSet(queue'[r]) = {n \in ToSet(queue[r]) : node'[n].state = "PENDING"}
    BY DEF TreesShrink, QueueShrinks
  <2>3. \A n \in Nodes : node'[n].state = "PENDING" => node[n].state = "PENDING"
           /\ node'[n].root = node[n].root
    BY ShrinkLeaves
  <2> QED
    BY <2>1, <2>2, <2>3
<1>2. QueueIsPending'
  <2>1. \A r \in Nodes : IsInjective(queue'[r])
    BY DEF TreesShrink, QueueShrinks
  <2> QED
    BY <1>1, <2>1 DEF QueueIsPending, Members, Known
<1>3. ParentsFirst'
  <2> SUFFICES ASSUME NEW r \in Nodes, NEW i \in DOMAIN queue'[r], NEW j \in DOMAIN queue'[r], i < j,
                      node'[queue'[r][i]].parent = queue'[r][j]
               PROVE  FALSE
    BY DEF ParentsFirst
  <2>1. queue'[r][i] \in ToSet(queue'[r])
    BY DEF ToSet
  <2>2. queue'[r][i] \in Nodes /\ node'[queue'[r][i]].state # "absent"
    BY <1>1, <2>1
  <2>3. node'[queue'[r][i]].parent = node[queue'[r][i]].parent
    BY <2>2, ShrinkLeaves
  <2>4. PICK k, l \in DOMAIN queue[r] : k < l /\ queue'[r][i] = queue[r][k]
                /\ queue'[r][j] = queue[r][l]
    BY DEF TreesShrink, QueueShrinks, InOrderOf
  <2> QED
    BY <2>3, <2>4 DEF TreesInv, ParentsFirst
<1>4. ParentSettledFirst'
  <2> SUFFICES ASSUME NEW n \in Nodes, node'[n].state = "IN_PROGRESS", node'[n].parent # NoNode
               PROVE  node'[node'[n].parent].state \in {"COMPLETED", "ERROR"}
    BY DEF ParentSettledFirst
  <2>1. /\ node'[n].parent = node[n].parent /\ node[n].state = "IN_PROGRESS"
        /\ node[n].parent \in Nodes /\ node'[node[n].parent].state # "absent"
    BY ShrinkLeaves
  <2>2. node[node[n].parent].state \in {"COMPLETED", "ERROR"}
    BY <2>1 DEF TreesInv, ParentSettledFirst
  <2>3. node'[node[n].parent].state \in {node[node[n].parent].state, "ERROR", "COMPLETED"}
    BY <2>1, ShrinkLeaves
  <2> QED
    BY <2>1, <2>2, <2>3
<1> QED
  BY <1>2, <1>3, <1>4

\* The work that is left is that of the active claims.
LEMMA ShrinkKeepsRunners ==
  ASSUME TreesInv, NEW R, TreesShrink(R) PROVE ActiveHasTask' /\ OneRunnerPerTree' /\ ClaimsFit'
<1> USE NodesAssumption
<1>1. \A c \in Claims : ClaimShrinks(R, c)
  BY DEF TreesShrink
<1>2. \A r \in Nodes : active'[r] = IF r \in R THEN 0 ELSE active[r]
  BY DEF TreesShrink
<1>3. ASSUME NEW c \in Claims, Working(c)'
      PROVE  /\ Working(c) /\ active[tasks[c].root] = c /\ tasks[c].node \in Nodes
                /\ Known(tasks[c].node)
             /\ node'[tasks[c].node].state # "absent" /\ node[tasks[c].node].root = tasks[c].root
             /\ tasks[c].root \in Nodes \ R
  <2>1. Working(c) /\ tasks[c].node \notin R
    BY <1>1, <1>3 DEF ClaimShrinks
  <2>2. active[tasks[c].root] = c /\ tasks[c].node \in Nodes /\ Known(tasks[c].node)
           /\ node[tasks[c].node].root = tasks[c].root
    BY <2>1 DEF TreesInv, OneRunnerPerTree, ClaimsFit
  <2>3. node'[tasks[c].node].state # "absent"
    BY <2>1, <2>2 DEF TreesShrink, PromptShrinks, Known
  <2> QED
    BY <2>1, <2>2, <2>3, ShrinkLeaves
<1>4. ClaimsFit'
  <2> SUFFICES ASSUME NEW c \in Claims, Working(c)'
               PROVE  /\ tasks'[c].node \in Nodes /\ node'[tasks'[c].node].state # "absent"
                      /\ node'[tasks'[c].node].root = tasks'[c].root
    <3>1. ASSUME NEW c \in Claims, ~Over(c)' PROVE tasks'[c].root \in Nodes
      BY <1>1, <3>1 DEF ClaimShrinks, TreesInv, ClaimsFit
    <3> QED
      BY <3>1 DEF ClaimsFit, Known
  <2>1. tasks'[c].node = tasks[c].node /\ tasks'[c].root = tasks[c].root
    BY <1>1 DEF ClaimShrinks
  <2> QED
    BY <1>3, <2>1, ShrinkLeaves
<1>5. OneRunnerPerTree'
  <2>1. ASSUME NEW c \in Claims, Working(c)' PROVE active'[tasks'[c].root] = c
    <3>1. tasks'[c].root = tasks[c].root
      BY <1>1 DEF ClaimShrinks
    <3> QED
      BY <1>2, <1>3, <2>1, <3>1
  <2>2. ASSUME NEW n \in Nodes, node'[n].state = "IN_PROGRESS"
        PROVE  \E c \in Claims : /\ tasks'[c].node = n /\ tasks'[c].root = node'[n].root
                                 /\ Working(c)' /\ tasks'[c].place # "finishing"
    <3>1. node[n].state = "IN_PROGRESS" /\ node'[n].root = node[n].root
      BY <2>2, ShrinkLeaves
    <3>2. PICK c \in Claims : /\ tasks[c].node = n /\ tasks[c].root = node[n].root
                              /\ Working(c) /\ tasks[c].place # "finishing"
      BY <3>1 DEF TreesInv, OneRunnerPerTree
    <3>3. Working(c)' /\ tasks'[c].place # "finishing" /\ tasks'[c].node = tasks[c].node
             /\ tasks'[c].root = tasks[c].root
      BY <1>1, <2>2, <3>2 DEF ClaimShrinks
    <3> QED
      BY <3>1, <3>2, <3>3
  <2> QED
    BY <2>1, <2>2 DEF OneRunnerPerTree
<1>6. ActiveHasTask'
  <2>1. ASSUME NEW r \in Nodes, active'[r] # 0
        PROVE  r \in Published' /\ tasks'[active'[r]].root = r
              /\ tasks'[active'[r]].place \notin {"unclaimed", "gone"}
    <3>1. r \notin R /\ active'[r] = active[r] /\ active[r] # 0
      BY <1>2, <2>1
    <3>2. r \in Published /\ tasks[active[r]].root = r /\ ~Over(active[r]) /\ active[r] \in Claims
      BY <3>1 DEF TreesInv, ActiveHasTask, TreesTyped
    <3>3. tasks'[active[r]].root = tasks[active[r]].root
             /\ tasks'[active[r]].place \notin {"unclaimed", "gone"}
      <4>1. PICK c \in Claims : c = active[r]
        BY <3>2
      <4>2. ClaimShrinks(R, c)
        BY <1>1
      <4> QED
        BY <3>2, <4>1, <4>2 DEF ClaimShrinks, Over
    <3>4. node'[r].state # "absent" /\ node'[r].root = r
      BY <3>1, <3>2 DEF TreesShrink, PromptShrinks, Published, Known
    <3>5. r \in Published'
      BY <3>4 DEF Published, Known
    <3> QED
      BY <3>1, <3>2, <3>3, <3>5
  <2>2. ASSUME NEW r \in Nodes, active'[r] = 0,
        NEW n \in Nodes, node'[n].state # "absent", node'[n].root = r
        PROVE  node'[n].state \notin Runnable
    <3>1. r \notin R /\ active[r] = 0 /\ Known(n) /\ node[n].root = r
             /\ node'[n].state \in {node[n].state, "ERROR", "COMPLETED"}
      BY <1>2, <2>2, ShrinkLeaves
    <3>2. node[n].state \notin Runnable
      BY <3>1 DEF TreesInv, ActiveHasTask, Members
    <3> QED
      BY <3>1, <3>2 DEF Runnable
  <2> QED
    BY <2>1, <2>2 DEF ActiveHasTask, Members, Known, Over
<1> QED
  BY <1>4, <1>5, <1>6

\* A claim that works resumes what its prompt replies to.
LEMMA ShrinkKeepsResume == ASSUME TreesInv, NEW R, TreesShrink(R) PROVE ResumeMatchesParent'
<1> USE NodesAssumption
<1> SUFFICES ASSUME NEW c \in Claims, NEW n, n = tasks'[c].node, NEW p, p = node'[n].parent,
                    Working(c)', p # NoNode, node'[p].status
             PROVE  tasks'[c].resume <=> node'[p].session
  BY DEF ResumeMatchesParent
<1>1. ClaimShrinks(R, c)
  BY DEF TreesShrink
<1>2. n = tasks[c].node /\ (tasks'[c].resume <=> tasks[c].resume) /\ Working(c) /\ n \notin R
  BY <1>1 DEF ClaimShrinks
<1>3. n \in Nodes /\ Known(n) /\ node[n].root = tasks[c].root /\ active[tasks[c].root] = c
  BY <1>2 DEF TreesInv, ClaimsFit, OneRunnerPerTree
<1>4. node'[n].state # "absent"
  BY <1>2, <1>3 DEF TreesShrink, PromptShrinks, Known
<1>5. p = node[n].parent /\ p \in Nodes \ R /\ node'[p].state # "absent" /\ p # n
         /\ node[p].root = node[n].root
  BY <1>4, <1>3, ShrinkLeaves
<1>6. PromptShrinks(R, p) /\ Known(p)
  BY <1>5, ShrinkLeaves DEF TreesShrink
<1>7. node[p].status /\ ((node'[p].session <=> node[p].session) \/ node[p].state = "IN_PROGRESS")
  BY <1>6 DEF PromptShrinks, Known
<1>8. node[p].state # "IN_PROGRESS"
  <2> SUFFICES ASSUME node[p].state = "IN_PROGRESS" PROVE FALSE
    OBVIOUS
  <2>1. PICK d \in Claims : tasks[d].node = p /\ tasks[d].root = node[p].root /\ Working(d)
    BY <1>5 DEF TreesInv, OneRunnerPerTree
  <2>2. active[tasks[d].root] = d
    BY <2>1 DEF TreesInv, OneRunnerPerTree
  <2> QED
    BY <1>2, <1>3, <1>5, <2>1, <2>2
<1>9. tasks[c].resume <=> node[p].session
  BY <1>2, <1>5, <1>7 DEF TreesInv, ResumeMatchesParent
<1> QED
  BY <1>2, <1>7, <1>8, <1>9

\* A step that only removes prompts, settles others and ends work keeps the invariant of
\* the trees.
LEMMA ShrinkKeeps == ASSUME TreesInv, NEW R, TreesShrink(R) PROVE TreesInv'
<1>1. TreesTyped'
  BY DEF TreesShrink
<1> QED
  BY <1>1, ShrinkKeepsTrees, ShrinkKeepsQueues, ShrinkKeepsRunners, ShrinkKeepsResume DEF TreesInv

-----------------------------------------------------------------------------
(* What the actions do to prompts, tasks and queues. *)

\* The prompts of s get the state x.
WithState(s, x) == [m \in Nodes |-> IF m \in s THEN [node[m] EXCEPT !.state = x] ELSE node[m]]
\* The task of c goes to x.
Placed(c, x) == [tasks EXCEPT ![c].place = x]

\* The prompts of s get the state x; nothing else of them changes.
LEMMA StatesChange ==
  ASSUME TreesTyped, NEW s, NEW x \in {"absent", "PENDING", "IN_PROGRESS", "COMPLETED", "ERROR"},
         node' = WithState(s, x)
  PROVE  /\ node' \in [Nodes -> NodeRecord]
         /\ \A m \in Nodes : /\ m \notin s => node'[m] = node[m]
                             /\ node'[m].state = IF m \in s THEN x ELSE node[m].state
                             /\ node'[m].root = node[m].root /\ node'[m].parent = node[m].parent
                             /\ node'[m].viaStatus = node[m].viaStatus
                             /\ node'[m].status = node[m].status
                             /\ node'[m].session = node[m].session
<1>1. node \in [Nodes -> NodeRecord]
  BY DEF TreesTyped
<1>2. node' \in [Nodes -> NodeRecord]
  BY <1>1 DEF NodeRecord, WithState
<1>3. ASSUME NEW m \in Nodes
      PROVE  /\ m \notin s => node'[m] = node[m]
             /\ node'[m].state = IF m \in s THEN x ELSE node[m].state
             /\ node'[m].root = node[m].root /\ node'[m].parent = node[m].parent
  BY <1>1 DEF NodeRecord, WithState
<1>4. ASSUME NEW m \in Nodes
      PROVE  /\ node'[m].viaStatus = node[m].viaStatus
             /\ node'[m].status = node[m].status
             /\ node'[m].session = node[m].session
  BY <1>1 DEF NodeRecord, WithState
<1> QED
  BY <1>2, <1>3, <1>4

\* The task of c goes to the place x.
LEMMA PlaceChanges ==
  ASSUME TreesTyped, NEW c \in Claims, NEW x \in Places, tasks' = Placed(c, x)
  PROVE  /\ tasks' \in [Claims -> TaskRecord]
         /\ \A d \in Claims : /\ tasks'[d].place = IF d = c THEN x ELSE tasks[d].place
                              /\ tasks'[d].node = tasks[d].node /\ tasks'[d].root = tasks[d].root
                              /\ tasks'[d].resume = tasks[d].resume
                              /\ tasks'[d].cancelled = tasks[d].cancelled
<1>1. tasks \in [Claims -> TaskRecord]
  BY DEF TreesTyped
<1>2. tasks' \in [Claims -> TaskRecord]
  BY <1>1 DEF TaskRecord, Placed
<1>3. ASSUME NEW d \in Claims
      PROVE  /\ tasks'[d].place = IF d = c THEN x ELSE tasks[d].place
             /\ tasks'[d].node = tasks[d].node /\ tasks'[d].root = tasks[d].root
  BY <1>1 DEF TaskRecord, Placed
<1>4. ASSUME NEW d \in Claims
      PROVE  /\ tasks'[d].resume = tasks[d].resume
             /\ tasks'[d].cancelled = tasks[d].cancelled
  BY <1>1 DEF TaskRecord, Placed
<1> QED
  BY <1>2, <1>3, <1>4

\* What processor.cancel does to the tasks of the claims cs.
LEMMA CancelChanges ==
  ASSUME TreesTyped, NEW cs, tasks' = CancelTasks(cs)
  PROVE  /\ tasks' \in [Claims -> TaskRecord]
         /\ \A d \in Claims :
              /\ tasks'[d].place = IF d \in cs /\ tasks[d].place \in {"fresh", "successor"}
                                   THEN "finishing" ELSE tasks[d].place
              /\ tasks'[d].node = tasks[d].node /\ tasks'[d].root = tasks[d].root
              /\ tasks'[d].resume = tasks[d].resume
              /\ d \in cs => tasks'[d].cancelled
              /\ d \notin cs => tasks'[d] = tasks[d]
<1>1. tasks \in [Claims -> TaskRecord] /\ "finishing" \in Places
  BY DEF TreesTyped, Places
<1>2. tasks' \in [Claims -> TaskRecord]
  BY <1>1 DEF TaskRecord, CancelTasks
<1>3. ASSUME NEW d \in Claims
      PROVE  /\ tasks'[d].place = IF d \in cs /\ tasks[d].place \in {"fresh", "successor"}
                                   THEN "finishing" ELSE tasks[d].place
             /\ tasks'[d].node = tasks[d].node /\ tasks'[d].root = tasks[d].root
             /\ d \notin cs => tasks'[d] = tasks[d]
  BY <1>1 DEF TaskRecord, CancelTasks
<1>4. ASSUME NEW d \in Claims
      PROVE  tasks'[d].resume = tasks[d].resume
  BY <1>1 DEF TaskRecord, CancelTasks
<1>5. ASSUME NEW d \in Claims
      PROVE  d \in cs => tasks'[d].cancelled
  BY <1>1 DEF TaskRecord, CancelTasks
<1> QED
  BY <1>2, <1>3, <1>4, <1>5

\* A task that goes on, or ends its run.
LEMMA ClaimMoves ==
  ASSUME TreesInv, NEW c \in Claims, NEW x \in Places \ {"unclaimed", "gone"}, ~Over(c),
         tasks' = Placed(c, x),
         x = "finishing" /\ Working(c) => node'[tasks[c].node].state # "IN_PROGRESS"
  PROVE  tasks' \in [Claims -> TaskRecord] /\ \A d \in Claims : ClaimShrinks({}, d)
<1>1. TreesTyped
  BY DEF TreesInv
<1> USE <1>1, PlaceChanges DEF Over, Working
<1>2. ASSUME NEW d \in Claims PROVE ClaimShrinks({}, d)
  BY DEF ClaimShrinks
<1> QED
  BY <1>2

\* A cancellation of claims whose prompts do not run any more.
LEMMA ClaimsEnd ==
  ASSUME TreesInv, NEW cs, NEW R, tasks' = CancelTasks(cs),
         \A d \in Claims : Working(d) /\ d \in cs /\ tasks[d].node \in Nodes
            => node'[tasks[d].node].state # "IN_PROGRESS",
         \A d \in Claims : Working(d) /\ d \notin cs => tasks[d].node \notin R
  PROVE  tasks' \in [Claims -> TaskRecord] /\ \A d \in Claims : ClaimShrinks(R, d)
<1>1. TreesTyped
  BY DEF TreesInv
<1>2. /\ tasks' \in [Claims -> TaskRecord]
      /\ \A d \in Claims :
              /\ tasks'[d].place = IF d \in cs /\ tasks[d].place \in {"fresh", "successor"}
                                   THEN "finishing" ELSE tasks[d].place
              /\ tasks'[d].node = tasks[d].node /\ tasks'[d].root = tasks[d].root
              /\ tasks'[d].resume = tasks[d].resume
              /\ d \in cs => tasks'[d].cancelled
              /\ d \notin cs => tasks'[d] = tasks[d]
  BY <1>1, CancelChanges
<1>3. ASSUME NEW d \in Claims PROVE ClaimShrinks(R, d)
  <2>1. CASE d \in cs
    BY <1>2, <2>1 DEF ClaimShrinks, Over, Working
  <2>2. CASE d \notin cs
    <3>1. tasks'[d] = tasks[d]
      BY <1>2, <2>2
    <3>2. Over(d)' = Over(d) /\ Working(d)' = Working(d)
      BY <3>1 DEF Over, Working
    <3> QED
      BY <2>2, <3>1, <3>2 DEF ClaimShrinks
  <2> QED
    BY <2>1, <2>2
<1> QED
  BY <1>2, <1>3

\* The prompts of gone leave the queue of r and the others keep their order.
LEMMA DequeueLeaves ==
  ASSUME TreesInv, NEW r \in Nodes, NEW gone, queue' = Dequeue(r, gone)
  PROVE  /\ queue' \in [Nodes -> Seq(Nodes)]
         /\ \A q \in Nodes : /\ IsInjective(queue'[q]) /\ InOrderOf(queue'[q], queue[q])
                             /\ ToSet(queue'[q]) = IF q = r THEN ToSet(queue[q]) \ gone
                                   ELSE ToSet(queue[q])
<1>1. queue \in [Nodes -> Seq(Nodes)] /\ \A q \in Nodes : IsInjective(queue[q])
  BY DEF TreesInv, TreesTyped, QueueIsPending
<1> DEFINE w == Without(queue[r], gone)
<1>2. w \in Seq(Nodes) /\ ToSet(w) = ToSet(queue[r]) \ gone /\ IsInjective(w)
         /\ InOrderOf(w, queue[r])
  <2>1. queue[r] \in Seq(Nodes) /\ IsInjective(queue[r])
    BY <1>1
  <2> QED
    BY <2>1, WithoutLeaves
<1>3. queue' = [queue EXCEPT ![r] = w]
  BY DEF Dequeue
<1> HIDE DEF w
<1>4. \A q \in Nodes : InOrderOf(queue[q], queue[q])
  BY DEF InOrderOf
<1> QED
  BY <1>1, <1>2, <1>3, <1>4

\* The prompts that leave the queue are those that stop pending.
LEMMA QueuesShrink ==
  ASSUME TreesInv, NEW r \in Nodes, NEW gone, queue' = Dequeue(r, gone),
         \A n \in Nodes : node[n].state = "PENDING" =>
            /\ node'[n].state = "PENDING" <=> n \notin gone
            /\ n \in gone => node[n].root = r
  PROVE  queue' \in [Nodes -> Seq(Nodes)] /\ \A q \in Nodes : QueueShrinks(q)
<1>1. \A q \in Nodes : ToSet(queue[q]) = {n \in Nodes : node[n].state = "PENDING" /\ node[n].root = q}
  BY DEF TreesInv, QueueIsPending, Members, Known
<1>2. ASSUME NEW q \in Nodes PROVE QueueShrinks(q)
  <2>1. /\ IsInjective(queue'[q]) /\ InOrderOf(queue'[q], queue[q])
        /\ ToSet(queue'[q]) = IF q = r THEN ToSet(queue[q]) \ gone ELSE ToSet(queue[q])
    BY DequeueLeaves
  <2>2. ToSet(queue'[q]) = {n \in ToSet(queue[q]) : node'[n].state = "PENDING"}
    BY <1>1, <2>1
  <2> QED
    BY <2>1, <2>2 DEF QueueShrinks
<1> QED
  BY <1>2, DequeueLeaves

\* No prompt stops pending.
LEMMA QueuesStay ==
  ASSUME TreesInv, queue' = queue,
         \A n \in Nodes : node[n].state = "PENDING" => node'[n].state = "PENDING"
  PROVE  queue' \in [Nodes -> Seq(Nodes)] /\ \A q \in Nodes : QueueShrinks(q)
<1>1. queue \in [Nodes -> Seq(Nodes)]
  BY DEF TreesInv, TreesTyped
<1>2. ASSUME NEW q \in Nodes PROVE QueueShrinks(q)
  <2>1. IsInjective(queue[q])
           /\ ToSet(queue[q]) = {n \in Nodes : node[n].state = "PENDING" /\ node[n].root = q}
    BY DEF TreesInv, QueueIsPending, Members, Known
  <2>2. InOrderOf(queue[q], queue[q])
    BY DEF InOrderOf
  <2>3. ToSet(queue[q]) = {n \in ToSet(queue[q]) : node'[n].state = "PENDING"}
    BY <2>1
  <2> QED
    BY <2>1, <2>2, <2>3 DEF QueueShrinks
<1> QED
  BY <1>1, <1>2

\* Prompts settle, queues and claims shrink, no tree goes.
LEMMA ShrinkOfStates ==
  ASSUME TreesInv, active' = active, node' \in [Nodes -> NodeRecord],
         \A m \in Nodes : PromptShrinks({}, m),
         queue' \in [Nodes -> Seq(Nodes)] /\ \A q \in Nodes : QueueShrinks(q),
         tasks' \in [Claims -> TaskRecord] /\ \A d \in Claims : ClaimShrinks({}, d)
  PROVE  TreesInv'
<1>1. HasReplies({})
  BY DEF HasReplies
<1>2. TreesTyped'
  BY DEF TreesInv, TreesTyped
<1>3. TreesShrink({})
  BY <1>1, <1>2 DEF TreesShrink
<1> QED
  BY <1>3, ShrinkKeeps

\* The prompts of s end in x and nothing else of them changes.
LEMMA PromptsSettle ==
  ASSUME TreesInv, NEW s, NEW x \in {"ERROR", "COMPLETED"}, \A m \in s \cap Nodes : Known(m),
         node' = WithState(s, x)
  PROVE  node' \in [Nodes -> NodeRecord] /\ \A m \in Nodes : PromptShrinks({}, m)
<1>1. TreesTyped
  BY DEF TreesInv
<1>2. /\ node' \in [Nodes -> NodeRecord]
      /\ \A m \in Nodes : /\ m \notin s => node'[m] = node[m]
                          /\ node'[m].state = IF m \in s THEN x ELSE node[m].state
                          /\ node'[m].root = node[m].root /\ node'[m].parent = node[m].parent
                          /\ node'[m].viaStatus = node[m].viaStatus
                          /\ node'[m].status = node[m].status
                          /\ node'[m].session = node[m].session
  BY <1>1, StatesChange
<1>3. ASSUME NEW m \in Nodes PROVE PromptShrinks({}, m)
  BY <1>2 DEF PromptShrinks, Known
<1> QED
  BY <1>2, <1>3

\* The prompts stay as they are.
LEMMA PromptsStay ==
  ASSUME TreesInv, node' = node
  PROVE  node' \in [Nodes -> NodeRecord] /\ \A m \in Nodes : PromptShrinks({}, m)
<1>1. ASSUME NEW m \in Nodes PROVE PromptShrinks({}, m)
  BY DEF PromptShrinks
<1> QED
  BY <1>1 DEF TreesInv, TreesTyped

\* The tasks stay as they are.
LEMMA ClaimsStay ==
  ASSUME TreesInv, tasks' = tasks
  PROVE  tasks' \in [Claims -> TaskRecord] /\ \A d \in Claims : ClaimShrinks({}, d)
<1>1. ASSUME NEW d \in Claims PROVE ClaimShrinks({}, d)
  <2>1. Over(d)' = Over(d) /\ Working(d)' = Working(d)
    BY DEF Over, Working
  <2> QED
    BY <2>1 DEF ClaimShrinks
<1> QED
  BY <1>1 DEF TreesInv, TreesTyped

\* A task enters, announces its start or unwinds.
LEMMA TaskGoesOn ==
  ASSUME TreesInv, NEW c \in Claims, Enter(c) \/ Announced(c) \/ Unwind(c)
  PROVE  TreesInv'
<1>1. node' = node /\ queue' = queue /\ active' = active
  BY DEF Enter, Announced, Unwind
<1>2. PICK x \in Places \ {"unclaimed", "gone"} :
         /\ tasks' = Placed(c, x) /\ ~Over(c)
         /\ x = "finishing" => tasks[c].cancelled
  <2>1. CASE Enter(c)
    <3>1. tasks' = Placed(c, IF tasks[c].place = "fresh" THEN "running" ELSE "announcing")
      BY <2>1 DEF Enter, TreesInv, TreesTyped, TaskRecord, Placed
    <3>2. ~Over(c)
      BY <2>1 DEF Enter, Over
    <3> QED
      BY <3>1, <3>2 DEF Places
  <2>2. CASE Announced(c)
    <3>1. tasks' = Placed(c, IF tasks[c].cancelled THEN "finishing" ELSE "running") /\ ~Over(c)
      BY <2>2 DEF Announced, Over, Placed
    <3>2. CASE tasks[c].cancelled
      BY <3>1, <3>2 DEF Places
    <3>3. CASE ~tasks[c].cancelled
      BY <3>1, <3>3 DEF Places
    <3> QED
      BY <3>2, <3>3
  <2>3. CASE Unwind(c)
    BY <2>3 DEF Unwind, Over, Places, Placed
  <2> QED
    BY <2>1, <2>2, <2>3
<1>3. tasks' \in [Claims -> TaskRecord] /\ \A d \in Claims : ClaimShrinks({}, d)
  <2>1. x = "finishing" /\ Working(c) => node'[tasks[c].node].state # "IN_PROGRESS"
    BY <1>2 DEF Working
  <2> QED
    BY <1>2, <2>1, ClaimMoves
<1> QED
  BY <1>1, <1>3, PromptsStay, QueuesStay, ShrinkOfStates

\* A prompt that runs gets its session.
LEMMA SessionRecorded == ASSUME TreesInv, NEW c \in Claims, RecordSession(c) PROVE TreesInv'
<1> DEFINE n == tasks[c].node
<1>1. /\ node[n].state = "IN_PROGRESS" /\ node' = [node EXCEPT ![n].session = TRUE]
      /\ queue' = queue /\ active' = active /\ tasks' = tasks /\ Working(c)
  BY DEF RecordSession, Honoured, Working
<1>2. node \in [Nodes -> NodeRecord] /\ n \in Nodes
  BY <1>1 DEF TreesInv, TreesTyped, ClaimsFit
<1> HIDE DEF n
<1>3. node' \in [Nodes -> NodeRecord]
  BY <1>1, <1>2 DEF NodeRecord
<1>4. ASSUME NEW m \in Nodes
      PROVE  /\ node'[m].state = node[m].state /\ node'[m].root = node[m].root
                /\ node'[m].parent = node[m].parent
             /\ m # n => node'[m] = node[m]
  BY <1>1, <1>2 DEF NodeRecord
<1>5. ASSUME NEW m \in Nodes
      PROVE  node'[m].status = node[m].status /\ node'[m].viaStatus = node[m].viaStatus
  BY <1>1, <1>2 DEF NodeRecord
<1>6. ASSUME NEW m \in Nodes PROVE PromptShrinks({}, m)
  BY <1>1, <1>2, <1>4, <1>5 DEF PromptShrinks
<1> QED
  BY <1>1, <1>3, <1>4, <1>6, ClaimsStay, QueuesStay, ShrinkOfStates

\* A run that is still honoured completes its prompt; any other just ends.
LEMMA RunCompletes == ASSUME TreesInv, NEW c \in Claims, Complete(c) PROVE TreesInv'
<1> DEFINE n == tasks[c].node
<1>1. /\ tasks[c].place = "running" /\ tasks' = Placed(c, "finishing")
      /\ queue' = queue /\ active' = active /\ ~Over(c) /\ "finishing" \in Places
  BY DEF Complete, Over, Places, Placed
<1>2. Working(c) => Honoured(c) /\ n \in Nodes /\ Known(n)
  BY DEF TreesInv, OneRunnerPerTree, ClaimsFit, Honoured, Working
<1>3. CASE Honoured(c) /\ node[n].state \in {"IN_PROGRESS", "ERROR"}
  <2>1. node' = [node EXCEPT ![n].state = "COMPLETED"] /\ n \in Nodes /\ Known(n)
    BY <1>2, <1>3 DEF Complete, Honoured, Working
  <2>2. node' = WithState({n}, "COMPLETED")
    BY <2>1 DEF TreesInv, TreesTyped, WithState
  <2>3. node' \in [Nodes -> NodeRecord] /\ \A m \in Nodes : PromptShrinks({}, m)
    <3>1. \A m \in {n} \cap Nodes : Known(m)
      BY <2>1
    <3> HIDE DEF n
    <3> QED
      BY <2>2, <3>1, PromptsSettle
  <2>4. \A m \in Nodes : node'[m].state = IF m = n THEN "COMPLETED" ELSE node[m].state
    <3> HIDE DEF n
    <3>1. \A m \in Nodes : node'[m].state = IF m \in {n} THEN "COMPLETED" ELSE node[m].state
      BY <2>2, StatesChange DEF TreesInv
    <3> QED
      BY <3>1
  <2>5. tasks' \in [Claims -> TaskRecord] /\ \A d \in Claims : ClaimShrinks({}, d)
    BY <1>1, <2>1, <2>4, ClaimMoves
  <2>6. queue' \in [Nodes -> Seq(Nodes)] /\ \A q \in Nodes : QueueShrinks(q)
    BY <1>1, <1>3, <2>1, <2>4, QueuesStay
  <2> QED
    BY <1>1, <2>3, <2>5, <2>6, ShrinkOfStates
<1>4. CASE ~(Honoured(c) /\ node[n].state \in {"IN_PROGRESS", "ERROR"})
  <2>1. node' = node
    BY <1>4 DEF Complete
  <2>2. Working(c) => node'[n].state # "IN_PROGRESS"
    BY <1>2, <1>4, <2>1
  <2>3. tasks' \in [Claims -> TaskRecord] /\ \A d \in Claims : ClaimShrinks({}, d)
    BY <1>1, <2>2, ClaimMoves
  <2> QED
    BY <1>1, <2>1, <2>3, PromptsStay, QueuesStay, ShrinkOfStates
<1> QED
  BY <1>3, <1>4

\* A subtree is of one tree, and no reply to it is outside of it.
LEMMA SubtreeFits ==
  ASSUME TreesInv, NEW n \in Nodes, Known(n)
  PROVE  /\ Subtree(n) \subseteq Members(node[n].root) /\ HasReplies(Subtree(n)) /\ n \in Subtree(n)
<1> USE NodesAssumption
<1>1. HasReplies(Members(node[n].root))
  BY DEF HasReplies, Members, Known, TreesInv, TreesFit, PromptFits
<1>2. Subtree(n) \subseteq Members(node[n].root)
  <2>1. Members(node[n].root) \in SUBSET Nodes /\ n \in Members(node[n].root)
    BY DEF Members
  <2> QED
    BY <1>1, <2>1 DEF Subtree
<1>3. HasReplies(Subtree(n))
  <2> SUFFICES ASSUME NEW m \in Nodes, Known(m), node[m].parent \in Subtree(n),
                      NEW s \in SUBSET Nodes, n \in s, HasReplies(s)
               PROVE  m \in s
    BY DEF HasReplies, Subtree
  <2>1. node[m].parent \in s
    BY DEF Subtree
  <2> QED
    BY <2>1 DEF HasReplies
<1>4. n \in Subtree(n)
  BY DEF Subtree
<1> QED
  BY <1>2, <1>3, <1>4

\* A prompt fails, with its pending replies or without.
LEMMA PromptFails ==
  ASSUME TreesInv, NEW c \in Claims, NEW propagate \in BOOLEAN, Fail(c, propagate)
  PROVE  /\ node' \in [Nodes -> NodeRecord] /\ \A m \in Nodes : PromptShrinks({}, m)
         /\ queue' \in [Nodes -> Seq(Nodes)] /\ \A q \in Nodes : QueueShrinks(q)
         /\ Working(c) => node'[tasks[c].node].state # "IN_PROGRESS"
<1> DEFINE n == tasks[c].node
           r == tasks[c].root
           failed == {n} \cup IF propagate THEN {m \in Subtree(n) : node[m].state = "PENDING"} ELSE {}
<1>1. Working(c) => Honoured(c) /\ n \in Nodes /\ Known(n) /\ node[n].root = r /\ r \in Nodes
  <2>1. Working(c) => Honoured(c) /\ n \in Nodes /\ Known(n) /\ node[n].root = r
    BY DEF TreesInv, OneRunnerPerTree, ClaimsFit, Honoured, Working
  <2> QED
    BY <2>1 DEF TreesInv, TreesFit, PromptFits, Known
<1>2. Honoured(c) => Working(c)
  BY DEF Honoured, Working
<1>3. CASE Honoured(c) /\ Known(n) /\ node[n].state # "COMPLETED"
  <2>1. node' = WithState(failed, "ERROR") /\ queue' = Dequeue(r, failed)
    BY <1>3 DEF Fail, WithState
  <2>2. n \in Nodes /\ Known(n) /\ node[n].root = r /\ r \in Nodes
    BY <1>1, <1>2, <1>3
  <2>3. \A m \in failed : m \in Nodes /\ Known(m) /\ node[m].root = r
    BY <2>2, SubtreeFits DEF Members
  <2>4. n \in failed
    OBVIOUS
  <2> HIDE DEF failed
  <2>5. node' \in [Nodes -> NodeRecord] /\ \A m \in Nodes : PromptShrinks({}, m)
    BY <2>1, <2>3, PromptsSettle
  <2>6. \A m \in Nodes : node'[m].state = IF m \in failed THEN "ERROR" ELSE node[m].state
    BY <2>1, StatesChange DEF TreesInv
  <2>7. queue' \in [Nodes -> Seq(Nodes)] /\ \A q \in Nodes : QueueShrinks(q)
    BY <2>1, <2>2, <2>3, <2>6, QueuesShrink
  <2> QED
    BY <2>2, <2>4, <2>5, <2>6, <2>7
<1>4. CASE ~(Honoured(c) /\ Known(n) /\ node[n].state # "COMPLETED")
  <2>1. node' = node /\ queue' = queue
    BY <1>4 DEF Fail
  <2>2. Working(c) => node'[n].state # "IN_PROGRESS"
    BY <1>1, <1>4, <2>1
  <2> QED
    BY <2>1, <2>2, PromptsStay, QueuesStay
<1> QED
  BY <1>3, <1>4

\* A run reports an error, or ends in failure.
LEMMA RunFails ==
  ASSUME TreesInv, NEW c \in Claims, ReportError(c) \/ EndInFailure(c) PROVE TreesInv'
<1>1. CASE ReportError(c)
  <2>1. Fail(c, FALSE) /\ active' = active /\ tasks' = tasks
    BY <1>1 DEF ReportError
  <2> QED
    BY <2>1, PromptFails, ClaimsStay, ShrinkOfStates
<1>2. CASE EndInFailure(c)
  <2>1. PICK propagate \in BOOLEAN : Fail(c, propagate)
    BY <1>2 DEF EndInFailure
  <2>2. /\ active' = active /\ tasks' = Placed(c, "finishing") /\ ~Over(c)
        /\ "finishing" \in Places
    BY <1>2 DEF EndInFailure, Over, Places, Placed
  <2>3. /\ node' \in [Nodes -> NodeRecord] /\ \A m \in Nodes : PromptShrinks({}, m)
        /\ queue' \in [Nodes -> Seq(Nodes)] /\ \A q \in Nodes : QueueShrinks(q)
        /\ Working(c) => node'[tasks[c].node].state # "IN_PROGRESS"
    BY <2>1, PromptFails
  <2>4. tasks' \in [Claims -> TaskRecord] /\ \A d \in Claims : ClaimShrinks({}, d)
    BY <2>2, <2>3, ClaimMoves
  <2> QED
    BY <2>2, <2>3, <2>4, ShrinkOfStates
<1> QED
  BY <1>1, <1>2

\* What a stop of the prompts s makes of them.
LEMMA PromptsStop ==
  ASSUME TreesInv, NEW s, node' = Stopped(s)
  PROVE  /\ node' \in [Nodes -> NodeRecord] /\ \A m \in Nodes : PromptShrinks({}, m)
         /\ \A m \in Nodes : node'[m].state = IF m \in s /\ node[m].state \in Runnable
                                              THEN "ERROR" ELSE node[m].state
<1> DEFINE t == {m \in Nodes : m \in s /\ node[m].state \in Runnable}
<1>1. node' = WithState(t, "ERROR")
  BY DEF Stopped, WithState
<1>2. \A m \in t \cap Nodes : Known(m)
  BY DEF Known, Runnable
<1>3. \A m \in Nodes : m \in t <=> m \in s /\ node[m].state \in Runnable
  OBVIOUS
<1> HIDE DEF t
<1>4. node' \in [Nodes -> NodeRecord] /\ \A m \in Nodes : PromptShrinks({}, m)
  BY <1>1, <1>2, PromptsSettle
<1>5. \A m \in Nodes : node'[m].state = IF m \in t THEN "ERROR" ELSE node[m].state
  BY <1>1, StatesChange DEF TreesInv
<1> QED
  BY <1>3, <1>4, <1>5

\* A reply with /stop.
LEMMA OneStops == ASSUME TreesInv, NEW n \in Nodes, StopReply(n) PROVE TreesInv'
<1> DEFINE r == node[n].root
           cs == {ActiveWithin(r, {n})}
<1>1. /\ node' = Stopped({n}) /\ queue' = Dequeue(r, {n}) /\ tasks' = CancelTasks(cs)
      /\ active' = active /\ Known(n)
  BY DEF StopReply
<1>2. r \in Nodes
  BY <1>1 DEF TreesInv, TreesFit, PromptFits, Known
<1>3. \A d \in Claims : d \in cs => tasks[d].node = n
  BY DEF ActiveWithin, Claims
<1> HIDE DEF r, cs
<1>4. /\ node' \in [Nodes -> NodeRecord] /\ \A m \in Nodes : PromptShrinks({}, m)
      /\ \A m \in Nodes : node'[m].state = IF m \in {n} /\ node[m].state \in Runnable
                                           THEN "ERROR" ELSE node[m].state
  BY <1>1, PromptsStop
<1>5. queue' \in [Nodes -> Seq(Nodes)] /\ \A q \in Nodes : QueueShrinks(q)
  <2>1. \A m \in Nodes : node[m].state = "PENDING" =>
           /\ node'[m].state = "PENDING" <=> m \notin {n}
           /\ m \in {n} => node[m].root = r
    BY <1>4 DEF Runnable, r
  <2> QED
    BY <1>1, <1>2, <2>1, QueuesShrink
<1>6. tasks' \in [Claims -> TaskRecord] /\ \A d \in Claims : ClaimShrinks({}, d)
  <2>1. \A d \in Claims : Working(d) /\ d \in cs /\ tasks[d].node \in Nodes
           => node'[tasks[d].node].state # "IN_PROGRESS"
    BY <1>3, <1>4 DEF Runnable
  <2> QED
    BY <1>1, <2>1, ClaimsEnd
<1> QED
  BY <1>1, <1>4, <1>5, <1>6, ShrinkOfStates

\* Whole trees are cancelled.
LEMMA TreesStop == ASSUME TreesInv, NEW s \in SUBSET Published, CancelTrees(s) PROVE TreesInv'
<1> USE NodesAssumption
<1> DEFINE of == {n \in Nodes : node[n].root \in s}
           cs == {active[r] : r \in s}
<1>1. /\ node' = Stopped(of) /\ tasks' = CancelTasks(cs) /\ active' = active
      /\ queue' = [r \in Nodes |-> IF r \in s THEN <<>> ELSE queue[r]]
  BY DEF CancelTrees
<1>2. \A d \in Claims : Working(d) /\ d \in cs => tasks[d].node \in of
  <2> SUFFICES ASSUME NEW d \in Claims, Working(d), NEW r \in s, d = active[r]
               PROVE  tasks[d].node \in of
    OBVIOUS
  <2>1. r \in Nodes /\ d # 0
    BY DEF Published, Claims
  <2>2. tasks[d].root = r
    BY <2>1 DEF TreesInv, ActiveHasTask
  <2> QED
    BY <2>2 DEF TreesInv, ClaimsFit
<1>3. \A m \in Nodes : m \in of <=> node[m].root \in s
  OBVIOUS
<1> HIDE DEF of, cs
<1>4. /\ node' \in [Nodes -> NodeRecord] /\ \A m \in Nodes : PromptShrinks({}, m)
      /\ \A m \in Nodes : node'[m].state = IF m \in of /\ node[m].state \in Runnable
                                           THEN "ERROR" ELSE node[m].state
  BY <1>1, PromptsStop
<1>5. queue' \in [Nodes -> Seq(Nodes)] /\ \A q \in Nodes : QueueShrinks(q)
  <2>1. queue \in [Nodes -> Seq(Nodes)] /\ \A q \in Nodes : IsInjective(queue[q])
    BY DEF TreesInv, TreesTyped, QueueIsPending
  <2>2. \A q \in Nodes : ToSet(queue[q]) = {n \in Nodes : node[n].state = "PENDING" /\ node[n].root = q}
    BY DEF TreesInv, QueueIsPending, Members, Known
  <2>3. queue' \in [Nodes -> Seq(Nodes)]
    BY <1>1, <2>1
  <2>4. ASSUME NEW q \in Nodes PROVE QueueShrinks(q)
    <3>1. CASE q \in s
      <4>1. queue'[q] = <<>>
        BY <1>1, <3>1
      <4>2. ToSet(queue'[q]) = {} /\ IsInjective(queue'[q]) /\ InOrderOf(queue'[q], queue[q])
        BY <4>1 DEF ToSet, IsInjective, InOrderOf
      <4>3. \A n \in ToSet(queue[q]) : node'[n].state # "PENDING"
        BY <1>3, <1>4, <2>2, <3>1 DEF Runnable
      <4> QED
        BY <4>2, <4>3 DEF QueueShrinks
    <3>2. CASE q \notin s
      <4>1. queue'[q] = queue[q]
        BY <1>1, <3>2
      <4>2. InOrderOf(queue[q], queue[q])
        BY DEF InOrderOf
      <4>3. \A n \in ToSet(queue[q]) : node'[n].state = "PENDING"
        BY <1>3, <1>4, <2>2, <3>2
      <4> QED
        BY <2>1, <4>1, <4>2, <4>3 DEF QueueShrinks
    <3> QED
      BY <3>1, <3>2
  <2> QED
    BY <2>3, <2>4
<1>6. tasks' \in [Claims -> TaskRecord] /\ \A d \in Claims : ClaimShrinks({}, d)
  <2>1. \A d \in Claims : Working(d) /\ d \in cs /\ tasks[d].node \in Nodes
           => node'[tasks[d].node].state # "IN_PROGRESS"
    BY <1>2, <1>4 DEF Runnable
  <2> QED
    BY <1>1, <2>1, ClaimsEnd
<1> QED
  BY <1>1, <1>4, <1>5, <1>6, ShrinkOfStates

\* A standalone /stop, whether or not a tree cannot be cancelled.
LEMMA AllStop == ASSUME TreesInv, StopAll PROVE TreesInv'
<1>1. PICK s \in SUBSET Published : CancelTrees(s)
  BY DEF StopAll
<1> QED
  BY <1>1, TreesStop

\* Whole trees are removed.
LEMMA TreesDetach == ASSUME TreesInv, NEW s \in SUBSET Published, DetachTrees(s) PROVE TreesInv'
<1> USE NodesAssumption
<1> DEFINE R == {n \in Nodes : node[n].root \in s}
           cs == {active[r] : r \in s}
<1>1. /\ node' = [n \in Nodes |-> IF node[n].root \in s THEN Blank ELSE node[n]]
      /\ queue' = [r \in Nodes |-> IF r \in s THEN <<>> ELSE queue[r]]
      /\ active' = [r \in Nodes |-> IF r \in s THEN 0 ELSE active[r]]
      /\ tasks' = CancelTasks(cs)
  BY DEF DetachTrees
<1>2. s \in SUBSET Nodes /\ NoNode \notin s
  BY DEF Published
<1>3. \A m \in Nodes : m \in R => Known(m)
  BY <1>2 DEF TreesInv, TreesFit, PromptFits, Known, Blank
<1>4. \A m \in Nodes : m \in R <=> node[m].root \in s
  OBVIOUS
<1>5. \A r \in Nodes : active'[r] = IF r \in R THEN 0 ELSE active[r]
  <2> SUFFICES ASSUME NEW r \in Nodes PROVE active'[r] = IF r \in R THEN 0 ELSE active[r]
    OBVIOUS
  <2>1. active'[r] = IF r \in s THEN 0 ELSE active[r]
    BY <1>1
  <2>2. r \in s => r \in R
    BY DEF Published
  <2>3. r \in R /\ r \notin s => active[r] = 0
    BY DEF TreesInv, ActiveHasTask, Published
  <2> HIDE DEF R
  <2> QED
    BY <2>1, <2>2, <2>3
<1>6. ASSUME NEW d \in Claims, Working(d)
      PROVE  d \in cs <=> tasks[d].node \in R
  <2>1. active[tasks[d].root] = d /\ tasks[d].node \in Nodes
           /\ node[tasks[d].node].root = tasks[d].root
    BY <1>6 DEF TreesInv, OneRunnerPerTree, ClaimsFit
  <2>2. ASSUME NEW r \in s, d = active[r] PROVE tasks[d].root = r
    <3>1. r \in Nodes /\ d # 0
      BY <1>2 DEF Claims
    <3> QED
      BY <2>2, <3>1 DEF TreesInv, ActiveHasTask
  <2> QED
    BY <2>1, <2>2
<1> HIDE DEF R, cs
<1>7. \A m \in Nodes : node'[m] = IF m \in R THEN Blank ELSE node[m]
  BY <1>1, <1>4
<1>8. tasks' \in [Claims -> TaskRecord] /\ \A d \in Claims : ClaimShrinks(R, d)
  <2>1. \A d \in Claims : Working(d) /\ d \in cs /\ tasks[d].node \in Nodes
           => node'[tasks[d].node].state # "IN_PROGRESS"
    BY <1>6, <1>7 DEF Blank
  <2>2. \A d \in Claims : Working(d) /\ d \notin cs => tasks[d].node \notin R
    BY <1>6
  <2> QED
    BY <1>1, <2>1, <2>2, ClaimsEnd
<1>9. queue' \in [Nodes -> Seq(Nodes)] /\ \A q \in Nodes : QueueShrinks(q)
  <2>1. queue \in [Nodes -> Seq(Nodes)] /\ \A q \in Nodes : IsInjective(queue[q])
    BY DEF TreesInv, TreesTyped, QueueIsPending
  <2>2. \A q \in Nodes : ToSet(queue[q]) = {n \in Nodes : node[n].state = "PENDING" /\ node[n].root = q}
    BY DEF TreesInv, QueueIsPending, Members, Known
  <2>3. queue' \in [Nodes -> Seq(Nodes)]
    BY <1>1, <2>1
  <2>4. ASSUME NEW q \in Nodes PROVE QueueShrinks(q)
    <3>1. CASE q \in s
      <4>1. queue'[q] = <<>>
        BY <1>1, <3>1
      <4>2. ToSet(queue'[q]) = {} /\ IsInjective(queue'[q]) /\ InOrderOf(queue'[q], queue[q])
        BY <4>1 DEF ToSet, IsInjective, InOrderOf
      <4>3. \A n \in ToSet(queue[q]) : node'[n].state # "PENDING"
        BY <1>4, <1>7, <2>2, <3>1 DEF Blank
      <4> QED
        BY <4>2, <4>3 DEF QueueShrinks
    <3>2. CASE q \notin s
      <4>1. queue'[q] = queue[q]
        BY <1>1, <3>2
      <4>2. InOrderOf(queue[q], queue[q])
        BY DEF InOrderOf
      <4>3. \A n \in ToSet(queue[q]) : node'[n].state = "PENDING"
        BY <1>4, <1>7, <2>2, <3>2
      <4> QED
        BY <2>1, <4>1, <4>2, <4>3 DEF QueueShrinks
    <3> QED
      BY <3>1, <3>2
  <2> QED
    BY <2>3, <2>4
<1>10. TreesTyped'
  <2>1. node' \in [Nodes -> NodeRecord]
    BY <1>1 DEF TreesInv, TreesTyped, NodeRecord, Blank
  <2>2. active' \in [Nodes -> Claims \cup {0}]
    BY <1>1 DEF TreesInv, TreesTyped
  <2> QED
    BY <1>8, <1>9, <2>1, <2>2 DEF TreesTyped
<1>11. HasReplies(R)
  <2> SUFFICES ASSUME NEW m \in Nodes, Known(m), node[m].parent \in R PROVE m \in R
    BY DEF HasReplies
  <2>1. node[m].parent \in Nodes
    BY DEF R
  <2>2. node[node[m].parent].root = node[m].root
    BY <2>1 DEF TreesInv, TreesFit, PromptFits, Known
  <2> QED
    BY <1>4, <2>1, <2>2
<1>12. \A m \in Nodes \ R : PromptShrinks(R, m)
  BY <1>7 DEF PromptShrinks
<1>13. TreesShrink(R)
  <2>1. R \in SUBSET Nodes
    BY DEF R
  <2> QED
    BY <1>5, <1>7, <1>8, <1>9, <1>10, <1>11, <1>12, <2>1 DEF TreesShrink
<1> QED
  BY <1>13, ShrinkKeeps

\* A standalone /clear, whether or not a tree cannot be cancelled.
LEMMA ChatClears == ASSUME TreesInv, ClearChat PROVE TreesInv'
<1>1. PICK s \in SUBSET Published : DetachTrees(s)
  BY DEF ClearChat
<1> QED
  BY <1>1, TreesDetach

\* What a clear removes is of one tree, with all that replies to it.
LEMMA RemovedFits ==
  ASSUME TreesInv, NEW n \in Nodes, Known(n), NEW viaStatus \in BOOLEAN
  PROVE  /\ RemovedBy(n, viaStatus) \subseteq Members(node[n].root)
         /\ HasReplies(RemovedBy(n, viaStatus))
         /\ IF viaStatus
            THEN \A k \in Nodes : Known(k) /\ node[k].parent = n /\ node[k].viaStatus
               => k \in RemovedBy(n, viaStatus)
            ELSE n \in RemovedBy(n, viaStatus)
<1> USE NodesAssumption
<1>1. CASE ~viaStatus
  <2>1. RemovedBy(n, viaStatus) = Subtree(n)
    BY <1>1 DEF RemovedBy
  <2> QED
    BY <1>1, <2>1, SubtreeFits
<1>2. CASE viaStatus
  <2> DEFINE kids == {x \in Nodes : node[x].parent = n /\ node[x].viaStatus}
             R == RemovedBy(n, viaStatus)
  <2>1. \A m : m \in R <=> \E k \in kids : m \in Subtree(k)
    BY <1>2 DEF RemovedBy
  <2>2. ASSUME NEW k \in kids
        PROVE  /\ Subtree(k) \subseteq Members(node[n].root)
               /\ HasReplies(Subtree(k)) /\ k \in Subtree(k)
    <3>1. Known(k) /\ node[n].root = node[k].root
      BY DEF TreesInv, TreesFit, PromptFits, Known, Blank
    <3> QED
      BY <3>1, SubtreeFits
  <2> HIDE DEF kids, R
  <2>3. R \subseteq Members(node[n].root)
    BY <2>1, <2>2
  <2>4. HasReplies(R)
    BY <2>1, <2>2 DEF HasReplies
  <2>5. \A k \in Nodes : Known(k) /\ node[k].parent = n /\ node[k].viaStatus => k \in R
    <3>1. \A k \in Nodes : node[k].parent = n /\ node[k].viaStatus => k \in kids
      BY DEF kids
    <3> QED
      BY <2>1, <2>2, <3>1
  <2> QED
    BY <1>2, <2>3, <2>4, <2>5 DEF R
<1> QED
  BY <1>1, <1>2

\* A /clear of a prompt or of its status message, with what it removes.
LEMMA PromptClears ==
  ASSUME TreesInv, NEW n \in Nodes, NEW viaStatus \in BOOLEAN, ClearReply(n, viaStatus),
         ~Untargetable(node[n].root, RemovedBy(n, viaStatus) \cup {n})
  PROVE  TreesInv'
<1> USE NodesAssumption
<1> DEFINE r == node[n].root
           R == RemovedBy(n, viaStatus)
           affected == R \cup {n}
           cs == {ActiveWithin(r, affected)}
<1>1. /\ Known(n)
      /\ node' = [m \in Nodes |->
              IF m \in R THEN Blank
              ELSE IF m = n
                   THEN [node[m] EXCEPT !.state = "ERROR", !.status = FALSE, !.session = FALSE]
                   ELSE node[m]]
      /\ queue' = Dequeue(r, affected)
      /\ active' = IF r \in R THEN [active EXCEPT ![r] = 0] ELSE active
      /\ tasks' = CancelTasks(cs)
  BY DEF ClearReply, Resolves
<1>2. r \in Nodes /\ node[r].root = r /\ r # NoNode
  BY <1>1 DEF TreesInv, TreesFit, PromptFits, Known
<1>3. /\ R \subseteq Members(r) /\ HasReplies(R)
      /\ IF viaStatus
         THEN \A k \in Nodes : Known(k) /\ node[k].parent = n /\ node[k].viaStatus => k \in R
         ELSE n \in R
  BY <1>1, RemovedFits
<1>4. /\ \A m \in affected : m \in Nodes /\ node[m].root = r
      /\ R \subseteq affected /\ n \in affected /\ \A m : m \in affected <=> m \in R \/ m = n
  BY <1>1, <1>3 DEF Members
<1>5. ASSUME NEW d \in Claims, Working(d) PROVE d \in cs <=> tasks[d].node \in affected
  <2>1. active[tasks[d].root] = d /\ tasks[d].node \in Nodes
           /\ node[tasks[d].node].root = tasks[d].root
    BY <1>5 DEF TreesInv, OneRunnerPerTree, ClaimsFit
  <2>2. d # 0
    BY DEF Claims
  <2> HIDE DEF affected, r
  <2>3. d \in cs => tasks[d].node \in affected
    BY <2>2 DEF ActiveWithin
  <2>4. tasks[d].node \in affected => d \in cs
    BY <1>4, <2>1, <2>2 DEF ActiveWithin
  <2> QED
    BY <2>3, <2>4
<1> HIDE DEF r, R, affected, cs
<1>6. node \in [Nodes -> NodeRecord]
  BY DEF TreesInv, TreesTyped
<1>7. node' \in [Nodes -> NodeRecord]
  BY ZenonT(60), <1>1, <1>6 DEF NodeRecord, Blank
<1>8. \A m \in Nodes : /\ m \in R => node'[m] = Blank
                       /\ m \notin affected => node'[m] = node[m]
  BY <1>1, <1>4
<1>9. n \notin R => /\ node'[n].state = "ERROR" /\ ~node'[n].status
                    /\ node'[n].root = node[n].root /\ node'[n].parent = node[n].parent
                    /\ node'[n].viaStatus = node[n].viaStatus
  <2>1. n \notin R => node'[n] = [node[n] EXCEPT !.state = "ERROR", !.status = FALSE, !.session = FALSE]
    BY <1>1
  <2>2. node[n] \in NodeRecord
    BY <1>6
  <2> QED
    BY <2>1, <2>2 DEF NodeRecord
<1>10. \A m \in affected : node'[m].state \notin Runnable
  BY <1>4, <1>8, <1>9 DEF Runnable, Blank
<1>11. tasks' \in [Claims -> TaskRecord] /\ \A d \in Claims : ClaimShrinks(R, d)
  <2>1. \A d \in Claims : Working(d) /\ d \in cs /\ tasks[d].node \in Nodes
           => node'[tasks[d].node].state # "IN_PROGRESS"
    BY <1>5, <1>10 DEF Runnable
  <2>2. \A d \in Claims : Working(d) /\ d \notin cs => tasks[d].node \notin R
    BY <1>4, <1>5
  <2> QED
    BY <1>1, <2>1, <2>2, ClaimsEnd
<1>12. queue' \in [Nodes -> Seq(Nodes)] /\ \A q \in Nodes : QueueShrinks(q)
  <2>1. \A m \in Nodes : node[m].state = "PENDING" =>
           /\ node'[m].state = "PENDING" <=> m \notin affected
           /\ m \in affected => node[m].root = r
    BY <1>4, <1>8, <1>10 DEF Runnable
  <2> QED
    BY <1>1, <1>2, <2>1, QueuesShrink
<1>13. active' \in [Nodes -> Claims \cup {0}] /\ \A q \in Nodes : active'[q] = IF q \in R THEN 0
          ELSE active[q]
  <2>1. active \in [Nodes -> Claims \cup {0}]
    BY DEF TreesInv, TreesTyped
  <2>2. \A q \in R : q # r => active[q] = 0
    BY <1>4 DEF TreesInv, ActiveHasTask, Published
  <2> QED
    BY <1>1, <1>2, <2>1, <2>2
<1>14. ASSUME NEW m \in Nodes \ R PROVE PromptShrinks(R, m)
  <2>1. CASE m # n
    <3>1. node'[m] = node[m]
      BY <1>4, <1>8, <2>1
    <3> QED
      BY <3>1 DEF PromptShrinks
  <2>2. CASE m = n
    <3>1. \A k \in Nodes \ R : Known(k) /\ node[k].parent = m => ~node[k].viaStatus
      BY <1>3, <2>2
    <3>2. Known(m)
      BY <1>1, <2>2
    <3> QED
      BY <1>9, <2>2, <3>1, <3>2 DEF PromptShrinks, Known
  <2> QED
    BY <2>1, <2>2
<1>15. TreesTyped' /\ R \in SUBSET Nodes
  BY <1>4, <1>7, <1>11, <1>12, <1>13 DEF TreesTyped
<1>16. TreesShrink(R)
  BY <1>3, <1>8, <1>11, <1>12, <1>13, <1>14, <1>15 DEF TreesShrink
<1> QED
  BY <1>16, ShrinkKeeps

\* The same, or its failure after some prompts were stopped.
LEMMA ReplyClears ==
  ASSUME TreesInv, NEW n \in Nodes, NEW viaStatus \in BOOLEAN, ClearReply(n, viaStatus)
  PROVE  TreesInv'
<1> DEFINE r == node[n].root
           affected == RemovedBy(n, viaStatus) \cup {n}
<1>1. CASE ~Untargetable(r, affected)
  BY <1>1, PromptClears
<1>2. CASE Untargetable(r, affected)
  <2>1. PICK s \in SUBSET affected : node' = Stopped(s) /\ queue' = Dequeue(r, s)
    BY <1>2 DEF ClearReply
  <2>2. active' = active /\ tasks' = tasks /\ Known(n)
    BY <1>2 DEF ClearReply, Resolves
  <2>3. r \in Nodes
    BY <2>2 DEF TreesInv, TreesFit, PromptFits, Known
  <2>4. \A m \in s : node[m].root = r
    BY <2>2, RemovedFits DEF Members
  <2> HIDE DEF r
  <2>5. /\ node' \in [Nodes -> NodeRecord] /\ \A m \in Nodes : PromptShrinks({}, m)
        /\ \A m \in Nodes : node'[m].state = IF m \in s /\ node[m].state \in Runnable
                                             THEN "ERROR" ELSE node[m].state
    BY <2>1, PromptsStop
  <2>6. queue' \in [Nodes -> Seq(Nodes)] /\ \A q \in Nodes : QueueShrinks(q)
    <3>1. \A m \in Nodes : node[m].state = "PENDING" =>
             /\ node'[m].state = "PENDING" <=> m \notin s
             /\ m \in s => node[m].root = r
      BY <2>4, <2>5 DEF Runnable
    <3> QED
      BY <2>1, <2>3, <3>1, QueuesShrink
  <2> QED
    BY <2>2, <2>5, <2>6, ClaimsStay, ShrinkOfStates
<1> QED
  BY <1>1, <1>2

\* The claim of c is gone.
Released(c) == [tasks EXCEPT ![c] = Gone]

\* A claim that goes leaves every other task as it is.
LEMMA TaskGoes ==
  ASSUME TreesTyped, NEW c \in Claims, tasks' = Released(c)
  PROVE  /\ tasks' \in [Claims -> TaskRecord] /\ Over(c)' /\ tasks'[c].place = "gone"
         /\ \A d \in Claims \ {c} : /\ tasks'[d] = tasks[d]
                                    /\ Working(d)' <=> Working(d)
                                    /\ Over(d)' <=> Over(d)
         /\ \A d \in Claims : Working(d)' => Working(d) /\ d # c
<1>1. tasks \in [Claims -> TaskRecord]
  BY DEF TreesTyped
<1>2. Gone \in TaskRecord /\ Gone.place = "gone"
  BY DEF Gone, TaskRecord, Places
<1>3. /\ tasks' \in [Claims -> TaskRecord] /\ tasks'[c] = Gone
      /\ \A d \in Claims \ {c} : tasks'[d] = tasks[d]
  BY <1>1, <1>2 DEF Released
<1>4. Over(c)' /\ ~Working(c)'
  BY <1>2, <1>3 DEF Over, Working
<1>5. \A d \in Claims \ {c} : (Working(d)' <=> Working(d)) /\ (Over(d)' <=> Over(d))
  BY <1>3 DEF Over, Working
<1> QED
  BY <1>2, <1>3, <1>4, <1>5

\* The claim of a tree that is gone, or taken over, goes away.
LEMMA StrangerGoes ==
  ASSUME TreesInv, NEW c \in Claims, ~OwnsTree(c), tasks' = Released(c),
         node' = node, queue' = queue, active' = active
  PROVE  TreesInv'
<1>1. ~Working(c) /\ \A r \in Nodes : active[r] # c
  <2>1. 0 \notin Claims
    BY DEF Claims
  <2> QED
    BY <2>1 DEF TreesInv, OneRunnerPerTree, ActiveHasTask, OwnsTree
<1>2. /\ tasks' \in [Claims -> TaskRecord]
      /\ \A d \in Claims \ {c} : /\ tasks'[d] = tasks[d]
                                 /\ Working(d)' <=> Working(d)
                                 /\ Over(d)' <=> Over(d)
      /\ \A d \in Claims : Working(d)' => Working(d) /\ d # c
      /\ Over(c)'
  BY TaskGoes DEF TreesInv
<1>3. TreesTyped' /\ TreesFit(node') /\ QueueIsPending' /\ ParentsFirst' /\ ParentSettledFirst'
  BY <1>2 DEF TreesInv, TreesTyped, QueueIsPending, ParentsFirst, ParentSettledFirst, Members, Known
<1>4. ActiveHasTask'
  <2>1. ASSUME NEW r \in Nodes, active[r] # 0
        PROVE  r \in Published' /\ tasks'[active[r]].root = r
           /\ tasks'[active[r]].place \notin {"unclaimed", "gone"}
    <3>1. PICK d \in Claims : d = active[r]
      BY <2>1 DEF TreesInv, TreesTyped
    <3>2. r \in Published /\ tasks[d].root = r /\ ~Over(d)
      BY <2>1, <3>1 DEF TreesInv, ActiveHasTask
    <3>3. tasks'[d] = tasks[d]
      BY <1>1, <1>2, <3>1
    <3> QED
      BY <3>1, <3>2, <3>3 DEF Over, Published, Known
  <2>2. ASSUME NEW r \in Nodes, active[r] = 0, NEW n \in Members(r)
        PROVE node[n].state \notin Runnable
    BY <2>2 DEF TreesInv, ActiveHasTask
  <2> QED
    BY <2>1, <2>2 DEF ActiveHasTask, Members, Known, Over
<1>5. OneRunnerPerTree' /\ ClaimsFit'
  <2>1. \A d \in Claims : Working(d)' => active'[tasks'[d].root] = d
    BY <1>2 DEF TreesInv, OneRunnerPerTree
  <2>2. ASSUME NEW n \in Nodes, node'[n].state = "IN_PROGRESS"
        PROVE  \E d \in Claims : /\ tasks'[d].node = n /\ tasks'[d].root = node'[n].root
                                 /\ Working(d)' /\ tasks'[d].place # "finishing"
    <3>1. PICK d \in Claims : /\ tasks[d].node = n /\ tasks[d].root = node[n].root
                              /\ Working(d) /\ tasks[d].place # "finishing"
      BY <2>2 DEF TreesInv, OneRunnerPerTree
    <3> QED
      BY <1>1, <1>2, <3>1
  <2>3. ASSUME NEW d \in Claims, ~Over(d)' PROVE tasks'[d].root \in Nodes
    <3>1. d # c
      BY <1>2, <2>3
    <3> QED
      BY <1>2, <2>3, <3>1 DEF TreesInv, ClaimsFit
  <2>4. ClaimsFit'
    BY <1>2, <2>3 DEF TreesInv, ClaimsFit, Known
  <2> QED
    BY <2>1, <2>2, <2>4 DEF OneRunnerPerTree
<1>6. ResumeMatchesParent'
  BY <1>2 DEF TreesInv, ResumeMatchesParent
<1> QED
  BY <1>3, <1>4, <1>5, <1>6 DEF TreesInv

\* A tree whose queue holds nothing to run rests.
LEMMA TreeRests ==
  ASSUME TreesInv, NEW c \in Claims, ~Over(c), tasks[c].place = "finishing", OwnsTree(c),
         NEW r, r = tasks[c].root, Successors(r) = {}, tasks' = Released(c),
         node' = node, queue' = [queue EXCEPT ![r] = <<>>], active' = [active EXCEPT ![r] = 0]
  PROVE  TreesInv'
<1>1. r \in Nodes /\ active[r] = c /\ 0 \notin Claims
  BY DEF TreesInv, ClaimsFit, OwnsTree, Claims
<1>2. \A q \in Nodes \ {r} : active[q] # c
  BY <1>1 DEF TreesInv, ActiveHasTask
<1>3. /\ tasks' \in [Claims -> TaskRecord]
      /\ \A d \in Claims \ {c} : /\ tasks'[d] = tasks[d]
                                 /\ Working(d)' <=> Working(d)
                                 /\ Over(d)' <=> Over(d)
      /\ \A d \in Claims : Working(d)' => Working(d) /\ d # c
      /\ Over(c)'
  BY TaskGoes DEF TreesInv
<1>4. \A n \in Members(r) : node[n].state # "PENDING"
  <2> SUFFICES ASSUME NEW n \in Members(r), node[n].state = "PENDING" PROVE FALSE
    OBVIOUS
  <2>1. queue[r] \in Seq(Nodes) /\ ToSet(queue[r]) = {m \in Members(r) : node[m].state = "PENDING"}
    BY <1>1 DEF TreesInv, TreesTyped, QueueIsPending
  <2>2. PICK i \in DOMAIN queue[r] : queue[r][i] = n
    BY <2>1 DEF ToSet
  <2>3. 1 \in 1..Len(queue[r]) /\ 1 \in DOMAIN queue[r]
    BY <2>1, <2>2
  <2>4. queue[r][1] \in ToSet(queue[r])
    BY <2>3 DEF ToSet
  <2>5. node[queue[r][1]].state = "PENDING"
    BY <2>1, <2>4
  <2>6. \A j \in 1..1 - 1 : node[queue[r][j]].state # "PENDING"
    OBVIOUS
  <2>7. 1 \in Successors(r)
    BY <2>3, <2>5, <2>6 DEF Successors
  <2> QED
    BY <2>7
<1>5. \A n \in Members(r) : node[n].state # "IN_PROGRESS"
  <2> SUFFICES ASSUME NEW n \in Members(r), node[n].state = "IN_PROGRESS" PROVE FALSE
    OBVIOUS
  <2>1. PICK d \in Claims : tasks[d].root = r /\ Working(d) /\ tasks[d].place # "finishing"
    BY DEF TreesInv, OneRunnerPerTree, Members
  <2>2. d = c
    BY <1>1, <2>1 DEF TreesInv, OneRunnerPerTree
  <2> QED
    BY <2>1, <2>2
<1>6. /\ \A q \in Nodes : active'[q] = IF q = r THEN 0 ELSE active[q]
      /\ \A q \in Nodes : queue'[q] = IF q = r THEN <<>> ELSE queue[q]
      /\ queue' \in [Nodes -> Seq(Nodes)] /\ active' \in [Nodes -> Claims \cup {0}]
  BY <1>1 DEF TreesInv, TreesTyped
<1>7. TreesTyped' /\ TreesFit(node') /\ ParentSettledFirst'
  BY <1>3, <1>6 DEF TreesInv, TreesTyped, ParentSettledFirst
<1>8. QueueIsPending' /\ ParentsFirst'
  <2>1. ASSUME NEW q \in Nodes
        PROVE  /\ ToSet(queue'[q]) = {n \in Members(q) : node[n].state = "PENDING"}
               /\ IsInjective(queue'[q])
               /\ \A i, j \in DOMAIN queue'[q] : i < j => node[queue'[q][i]].parent # queue'[q][j]
    <3>1. CASE q = r
      <4>1. queue'[q] = <<>>
        BY <1>6, <3>1
      <4>2. ToSet(queue'[q]) = {} /\ IsInjective(queue'[q]) /\ DOMAIN queue'[q] = {}
        BY <4>1 DEF ToSet, IsInjective
      <4> QED
        BY <1>4, <3>1, <4>2
    <3>2. CASE q # r
      BY <1>6, <3>2 DEF TreesInv, QueueIsPending, ParentsFirst
    <3> QED
      BY <3>1, <3>2
  <2> QED
    BY <2>1 DEF QueueIsPending, ParentsFirst, Members, Known
<1>9. ActiveHasTask'
  <2>1. ASSUME NEW q \in Nodes, active'[q] # 0
        PROVE  q \in Published' /\ tasks'[active'[q]].root = q
           /\ tasks'[active'[q]].place \notin {"unclaimed", "gone"}
    <3>1. q # r /\ active'[q] = active[q]
      BY <1>6, <2>1
    <3>2. PICK d \in Claims : d = active[q] /\ d # 0
      BY <2>1, <3>1 DEF TreesInv, TreesTyped
    <3>3. q \in Published /\ tasks[d].root = q /\ ~Over(d)
      BY <3>2 DEF TreesInv, ActiveHasTask
    <3>4. tasks'[d] = tasks[d]
      BY <1>2, <1>3, <3>1, <3>2
    <3> QED
      BY <3>1, <3>2, <3>3, <3>4 DEF Over, Published, Known
  <2>2. ASSUME NEW q \in Nodes, active'[q] = 0, NEW n \in Members(q)
        PROVE node[n].state \notin Runnable
    <3>1. CASE q = r
      BY <1>4, <1>5, <3>1 DEF Runnable
    <3>2. CASE q # r
      BY <1>6, <2>2, <3>2 DEF TreesInv, ActiveHasTask
    <3> QED
      BY <3>1, <3>2
  <2> QED
    BY <2>1, <2>2 DEF ActiveHasTask, Members, Known, Over
<1>10. OneRunnerPerTree' /\ ClaimsFit'
  <2>1. ASSUME NEW d \in Claims, Working(d)' PROVE active'[tasks'[d].root] = d
    <3>1. d # c /\ tasks'[d] = tasks[d] /\ active[tasks[d].root] = d /\ tasks[d].root \in Nodes
      BY <1>3, <2>1 DEF TreesInv, OneRunnerPerTree, ClaimsFit, Working
    <3> QED
      BY <1>1, <1>6, <3>1
  <2>2. ASSUME NEW n \in Nodes, node'[n].state = "IN_PROGRESS"
        PROVE  \E d \in Claims : /\ tasks'[d].node = n /\ tasks'[d].root = node'[n].root
                                 /\ Working(d)' /\ tasks'[d].place # "finishing"
    <3>1. PICK d \in Claims : /\ tasks[d].node = n /\ tasks[d].root = node[n].root
                              /\ Working(d) /\ tasks[d].place # "finishing"
      BY <2>2 DEF TreesInv, OneRunnerPerTree
    <3> QED
      BY <1>3, <3>1
  <2>3. ASSUME NEW d \in Claims, ~Over(d)' PROVE tasks'[d].root \in Nodes
    <3>1. d # c
      BY <1>3, <2>3
    <3> QED
      BY <1>3, <2>3, <3>1 DEF TreesInv, ClaimsFit
  <2>4. ClaimsFit'
    BY <1>3, <2>3 DEF TreesInv, ClaimsFit, Known
  <2> QED
    BY <2>1, <2>2, <2>4 DEF OneRunnerPerTree
<1>11. ResumeMatchesParent'
  BY <1>3 DEF TreesInv, ResumeMatchesParent
<1> QED
  BY <1>7, <1>8, <1>9, <1>10, <1>11 DEF TreesInv

-----------------------------------------------------------------------------
(* Claims that start. *)

\* A new claim k of n becomes the active one of the tree of r; the claims of done go.
ClaimTaken(r, n, k, done) ==
    /\ k \in Claims /\ k \notin done /\ tasks[k].place = "unclaimed"
    /\ done \in SUBSET Claims /\ (active[r] # 0 => active[r] \in done)
          /\ \A d \in done : active[r] = d
    /\ \A d \in Claims \ {k} : tasks'[d] = IF d \in done THEN Gone ELSE tasks[d]
    /\ tasks'[k].node = n /\ tasks'[k].root = r /\ ~tasks'[k].cancelled
    /\ tasks'[k].place \in {"fresh", "successor"}
    /\ \A q \in Nodes : active'[q] = IF q = r THEN k ELSE active[q]

\* The prompt n of the tree of r, new or pending, runs now.
PromptTaken(r, n) ==
    LET p == node'[n].parent IN
    /\ node'[n].state = "IN_PROGRESS" /\ node'[n].root = r /\ node'[r].root = r
          /\ node'[r].state # "absent"
    /\ \A m \in Nodes \ {n} : node'[m] = node[m]
    /\ Known(n) => /\ node'[n].status <=> node[n].status
                   /\ node'[n].session <=> node[n].session
                   /\ node[n].root = r /\ node[n].parent = p /\ node[n].state = "PENDING"
    /\ p # NoNode => p # n /\ node[p].state \in {"COMPLETED", "ERROR"}
    /\ \A m \in Members(r) : node[m].state # "IN_PROGRESS"

\* A prompt that is claimed, by an admission or as a successor, runs as the only one of
\* its tree.
LEMMA ClaimStarts ==
  ASSUME TreesInv, NEW r \in Nodes, NEW n \in Nodes, NEW k, NEW done,
         ClaimTaken(r, n, k, done), PromptTaken(r, n),
         tasks'[k].resume <=> node'[n].parent # NoNode /\ node[node'[n].parent].session,
         TreesTyped', TreesFit(node'), QueueIsPending', ParentsFirst'
  PROVE  TreesInv'
<1> USE NodesAssumption
<1>1. k \in Claims /\ 0 \notin Claims /\ k \notin done
  BY DEF Claims, ClaimTaken
<1>2. Working(k)' /\ ~Over(k)' /\ ~Working(k) /\ Over(k)
  BY <1>1 DEF ClaimTaken, Over, Working
<1>3. /\ \A d \in Claims \ {k} : tasks'[d] = IF d \in done THEN Gone ELSE tasks[d]
      /\ \A d \in done : active[r] = d
      /\ \A q \in Nodes : active'[q] = IF q = r THEN k ELSE active[q]
      /\ active[r] # 0 => active[r] \in done
      /\ done \in SUBSET Claims
      /\ tasks'[k].node = n /\ tasks'[k].root = r /\ tasks'[k].place \in {"fresh", "successor"}
  BY DEF ClaimTaken
<1>4. Gone.place = "gone"
  BY DEF Gone
<1>5. \A d \in Claims \ {k} :
         /\ ~Over(d)' => ~Over(d) /\ d \notin done /\ tasks'[d] = tasks[d]
         /\ Working(d)' => Working(d) /\ d \notin done /\ tasks'[d] = tasks[d]
         /\ d \notin done => tasks'[d] = tasks[d] /\ (Working(d)' <=> Working(d))
               /\ (Over(d)' <=> Over(d))
  BY <1>3, <1>4 DEF Over, Working
<1>6. /\ node'[n].state = "IN_PROGRESS" /\ node'[n].root = r /\ r \in Published'
      /\ \A m \in Nodes \ {n} : node'[m] = node[m]
      /\ \A m \in Members(r) : node[m].state # "IN_PROGRESS"
      /\ Known(n) => /\ node'[n].status <=> node[n].status
                     /\ node'[n].session <=> node[n].session
                     /\ node[n].root = r /\ node[n].state = "PENDING"
                     /\ node[n].parent = node'[n].parent
      /\ node'[n].parent # NoNode => node'[n].parent # n
            /\ node[node'[n].parent].state \in {"COMPLETED", "ERROR"}
  BY DEF PromptTaken, Published, Known
<1>7. ParentSettledFirst'
  <2> SUFFICES ASSUME NEW m \in Nodes, node'[m].state = "IN_PROGRESS", node'[m].parent # NoNode
               PROVE  node'[node'[m].parent].state \in {"COMPLETED", "ERROR"}
    BY DEF ParentSettledFirst
  <2>1. node'[m].parent \in Nodes
    BY DEF TreesFit, PromptFits
  <2>2. CASE m = n
    BY <1>6, <2>1, <2>2
  <2>3. CASE m # n
    <3>1. node'[m] = node[m]
      BY <1>6, <2>3
    <3>2. node[node[m].parent].state \in {"COMPLETED", "ERROR"}
      BY <3>1 DEF TreesInv, ParentSettledFirst
    <3>3. node[m].parent # n
      BY <1>6, <3>2 DEF Known
    <3> QED
      BY <1>6, <2>1, <3>1, <3>2, <3>3
  <2> QED
    BY <2>2, <2>3
<1>8. ActiveHasTask'
  <2>1. ASSUME NEW q \in Nodes, active'[q] # 0
        PROVE  q \in Published' /\ tasks'[active'[q]].root = q
           /\ tasks'[active'[q]].place \notin {"unclaimed", "gone"}
    <3>1. CASE q = r
      BY <1>3, <1>6, <3>1
    <3>2. CASE q # r
      <4>1. active'[q] = active[q]
        BY <1>3, <3>2
      <4>2. PICK d \in Claims : d = active[q] /\ d # 0
        BY <2>1, <4>1 DEF TreesInv, TreesTyped
      <4>3. q \in Published /\ tasks[d].root = q /\ ~Over(d)
        BY <4>2 DEF TreesInv, ActiveHasTask
      <4>4. d # k
        BY <1>2, <4>3
      <4>5. d \notin done
        <5> SUFFICES ASSUME d \in done PROVE FALSE
          OBVIOUS
        <5>1. active[r] = d /\ active[r] # 0
          BY <1>1, <1>3
        <5>2. tasks[d].root = r
          BY <5>1 DEF TreesInv, ActiveHasTask
        <5> QED
          BY <3>2, <4>3, <5>2
      <4>6. tasks'[d] = tasks[d]
        BY <1>5, <4>4, <4>5
      <4>7. q \in Published'
        <5>1. Known(q) /\ node[q].root = q
          BY <4>3 DEF Published
        <5>2. q # n
          BY <1>6, <3>2, <5>1
        <5> QED
          BY <1>6, <5>1, <5>2 DEF Published, Known
      <4> QED
        BY <4>1, <4>2, <4>3, <4>6, <4>7 DEF Over
    <3> QED
      BY <3>1, <3>2
  <2>2. ASSUME NEW q \in Nodes, active'[q] = 0,
        NEW m \in Nodes, node'[m].state # "absent", node'[m].root = q
        PROVE  node'[m].state \notin Runnable
    <3>1. q # r /\ active[q] = 0
      BY <1>1, <1>3, <2>2
    <3>2. m # n /\ node'[m] = node[m]
      BY <1>6, <2>2, <3>1
    <3> QED
      BY <2>2, <3>1, <3>2 DEF TreesInv, ActiveHasTask, Members, Known
  <2> QED
    BY <2>1, <2>2 DEF ActiveHasTask, Members, Known, Over
<1>9. OneRunnerPerTree'
  <2>1. ASSUME NEW d \in Claims, Working(d)' PROVE active'[tasks'[d].root] = d
    <3>1. CASE d = k
      BY <1>3, <3>1
    <3>2. CASE d # k
      <4>1. Working(d) /\ d \notin done /\ tasks'[d] = tasks[d]
        BY <1>5, <2>1, <3>2
      <4>2. active[tasks[d].root] = d /\ tasks[d].root \in Nodes
        BY <4>1 DEF TreesInv, OneRunnerPerTree, ClaimsFit, Working
      <4>3. tasks[d].root # r
        BY <1>1, <1>3, <4>1, <4>2
      <4> QED
        BY <1>3, <4>1, <4>2, <4>3
    <3> QED
      BY <3>1, <3>2
  <2>2. ASSUME NEW m \in Nodes, node'[m].state = "IN_PROGRESS"
        PROVE  \E d \in Claims : /\ tasks'[d].node = m /\ tasks'[d].root = node'[m].root
                                 /\ Working(d)' /\ tasks'[d].place # "finishing"
    <3>1. CASE m = n
      BY <1>1, <1>2, <1>3, <1>6, <3>1
    <3>2. CASE m # n
      <4>1. node'[m] = node[m]
        BY <1>6, <3>2
      <4>2. PICK d \in Claims : /\ tasks[d].node = m /\ tasks[d].root = node[m].root
                                /\ Working(d) /\ tasks[d].place # "finishing"
        BY <2>2, <4>1 DEF TreesInv, OneRunnerPerTree
      <4>3. d # k
        BY <1>2, <4>2
      <4>4. d \notin done
        <5> SUFFICES ASSUME d \in done PROVE FALSE
          OBVIOUS
        <5>1. active[r] = d /\ active[r] # 0
          BY <1>1, <1>3
        <5>2. tasks[d].root = r
          BY <5>1 DEF TreesInv, ActiveHasTask
        <5>3. m \in Members(r)
          BY <2>2, <4>1, <4>2, <5>2 DEF Members, Known
        <5> QED
          BY <1>6, <2>2, <4>1, <5>3
      <4> QED
        BY <1>5, <4>1, <4>2, <4>3, <4>4
    <3> QED
      BY <3>1, <3>2
  <2> QED
    BY <2>1, <2>2 DEF OneRunnerPerTree
<1>10. ClaimsFit'
  <2>1. ASSUME NEW d \in Claims, ~Over(d)' PROVE tasks'[d].root \in Nodes
    <3>1. CASE d = k
      BY <1>3, <3>1
    <3>2. CASE d # k
      BY <1>5, <2>1, <3>2 DEF TreesInv, ClaimsFit
    <3> QED
      BY <3>1, <3>2
  <2>2. ASSUME NEW d \in Claims, Working(d)'
        PROVE  tasks'[d].node \in Nodes /\ node'[tasks'[d].node].state # "absent"
           /\ node'[tasks'[d].node].root = tasks'[d].root
    <3>1. CASE d = k
      BY <1>3, <1>6, <3>1
    <3>2. CASE d # k
      <4>1. Working(d) /\ tasks'[d] = tasks[d]
        BY <1>5, <2>2, <3>2
      <4>2. tasks[d].node \in Nodes /\ Known(tasks[d].node)
               /\ node[tasks[d].node].root = tasks[d].root
        BY <4>1 DEF TreesInv, ClaimsFit
      <4>3. CASE tasks[d].node = n
        BY <1>6, <4>1, <4>2, <4>3
      <4>4. CASE tasks[d].node # n
        BY <1>6, <4>1, <4>2, <4>4 DEF Known
      <4> QED
        BY <4>3, <4>4
    <3> QED
      BY <3>1, <3>2
  <2> QED
    BY <2>1, <2>2 DEF ClaimsFit, Known
<1>11. ResumeMatchesParent'
  <2> SUFFICES ASSUME NEW d \in Claims, NEW m, m = tasks'[d].node, NEW p, p = node'[m].parent,
                      Working(d)', p # NoNode, node'[p].status
               PROVE  tasks'[d].resume <=> node'[p].session
    BY DEF ResumeMatchesParent
  <2>1. CASE d = k
    <3>1. m = n
      BY <1>3, <2>1
    <3>2. p # n /\ p \in Nodes
      BY <1>6, <3>1 DEF TreesFit, PromptFits
    <3>3. node'[p] = node[p]
      BY <1>6, <3>2
    <3> QED
      BY <2>1, <3>1, <3>3
  <2>2. CASE d # k
    <3>1. Working(d) /\ tasks'[d] = tasks[d]
      BY <1>5, <2>2
    <3>2. m \in Nodes /\ Known(m)
      BY <3>1 DEF TreesInv, ClaimsFit
    <3>3. node[m].parent = p
      BY <1>6, <3>2
    <3>4. p \in Nodes /\ Known(p)
      BY <3>2, <3>3 DEF TreesInv, TreesFit, PromptFits, Known
    <3>5. (node'[p].status <=> node[p].status) /\ (node'[p].session <=> node[p].session)
      BY <1>6, <3>4
    <3> QED
      BY <3>1, <3>3, <3>5 DEF TreesInv, ResumeMatchesParent
  <2> QED
    BY <2>1, <2>2
<1> QED
  BY <1>7, <1>8, <1>9, <1>10, <1>11 DEF TreesInv

\* What is left of a queue after its first.
LEMMA TailOf ==
  ASSUME NEW S, NEW q \in Seq(S), IsInjective(q), Len(q) > 0
  PROVE  LET f == SubSeq(q, 2, Len(q))
         IN  /\ f \in Seq(S) /\ IsInjective(f) /\ ToSet(f) = ToSet(q) \ {q[1]}
             /\ InOrderOf(f, q)
<1> DEFINE n == Len(q)
           f == SubSeq(q, 2, n)
<1>1. n \in Nat /\ n > 0 /\ DOMAIN q = 1..n /\ \A i \in 2..n : q[i] \in S
  OBVIOUS
<1>2. f \in Seq(S) /\ Len(f) = n - 1 /\ \A i \in 1..n - 1 : f[i] = q[i + 1]
  <2>1. 2 \in Int /\ n \in Int
    BY <1>1
  <2>2. /\ SubSeq(q, 2, n) \in Seq(S)
        /\ Len(SubSeq(q, 2, n)) = IF 2 <= n THEN n - 2 + 1 ELSE 0
        /\ \A i \in 1..n - 2 + 1 : SubSeq(q, 2, n)[i] = q[2 + i - 1]
    BY <1>1, <2>1, SubSeqProperties
  <2>3. (IF 2 <= n THEN n - 2 + 1 ELSE 0) = n - 1 /\ n - 2 + 1 = n - 1
    <3> HIDE DEF n
    <3> QED
      BY <1>1
  <2>4. \A i \in 1..n - 1 : 2 + i - 1 = i + 1
    OBVIOUS
  <2> QED
    BY <2>2, <2>3, <2>4
<1>3. DOMAIN f = 1..n - 1
  BY <1>2
<1> HIDE DEF f
<1>4. \A i \in DOMAIN f : i + 1 \in DOMAIN q /\ f[i] = q[i + 1] /\ i + 1 # 1 /\ i \in Nat
  BY <1>1, <1>2, <1>3
<1>5. 1 \in DOMAIN q /\ \A j \in DOMAIN q : j # 1 => j - 1 \in DOMAIN f /\ f[j - 1] = q[j]
  <2>1. \A j \in DOMAIN q : j # 1 => j - 1 \in 1..n - 1 /\ j - 1 + 1 = j
    BY <1>1
  <2> QED
    BY <1>1, <1>2, <1>3, <2>1
<1>6. ToSet(f) = ToSet(q) \ {q[1]}
  <2>1. ASSUME NEW i \in DOMAIN f PROVE f[i] \in ToSet(q) \ {q[1]}
    <3>1. f[i] = q[i + 1] /\ i + 1 \in DOMAIN q /\ i + 1 # 1
      BY <1>4
    <3>2. q[i + 1] # q[1]
      BY <1>5, <3>1 DEF IsInjective
    <3> QED
      BY <3>1, <3>2 DEF ToSet
  <2>2. ASSUME NEW j \in DOMAIN q, q[j] # q[1] PROVE q[j] \in ToSet(f)
    <3>1. j # 1
      BY <2>2
    <3>2. j - 1 \in DOMAIN f /\ f[j - 1] = q[j]
      BY <1>5, <3>1
    <3> QED
      BY <3>2 DEF ToSet
  <2> QED
    BY <2>1, <2>2 DEF ToSet
<1>7. IsInjective(f)
  <2> SUFFICES ASSUME NEW i \in DOMAIN f, NEW j \in DOMAIN f, f[i] = f[j] PROVE i = j
    BY DEF IsInjective
  <2>1. i + 1 = j + 1
    BY <1>4 DEF IsInjective
  <2> QED
    BY <1>4, <2>1
<1>8. InOrderOf(f, q)
  <2> SUFFICES ASSUME NEW i \in DOMAIN f, NEW j \in DOMAIN f, i < j
               PROVE  \E k, l \in DOMAIN q : k < l /\ f[i] = q[k] /\ f[j] = q[l]
    BY DEF InOrderOf
  <2>1. i + 1 < j + 1
    BY <1>4
  <2> QED
    BY <1>4, <2>1
<1> QED
  BY <1>2, <1>6, <1>7, <1>8 DEF f

\* A reply, or a new root, fits.
LEMMA LeafFits ==
  ASSUME NEW nodes, NEW nodes2, TreesFit(nodes), NEW n \in Nodes, nodes[n].state = "absent",
         NEW r \in Nodes, NEW p, \A m \in Nodes \ {n} : nodes2[m] = nodes[m],
         nodes2[n].state # "absent", nodes2[n].root = r, nodes2[n].parent = p, nodes2[n].status,
         IF p = NoNode THEN r = n
         ELSE /\ p \in Nodes /\ nodes[p].state # "absent" /\ nodes[p].root = r
              /\ nodes2[n].viaStatus => nodes[p].status
  PROVE  TreesFit(nodes2)
<1> USE NodesAssumption
<1>1. \A m \in Nodes : nodes[m].state # "absent" => m # n /\ nodes2[m] = nodes[m]
  OBVIOUS
<1>2. \A m \in Nodes : nodes[m].state # "absent" =>
         /\ nodes[m].root \in Nodes /\ nodes[nodes[m].root].state # "absent"
         /\ nodes[m].parent # NoNode => nodes[m].parent \in Nodes
               /\ nodes[nodes[m].parent].state # "absent"
  BY DEF TreesFit, PromptFits
<1>3. p # NoNode => p # n /\ r # n /\ nodes[r].state # "absent" /\ nodes[r].root = r
  BY <1>1 DEF TreesFit, PromptFits
<1>4. ASSUME NEW m \in Nodes PROVE PromptFits(nodes2, m)
  <2>1. CASE m = n
    <3>1. CASE p = NoNode
      BY <2>1, <3>1 DEF PromptFits
    <3>2. CASE p # NoNode
      BY <1>1, <1>3, <2>1, <3>2 DEF PromptFits
    <3> QED
      BY <3>1, <3>2
  <2>2. CASE m # n
    <3>1. nodes2[m] = nodes[m]
      BY <2>2
    <3>2. PromptFits(nodes, m)
      BY DEF TreesFit
    <3> QED
      BY <1>1, <1>2, <3>1, <3>2 DEF PromptFits
  <2> QED
    BY <2>1, <2>2
<1>5. Hangs(nodes2)
  <2> SUFFICES ASSUME NEW t \in SUBSET Nodes,
                      \A m \in Nodes : nodes2[m].state # "absent"
                         /\ (nodes2[m].parent \in t \/ nodes2[m].root = m) => m \in t
               PROVE  \A m \in Nodes : nodes2[m].state # "absent" => m \in t
    BY DEF Hangs
  <2>1. \A m \in Nodes : nodes[m].state # "absent" /\ (nodes[m].parent \in t \/ nodes[m].root = m)
           => m \in t
    BY <1>1
  <2>2. \A m \in Nodes : nodes[m].state # "absent" => m \in t
    BY <2>1 DEF TreesFit, Hangs
  <2>3. n \in t
    BY <2>2
  <2> QED
    BY <2>2, <2>3
<1> QED
  BY <1>4, <1>5 DEF TreesFit

\* The new claim k of n has a task of its own; the claims of done go.
Launched(nodes, r, n, k, where, done) ==
    [d \in Claims |-> IF d = k THEN NewTask(nodes, r, n, where)
                      ELSE IF d \in done THEN Gone ELSE tasks[d]]

\* What the tasks are then.
TaskTaken(nodes, r, n, k, done) ==
    /\ \A d \in Claims \ {k} : tasks'[d] = IF d \in done THEN Gone ELSE tasks[d]
    /\ tasks'[k].node = n /\ tasks'[k].root = r /\ ~tasks'[k].cancelled
    /\ tasks'[k].place \in {"fresh", "successor"}
    /\ tasks'[k].resume <=> nodes[n].parent # NoNode /\ nodes[nodes[n].parent].session

\* The task of a new claim, and those of the claims that are done.
LEMMA TaskStarts ==
  ASSUME TreesTyped, NEW nodes \in [Nodes -> NodeRecord], NEW r \in Nodes, NEW n \in Nodes,
         NEW k \in Claims,
         NEW where \in {"fresh", "successor"}, NEW done \in SUBSET Claims, k \notin done,
         nodes[n].parent \in Nodes \cup {NoNode},
         tasks' = Launched(nodes, r, n, k, where, done)
  PROVE  tasks' \in [Claims -> TaskRecord] /\ TaskTaken(nodes, r, n, k, done)
<1>1. tasks \in [Claims -> TaskRecord]
  BY DEF TreesTyped
<1> DEFINE new == NewTask(nodes, r, n, where)
<1>2. /\ new.node = n /\ new.root = r /\ new.cancelled = FALSE /\ new.place = where
      /\ new.resume = (nodes[n].parent # NoNode /\ nodes[nodes[n].parent].session)
  BY DEF NewTask
<1>3. new \in TaskRecord
  BY DEF NewTask, TaskRecord, Places
<1>4. Gone \in TaskRecord
  BY DEF Gone, TaskRecord, Places
<1> HIDE DEF new
<1>5. tasks' = [d \in Claims |-> IF d = k THEN new ELSE IF d \in done THEN Gone ELSE tasks[d]]
  BY DEF Launched, new
<1>6. tasks' \in [Claims -> TaskRecord]
  BY <1>1, <1>3, <1>4, <1>5
<1>7. tasks'[k] = new /\ \A d \in Claims \ {k} : tasks'[d] = IF d \in done THEN Gone ELSE tasks[d]
  BY <1>5
<1> QED
  BY <1>2, <1>6, <1>7 DEF TaskTaken

\* The oldest prompt of the queue is the successor, and what it replies to has settled.
LEMMA SuccessorFits ==
  ASSUME TreesInv, NEW c \in Claims, tasks[c].place = "finishing", NEW r \in Nodes, active[r] = c,
         NEW i \in Successors(r), NEW n, n = queue[r][i]
  PROVE  /\ i = 1 /\ Len(queue[r]) > 0
         /\ n \in Nodes /\ Known(n) /\ node[n].root = r /\ node[n].state = "PENDING"
         /\ \A m \in Members(r) : node[m].state # "IN_PROGRESS"
         /\ node[n].parent # NoNode => node[n].parent # n
               /\ node[node[n].parent].state \in {"COMPLETED", "ERROR"}
<1> USE NodesAssumption
<1>2. queue[r] \in Seq(Nodes) /\ IsInjective(queue[r])
         /\ ToSet(queue[r]) = {m \in Members(r) : node[m].state = "PENDING"}
  BY DEF TreesInv, TreesTyped, QueueIsPending
<1>3. i = 1 /\ 1 \in DOMAIN queue[r] /\ Len(queue[r]) > 0
  <2>1. i \in 1..Len(queue[r]) /\ \A j \in 1..i - 1 : node[queue[r][j]].state # "PENDING"
    BY DEF Successors
  <2>2. 1 \in DOMAIN queue[r] /\ Len(queue[r]) > 0
    BY <1>2, <2>1
  <2>3. node[queue[r][1]].state = "PENDING"
    BY <1>2, <2>2 DEF ToSet
  <2>4. 1 \notin 1..i - 1
    BY <2>1, <2>3
  <2> QED
    BY <2>1, <2>2, <2>4
<1>4. n \in Nodes /\ Known(n) /\ node[n].root = r /\ node[n].state = "PENDING" /\ n = queue[r][1]
  BY <1>2, <1>3 DEF ToSet, Members
<1>5. \A m \in Members(r) : node[m].state # "IN_PROGRESS"
  <2> SUFFICES ASSUME NEW m \in Members(r), node[m].state = "IN_PROGRESS" PROVE FALSE
    OBVIOUS
  <2>1. PICK d \in Claims : tasks[d].root = r /\ Working(d) /\ tasks[d].place # "finishing"
    BY DEF TreesInv, OneRunnerPerTree, Members
  <2>2. d = c
    BY <2>1 DEF TreesInv, OneRunnerPerTree
  <2> QED
    BY <2>1, <2>2
<1>6. node[n].parent # NoNode => node[n].parent # n
         /\ node[node[n].parent].state \in {"COMPLETED", "ERROR"}
  <2> SUFFICES ASSUME NEW p, p = node[n].parent, p # NoNode
               PROVE p # n /\ node[p].state \in {"COMPLETED", "ERROR"}
    OBVIOUS
  <2>1. p # n /\ p \in Members(r)
    BY <1>4 DEF TreesInv, TreesFit, PromptFits, Known, Members
  <2>2. node[p].state # "PENDING"
    <3> SUFFICES ASSUME node[p].state = "PENDING" PROVE FALSE
      OBVIOUS
    <3>1. p \in ToSet(queue[r])
      BY <1>2, <2>1
    <3>2. PICK j \in DOMAIN queue[r] : queue[r][j] = p
      BY <3>1 DEF ToSet
    <3>3. 1 < j
      BY <1>2, <1>4, <2>1, <3>2
    <3> QED
      BY <1>3, <1>4, <3>2, <3>3 DEF TreesInv, ParentsFirst
  <2>3. node[p].state \in {"absent", "PENDING", "IN_PROGRESS", "COMPLETED", "ERROR"}
    BY <2>1 DEF TreesInv, TreesTyped, NodeRecord, Members
  <2> QED
    BY <1>5, <2>1, <2>2, <2>3 DEF Members, Known
<1> QED
  BY <1>3, <1>4, <1>5, <1>6

\* The queue without its first, which runs now.
LEMMA QueueAdvances ==
  ASSUME TreesInv, NEW r \in Nodes, NEW n \in Members(r), NEW f \in Seq(Nodes), IsInjective(f),
         ToSet(f) = ToSet(queue[r]) \ {n}, InOrderOf(f, queue[r]), queue' = [queue EXCEPT ![r] = f],
         \A m \in Nodes : /\ node'[m].state = IF m = n THEN "IN_PROGRESS" ELSE node[m].state
                          /\ node'[m].root = node[m].root /\ node'[m].parent = node[m].parent
  PROVE  queue' \in [Nodes -> Seq(Nodes)] /\ QueueIsPending' /\ ParentsFirst'
<1>1. queue \in [Nodes -> Seq(Nodes)]
  BY DEF TreesInv, TreesTyped
<1>2. queue' \in [Nodes -> Seq(Nodes)] /\ queue'[r] = f /\ \A q \in Nodes : q # r
         => queue'[q] = queue[q]
  BY <1>1
<1>3. QueueIsPending'
  <2>1. ASSUME NEW q \in Nodes
        PROVE  ToSet(queue'[q]) = {m \in Nodes : node'[m].state # "absent" /\ node'[m].root = q
           /\ node'[m].state = "PENDING"}
               /\ IsInjective(queue'[q])
    <3>1. ToSet(queue[q]) = {m \in Members(q) : node[m].state = "PENDING"} /\ IsInjective(queue[q])
      BY DEF TreesInv, QueueIsPending
    <3>2. \A m \in Nodes : node'[m].root = q /\ node'[m].state = "PENDING"
                           <=> m # n /\ node[m].root = q /\ node[m].state = "PENDING"
      OBVIOUS
    <3>3. CASE q = r
      BY <1>2, <3>1, <3>2, <3>3 DEF Members, Known
    <3>4. CASE q # r
      <4>1. n \notin Members(q)
        BY <3>4 DEF Members
      <4> QED
        BY <1>2, <3>1, <3>2, <3>4, <4>1 DEF Members, Known
    <3> QED
      BY <3>3, <3>4
  <2> QED
    BY <2>1 DEF QueueIsPending, Members, Known
<1>4. ParentsFirst'
  <2> SUFFICES ASSUME NEW q \in Nodes, NEW x \in DOMAIN queue'[q], NEW y \in DOMAIN queue'[q], x < y,
                      node'[queue'[q][x]].parent = queue'[q][y]
               PROVE  FALSE
    BY DEF ParentsFirst
  <2>1. queue'[q][x] \in Nodes
    <3>1. queue'[q] \in Seq(Nodes)
      BY <1>2
    <3> QED
      BY <3>1
  <2>2. node'[queue'[q][x]].parent = node[queue'[q][x]].parent
    BY <2>1
  <2>3. InOrderOf(queue'[q], queue[q])
    <3>1. InOrderOf(queue[q], queue[q])
      BY DEF InOrderOf
    <3> QED
      BY <1>2, <3>1
  <2>4. PICK u, v \in DOMAIN queue[q] : u < v /\ queue'[q][x] = queue[q][u]
                /\ queue'[q][y] = queue[q][v]
    BY <2>3 DEF InOrderOf
  <2> QED
    BY <2>2, <2>4 DEF TreesInv, ParentsFirst
<1> QED
  BY <1>2, <1>3, <1>4

\* The prompt m keeps its place and status message and does not become runnable.
Stands(nodes, nodes2, m) ==
    IF nodes[m].state = "absent" THEN nodes2[m] = nodes[m]
    ELSE /\ nodes2[m].root = nodes[m].root /\ nodes2[m].parent = nodes[m].parent
         /\ nodes2[m].viaStatus <=> nodes[m].viaStatus
         /\ nodes2[m].state # "absent"
         /\ nodes2[m].state \in Runnable => nodes[m].state \in Runnable
         /\ nodes2[m].status <=> nodes[m].status

\* Only the states of the prompts and their sessions change.
LEMMA TreesStay ==
  ASSUME NEW nodes, NEW nodes2, TreesFit(nodes), \A m \in Nodes : Stands(nodes, nodes2, m)
  PROVE  TreesFit(nodes2)
<1> DEFINE R == {}
<1>1. /\ R \in SUBSET Nodes /\ \A m \in R : nodes2[m] = Blank
      /\ \A m \in Nodes : nodes[m].state # "absent" /\ nodes[m].parent \in R => m \in R
  OBVIOUS
<1> HIDE DEF R
<1>2. ASSUME NEW m \in Nodes \ R
      PROVE  IF nodes[m].state = "absent" THEN nodes2[m] = nodes[m]
             ELSE /\ nodes2[m].root = nodes[m].root /\ nodes2[m].parent = nodes[m].parent
                  /\ nodes2[m].viaStatus <=> nodes[m].viaStatus
                  /\ nodes2[m].state # "absent"
                  /\ nodes2[m].state \in Runnable => nodes[m].state \in Runnable
                  /\ \/ nodes2[m].status <=> nodes[m].status
                     \/ /\ nodes2[m].state \notin Runnable
                        /\ \A k \in Nodes \ R : nodes[k].state # "absent" /\ nodes[k].parent = m
                              => ~nodes[k].viaStatus
  BY DEF Stands
<1> QED
  BY <1>1, <1>2, TreesStand

\* A pending prompt that runs still fits.
LEMMA PromptRuns ==
  ASSUME TreesInv, NEW n \in Nodes, node[n].state = "PENDING", node' = WithState({n}, "IN_PROGRESS")
  PROVE  /\ node' \in [Nodes -> NodeRecord] /\ TreesFit(node')
         /\ \A m \in Nodes : /\ m # n => node'[m] = node[m]
                             /\ node'[m].state = IF m = n THEN "IN_PROGRESS" ELSE node[m].state
                             /\ node'[m].root = node[m].root /\ node'[m].parent = node[m].parent
                             /\ node'[m].viaStatus = node[m].viaStatus
                             /\ node'[m].status = node[m].status
                             /\ node'[m].session = node[m].session
<1> USE NodesAssumption
<1>1. TreesTyped
  BY DEF TreesInv
<1>2. /\ node' \in [Nodes -> NodeRecord]
      /\ \A m \in Nodes : /\ m # n => node'[m] = node[m]
                          /\ node'[m].state = IF m = n THEN "IN_PROGRESS" ELSE node[m].state
                          /\ node'[m].root = node[m].root /\ node'[m].parent = node[m].parent
                          /\ node'[m].viaStatus = node[m].viaStatus
                          /\ node'[m].status = node[m].status
                          /\ node'[m].session = node[m].session
  <2>1. /\ node' \in [Nodes -> NodeRecord]
        /\ \A m \in Nodes : /\ m \notin {n} => node'[m] = node[m]
                            /\ node'[m].state = IF m \in {n} THEN "IN_PROGRESS" ELSE node[m].state
                            /\ node'[m].root = node[m].root /\ node'[m].parent = node[m].parent
                            /\ node'[m].viaStatus = node[m].viaStatus
                            /\ node'[m].status = node[m].status
                            /\ node'[m].session = node[m].session
    BY <1>1, StatesChange
  <2> QED
    BY <2>1
<1>3. TreesFit(node')
  <2>1. TreesFit(node)
    BY DEF TreesInv
  <2>2. \A m \in Nodes : Stands(node, node', m)
    BY <1>2 DEF Runnable, Stands
  <2> QED
    BY <2>1, <2>2, TreesStay
<1> QED
  BY <1>2, <1>3

\* The task of a successor.
LEMMA SuccessorTask ==
  ASSUME TreesTyped, NEW c \in Claims, NEW r \in Nodes, NEW n \in Nodes, NEW k \in Claims, k # c,
         NEW done, done = {c}, tasks' = Launched(node, r, n, k, "successor", done)
  PROVE  tasks' \in [Claims -> TaskRecord] /\ TaskTaken(node, r, n, k, done)
<1>1. node \in [Nodes -> NodeRecord] /\ done \in SUBSET Claims /\ k \notin done
  BY DEF TreesTyped
<1>2. node[n].parent \in Nodes \cup {NoNode}
  BY <1>1 DEF NodeRecord
<1>3. "successor" \in {"fresh", "successor"}
  OBVIOUS
<1> QED
  BY <1>1, <1>2, <1>3, TaskStarts

\* The successor of c is claimed.
LEMMA SuccessorStarts ==
  ASSUME TreesInv, NEW c \in Claims, tasks[c].place = "finishing", NEW r \in Nodes, active[r] = c,
         NEW n, n \in Nodes /\ Known(n) /\ node[n].root = r /\ node[n].state = "PENDING",
         \A m \in Members(r) : node[m].state # "IN_PROGRESS",
         node[n].parent # NoNode => node[n].parent # n
            /\ node[node[n].parent].state \in {"COMPLETED", "ERROR"},
         NEW k \in Claims, tasks[k].place = "unclaimed", NEW done, done = {c},
         node' = WithState({n}, "IN_PROGRESS"), tasks' = Launched(node, r, n, k, "successor", done),
         active' = [active EXCEPT ![r] = k],
         queue' \in [Nodes -> Seq(Nodes)], QueueIsPending', ParentsFirst'
  PROVE  TreesInv'
<1> USE NodesAssumption
<1>1. k # c /\ 0 \notin Claims /\ TreesTyped
  BY DEF Claims, TreesInv
<1>2. /\ node' \in [Nodes -> NodeRecord] /\ TreesFit(node')
      /\ \A m \in Nodes : /\ m # n => node'[m] = node[m]
                          /\ node'[m].state = IF m = n THEN "IN_PROGRESS" ELSE node[m].state
                          /\ node'[m].root = node[m].root /\ node'[m].parent = node[m].parent
                          /\ node'[m].viaStatus = node[m].viaStatus
                          /\ node'[m].status = node[m].status
                          /\ node'[m].session = node[m].session
  BY PromptRuns
<1>3. tasks' \in [Claims -> TaskRecord] /\ TaskTaken(node, r, n, k, done)
  BY <1>1, SuccessorTask
<1>4. /\ tasks' \in [Claims -> TaskRecord]
      /\ \A d \in Claims \ {k} : tasks'[d] = IF d \in done THEN Gone ELSE tasks[d]
      /\ tasks'[k].node = n /\ tasks'[k].root = r /\ ~tasks'[k].cancelled
      /\ tasks'[k].place \in {"fresh", "successor"}
      /\ tasks'[k].resume <=> node[n].parent # NoNode /\ node[node[n].parent].session
  BY <1>3 DEF TaskTaken
<1>5. active' \in [Nodes -> Claims \cup {0}] /\ \A q \in Nodes : active'[q] = IF q = r THEN k
         ELSE active[q]
  BY <1>1 DEF TreesTyped
<1>6. ClaimTaken(r, n, k, done)
  BY <1>1, <1>4, <1>5 DEF ClaimTaken
<1>7. PromptTaken(r, n)
  <2>1. node'[n].state = "IN_PROGRESS" /\ node'[n].root = r /\ node'[n].parent = node[n].parent
    BY <1>2
  <2>2. node[r].root = r /\ node[r].state # "absent"
    BY DEF TreesInv, TreesFit, PromptFits, Known
  <2>3. node'[r].root = r /\ node'[r].state # "absent"
    BY <1>2, <2>2
  <2> QED
    BY <1>2, <2>1, <2>3 DEF PromptTaken
<1>8. TreesTyped'
  BY <1>2, <1>4, <1>5 DEF TreesTyped
<1>9. tasks'[k].resume <=> node'[n].parent # NoNode /\ node[node'[n].parent].session
  BY <1>2, <1>4
<1> QED
  BY <1>2, <1>6, <1>7, <1>8, <1>9, ClaimStarts

\* A claim is released: it is a stranger, or the tree rests, or the next prompt starts.
LEMMA RunFinishes == ASSUME TreesInv, NEW c \in Claims, Finish(c) PROVE TreesInv'
<1> DEFINE r == tasks[c].root
<1>1. tasks[c].place = "finishing" /\ ~Over(c)
  BY DEF Finish, Over
<1>2. CASE ~OwnsTree(c) /\ tasks' = Released(c) /\ UNCHANGED <<node, queue, active>>
  BY <1>2, StrangerGoes
<1>3. CASE /\ OwnsTree(c) /\ Successors(r) = {}
           /\ tasks' = Released(c) /\ active' = [active EXCEPT ![r] = 0]
           /\ queue' = [queue EXCEPT ![r] = <<>>] /\ UNCHANGED node
  BY <1>1, <1>3, TreeRests
<1>4. ASSUME NEW i \in Successors(r), OwnsTree(c),
             node' = [node EXCEPT ![queue[r][i]].state = "IN_PROGRESS"],
             Unclaimed # {},
             tasks' = [Released(c) EXCEPT ![NextClaim] = NewTask(node, r, queue[r][i], "successor")],
             active' = [active EXCEPT ![r] = NextClaim],
             queue' = [queue EXCEPT ![r] = SubSeq(@, i + 1, Len(@))]
      PROVE  TreesInv'
  <2>1. PICK k \in Unclaimed : k = NextClaim
    BY <1>4 DEF NextClaim
  <2>2. k \in Claims /\ k # c /\ tasks \in [Claims -> TaskRecord] /\ node \in [Nodes -> NodeRecord]
    BY <1>1 DEF Unclaimed, TreesInv, TreesTyped
  <2>3. tasks' = Launched(node, r, queue[r][i], k, "successor", {c})
    <3> DEFINE new == NewTask(node, r, queue[r][i], "successor")
    <3>1. tasks' = [[tasks EXCEPT ![c] = Gone] EXCEPT ![k] = new]
      BY <1>4, <2>1 DEF Released
    <3> HIDE DEF new
    <3>2. tasks' = [d \in Claims |-> IF d = k THEN new ELSE IF d \in {c} THEN Gone ELSE tasks[d]]
      BY <2>2, <3>1
    <3> QED
      BY <3>2 DEF Launched, new
  <2>4. node' = WithState({queue[r][i]}, "IN_PROGRESS")
    <3> DEFINE n == queue[r][i]
    <3>1. node' = [node EXCEPT ![n].state = "IN_PROGRESS"]
      BY <1>4
    <3> HIDE DEF n
    <3>2. node' = WithState({n}, "IN_PROGRESS")
      BY <2>2, <3>1 DEF WithState
    <3> QED
      BY <3>2 DEF n
  <2>5. active' = [active EXCEPT ![r] = k] /\ r \in Nodes /\ active[r] = c
    BY <1>1, <1>4, <2>1 DEF OwnsTree, TreesInv, ClaimsFit
  <2> DEFINE n == queue[r][i]
             f == SubSeq(queue[r], 2, Len(queue[r]))
  <2>6. /\ i = 1 /\ Len(queue[r]) > 0
        /\ n \in Nodes /\ Known(n) /\ node[n].root = r /\ node[n].state = "PENDING"
        /\ \A m \in Members(r) : node[m].state # "IN_PROGRESS"
        /\ node[n].parent # NoNode => node[n].parent # n
              /\ node[node[n].parent].state \in {"COMPLETED", "ERROR"}
    BY SMTT(40), <1>1, <2>5, SuccessorFits
  <2>7. queue[r] \in Seq(Nodes) /\ IsInjective(queue[r])
    BY <2>5 DEF TreesInv, TreesTyped, QueueIsPending
  <2>8. f \in Seq(Nodes) /\ IsInjective(f) /\ ToSet(f) = ToSet(queue[r]) \ {n}
           /\ InOrderOf(f, queue[r])
    BY <2>6, <2>7, TailOf
  <2>9. queue' = [queue EXCEPT ![r] = f]
    <3>1. i + 1 = 2
      BY <2>6
    <3>2. queue' = [queue EXCEPT ![r] = SubSeq(queue[r], i + 1, Len(queue[r]))]
      BY <1>4
    <3> QED
      BY <3>1, <3>2
  <2> HIDE DEF n, f, r
  <2>10. \A m \in Nodes : /\ node'[m].state = IF m = n THEN "IN_PROGRESS" ELSE node[m].state
                          /\ node'[m].root = node[m].root /\ node'[m].parent = node[m].parent
    <3>1. TreesTyped /\ node' = WithState({n}, "IN_PROGRESS")
      BY <2>4 DEF TreesInv, n
    <3>2. \A m \in Nodes : /\ node'[m].state = IF m \in {n} THEN "IN_PROGRESS" ELSE node[m].state
                           /\ node'[m].root = node[m].root /\ node'[m].parent = node[m].parent
      BY ZenonT(60), <3>1, StatesChange
    <3> QED
      BY <3>2
  <2>11. queue' \in [Nodes -> Seq(Nodes)] /\ QueueIsPending' /\ ParentsFirst'
    <3>1. n \in Members(r)
      BY <2>6 DEF Members
    <3> QED
      BY <2>5, <2>8, <2>9, <2>10, <3>1, QueueAdvances
  <2>12. /\ node' = WithState({n}, "IN_PROGRESS")
               /\ tasks' = Launched(node, r, n, k, "successor", {c})
         /\ tasks[c].place = "finishing" /\ tasks[k].place = "unclaimed"
    BY <1>1, <2>1, <2>3, <2>4 DEF Unclaimed, n
  <2> QED
    BY <2>2, <2>5, <2>6, <2>11, <2>12, SuccessorStarts
<1> QED
  BY <1>2, <1>3, <1>4 DEF Finish, Released

-----------------------------------------------------------------------------
(* Admissions. *)

\* A queue and one more.
LEMMA AppendTo ==
  ASSUME NEW S, NEW q \in Seq(S), IsInjective(q), NEW e \in S, e \notin ToSet(q)
  PROVE  LET f == Append(q, e)
         IN  /\ f \in Seq(S) /\ IsInjective(f) /\ ToSet(f) = ToSet(q) \cup {e}
             /\ \A i, j \in DOMAIN f : i < j => i \in DOMAIN q /\ f[i] = q[i]
                   /\ ((j \in DOMAIN q /\ f[j] = q[j]) \/ f[j] = e)
<1> DEFINE f == Append(q, e)
           n == Len(q)
<1>1. n \in Nat /\ DOMAIN q = 1..n /\ f \in Seq(S) /\ Len(f) = n + 1 /\ DOMAIN f = 1..n + 1
      /\ f[n + 1] = e /\ \A i \in 1..n : f[i] = q[i]
  OBVIOUS
<1> HIDE DEF f, n
<1>2. /\ \A i \in DOMAIN f : (i \in DOMAIN q /\ f[i] = q[i]) \/ (i = n + 1 /\ f[i] = e)
      /\ \A i \in DOMAIN q : i \in DOMAIN f /\ f[i] = q[i]
      /\ n + 1 \in DOMAIN f /\ n + 1 \notin DOMAIN q
  BY <1>1
<1>3. ToSet(f) = ToSet(q) \cup {e}
  BY <1>1, <1>2 DEF ToSet
<1>4. IsInjective(f)
  <2> SUFFICES ASSUME NEW i \in DOMAIN f, NEW j \in DOMAIN f, f[i] = f[j] PROVE i = j
    BY DEF IsInjective
  <2>1. \A x \in DOMAIN q : q[x] # e
    BY DEF ToSet
  <2> QED
    BY <1>2, <2>1 DEF IsInjective
<1>5. \A i, j \in DOMAIN f : i < j => i \in DOMAIN q /\ f[i] = q[i]
         /\ ((j \in DOMAIN q /\ f[j] = q[j]) \/ f[j] = e)
  <2> SUFFICES ASSUME NEW i \in DOMAIN f, NEW j \in DOMAIN f, i < j
               PROVE  i \in DOMAIN q /\ f[i] = q[i] /\ ((j \in DOMAIN q /\ f[j] = q[j]) \/ f[j] = e)
    OBVIOUS
  <2>1. i # n + 1
    BY <1>1
  <2> QED
    BY <1>2, <2>1
<1> QED
  BY <1>1, <1>3, <1>4, <1>5 DEF f

\* The new prompt n, a reply to p or the root r.
WithPrompt(n, r, p, v, x) ==
    [node EXCEPT ![n] = [state |-> x, root |-> r, parent |-> p,
                         viaStatus |-> v, status |-> TRUE, session |-> FALSE]]

\* The prompt that a turn brings hangs from a prompt that is there, or is a root.
ArrivalFits(n, r, p, v) ==
    /\ n \in Nodes /\ ~Known(n) /\ r \in Nodes /\ v \in BOOLEAN
    /\ IF p = NoNode THEN r = n
       ELSE p \in Nodes /\ Known(p) /\ node[p].root = r /\ (v => node[p].status)

\* A prompt that arrives hangs where it should.
LEMMA PromptArrives ==
  ASSUME TreesInv, NEW n, NEW r, NEW p, NEW v, NEW x \in {"PENDING", "IN_PROGRESS"},
         ArrivalFits(n, r, p, v), node' = WithPrompt(n, r, p, v, x)
  PROVE  /\ node' \in [Nodes -> NodeRecord] /\ TreesFit(node')
         /\ \A m \in Nodes \ {n} : node'[m] = node[m]
         /\ node'[n].state = x /\ node'[n].root = r /\ node'[n].parent = p
         /\ p # NoNode => p # n
         /\ node'[r].root = r /\ node'[r].state # "absent"
<1> USE NodesAssumption
<1> DEFINE rec == [state |-> x, root |-> r, parent |-> p, viaStatus |-> v, status |-> TRUE, session |-> FALSE]
<1>1. n \in Nodes /\ r \in Nodes /\ node[n].state = "absent" /\ v \in BOOLEAN
         /\ p \in Nodes \cup {NoNode}
  BY DEF ArrivalFits, Known
<1>2. rec \in NodeRecord
  BY <1>1 DEF NodeRecord
<1>3. rec.state = x /\ rec.root = r /\ rec.parent = p /\ rec.viaStatus = v /\ rec.status = TRUE
  OBVIOUS
<1>4. node' = [node EXCEPT ![n] = rec]
  BY DEF WithPrompt
<1> HIDE DEF rec
<1>5. node' \in [Nodes -> NodeRecord] /\ node'[n] = rec /\ \A m \in Nodes \ {n} : node'[m] = node[m]
  BY <1>1, <1>2, <1>4 DEF TreesInv, TreesTyped
<1>6. IF p = NoNode THEN r = n
      ELSE /\ p \in Nodes /\ node[p].state # "absent" /\ node[p].root = r
           /\ node'[n].viaStatus => node[p].status
  BY <1>3, <1>5 DEF ArrivalFits, Known
<1>7. node'[n].state # "absent" /\ node'[n].root = r /\ node'[n].parent = p /\ node'[n].status
  BY <1>3, <1>5
<1>8. TreesFit(node')
  BY <1>1, <1>5, <1>6, <1>7, LeafFits DEF TreesInv
<1>9. p # NoNode => p # n
  BY <1>1, <1>6
<1>10. node'[r].root = r /\ node'[r].state # "absent"
  <2>1. PromptFits(node', n)
    BY <1>1, <1>8 DEF TreesFit
  <2> QED
    BY <1>7, <2>1 DEF PromptFits
<1> QED
  BY <1>3, <1>5, <1>8, <1>9, <1>10

\* Nothing that is there replies to a prompt that is not.
LEMMA NoneReplies ==
  ASSUME TreesInv, NEW n \in Nodes, ~Known(n)
  PROVE  /\ \A m \in Nodes : Known(m) => m # n /\ node[m].parent # n /\ node[m].root # n
         /\ \A q \in Nodes : \A i \in DOMAIN queue[q] : queue[q][i] \in Nodes /\ Known(queue[q][i])
<1> USE NodesAssumption
<1>1. \A m \in Nodes : Known(m) => m # n /\ node[m].parent # n /\ node[m].root # n
  BY DEF TreesInv, TreesFit, PromptFits, Known
<1>2. ASSUME NEW q \in Nodes, NEW i \in DOMAIN queue[q]
      PROVE queue[q][i] \in Nodes /\ Known(queue[q][i])
  <2>1. queue[q][i] \in ToSet(queue[q])
    BY DEF ToSet
  <2> QED
    BY <2>1 DEF TreesInv, QueueIsPending, Members
<1> QED
  BY <1>1, <1>2

\* The tree rests: the prompt is claimed at once.
LEMMA PromptClaimed ==
  ASSUME TreesInv, NEW n, NEW r, NEW p, NEW v, ArrivalFits(n, r, p, v), active[r] = 0,
         node' = WithPrompt(n, r, p, v, "IN_PROGRESS"),
         NEW k \in Claims, tasks[k].place = "unclaimed",
         NEW done, done = {}, tasks' \in [Claims -> TaskRecord],
            TaskTaken(WithPrompt(n, r, p, v, "PENDING"), r, n, k, done),
         active' = [active EXCEPT ![r] = k], queue' = queue
  PROVE  TreesInv'
<1> USE NodesAssumption
<1>1. n \in Nodes /\ r \in Nodes /\ node[n].state = "absent" /\ ~Known(n) /\ 0 \notin Claims
  BY DEF ArrivalFits, Known, Claims
<1>2. /\ node' \in [Nodes -> NodeRecord] /\ TreesFit(node')
      /\ \A m \in Nodes \ {n} : node'[m] = node[m]
      /\ node'[n].state = "IN_PROGRESS" /\ node'[n].root = r /\ node'[n].parent = p
      /\ p # NoNode => p # n
      /\ node'[r].root = r /\ node'[r].state # "absent"
  <2>1. "IN_PROGRESS" \in {"PENDING", "IN_PROGRESS"}
    OBVIOUS
  <2> QED
    BY <2>1, PromptArrives
<1>3. /\ \A m \in Nodes : Known(m) => m # n /\ node[m].parent # n /\ node[m].root # n
      /\ \A q \in Nodes : \A i \in DOMAIN queue[q] : queue[q][i] \in Nodes /\ Known(queue[q][i])
  BY <1>1, NoneReplies
<1>4. \A m \in Members(r) : node[m].state \notin Runnable
  BY <1>1 DEF TreesInv, ActiveHasTask
<1>5. QueueIsPending' /\ ParentsFirst'
  <2>1. ASSUME NEW q \in Nodes
        PROVE  ToSet(queue[q]) = {m \in Nodes : node'[m].state # "absent" /\ node'[m].root = q
           /\ node'[m].state = "PENDING"}
               /\ IsInjective(queue[q])
    <3>1. ToSet(queue[q]) = {m \in Members(q) : node[m].state = "PENDING"} /\ IsInjective(queue[q])
      BY DEF TreesInv, QueueIsPending
    <3>2. \A m \in Nodes : node'[m].state = "PENDING" /\ node'[m].root = q
             <=> node[m].state = "PENDING" /\ node[m].root = q
      BY <1>1, <1>2
    <3> QED
      BY <3>1, <3>2 DEF Members, Known
  <2>2. ASSUME NEW q \in Nodes, NEW i \in DOMAIN queue[q], NEW j \in DOMAIN queue[q], i < j
        PROVE  node'[queue[q][i]].parent # queue[q][j]
    <3>1. node'[queue[q][i]] = node[queue[q][i]]
      BY <1>2, <1>3
    <3> QED
      BY <2>2, <3>1 DEF TreesInv, ParentsFirst
  <2> QED
    BY <2>1, <2>2 DEF QueueIsPending, ParentsFirst, Members, Known
<1>6. active' \in [Nodes -> Claims \cup {0}] /\ \A q \in Nodes : active'[q] = IF q = r THEN k
         ELSE active[q]
  BY <1>1 DEF TreesInv, TreesTyped
<1>7. ClaimTaken(r, n, k, done)
  <2>1. done \in SUBSET Claims /\ k \notin done /\ \A d \in done : active[r] = d
    OBVIOUS
  <2> QED
    BY <1>6, <2>1 DEF ClaimTaken, TaskTaken
<1>8. p # NoNode => p \in Nodes /\ p # n /\ node[p].state \in {"COMPLETED", "ERROR"}
  <2> SUFFICES ASSUME p # NoNode
               PROVE p \in Nodes /\ p # n /\ node[p].state \in {"COMPLETED", "ERROR"}
    OBVIOUS
  <2>1. p \in Members(r)
    BY DEF ArrivalFits, Members
  <2>2. node[p].state \in {"absent", "PENDING", "IN_PROGRESS", "COMPLETED", "ERROR"}
    BY <2>1 DEF TreesInv, TreesTyped, NodeRecord, Members
  <2> QED
    BY <1>2, <1>4, <2>1, <2>2 DEF Members, Known, Runnable
<1>9. PromptTaken(r, n)
  BY <1>1, <1>2, <1>4, <1>8 DEF PromptTaken, Runnable
<1>10. tasks'[k].resume <=> node'[n].parent # NoNode /\ node[node'[n].parent].session
  <2> DEFINE nodes == WithPrompt(n, r, p, v, "PENDING")
  <2>1. nodes[n].parent = p /\ \A m \in Nodes \ {n} : nodes[m] = node[m]
    BY <1>1 DEF WithPrompt, TreesInv, TreesTyped
  <2> HIDE DEF nodes
  <2>2. tasks'[k].resume <=> nodes[n].parent # NoNode /\ nodes[nodes[n].parent].session
    BY DEF TaskTaken, nodes
  <2> QED
    BY <1>2, <1>8, <2>1, <2>2
<1>11. TreesTyped'
  BY <1>2, <1>6 DEF TreesInv, TreesTyped
<1> QED
  BY <1>1, <1>2, <1>5, <1>7, <1>9, <1>10, <1>11, ClaimStarts

\* The tree is busy: the prompt waits in its queue.
LEMMA PromptQueued ==
  ASSUME TreesInv, NEW n, NEW r, NEW p, NEW v, ArrivalFits(n, r, p, v), active[r] # 0,
         node' = WithPrompt(n, r, p, v, "PENDING"), tasks' = tasks, active' = active,
         queue' = [queue EXCEPT ![r] = Append(@, n)]
  PROVE  TreesInv'
<1> USE NodesAssumption
<1>1. n \in Nodes /\ r \in Nodes /\ node[n].state = "absent" /\ ~Known(n)
  BY DEF ArrivalFits, Known
<1>2. /\ node' \in [Nodes -> NodeRecord] /\ TreesFit(node')
      /\ \A m \in Nodes \ {n} : node'[m] = node[m]
      /\ node'[n].state = "PENDING" /\ node'[n].root = r /\ node'[n].parent = p
      /\ p # NoNode => p # n
  <2>1. "PENDING" \in {"PENDING", "IN_PROGRESS"}
    OBVIOUS
  <2> QED
    BY <2>1, PromptArrives
<1>3. /\ \A m \in Nodes : Known(m) => m # n /\ node[m].parent # n /\ node[m].root # n
      /\ \A q \in Nodes : \A i \in DOMAIN queue[q] : queue[q][i] \in Nodes /\ Known(queue[q][i])
  BY <1>1, NoneReplies
<1> DEFINE f == Append(queue[r], n)
<1>4. /\ f \in Seq(Nodes) /\ IsInjective(f) /\ ToSet(f) = ToSet(queue[r]) \cup {n}
      /\ \A i, j \in DOMAIN f : i < j =>
           i \in DOMAIN queue[r] /\ f[i] = queue[r][i]
              /\ ((j \in DOMAIN queue[r] /\ f[j] = queue[r][j]) \/ f[j] = n)
  <2>1. queue[r] \in Seq(Nodes) /\ IsInjective(queue[r])
    BY <1>1 DEF TreesInv, TreesTyped, QueueIsPending
  <2>2. n \notin ToSet(queue[r])
    BY <1>1, <1>3 DEF ToSet
  <2> QED
    BY <1>1, <2>1, <2>2, AppendTo
<1>5. queue' = [queue EXCEPT ![r] = f]
  OBVIOUS
<1> HIDE DEF f
<1>6. queue' \in [Nodes -> Seq(Nodes)] /\ queue'[r] = f /\ \A q \in Nodes : q # r
         => queue'[q] = queue[q]
  BY <1>1, <1>4, <1>5 DEF TreesInv, TreesTyped
<1>7. QueueIsPending'
  <2>1. ASSUME NEW q \in Nodes
        PROVE  ToSet(queue'[q]) = {m \in Nodes : node'[m].state # "absent" /\ node'[m].root = q
           /\ node'[m].state = "PENDING"}
               /\ IsInjective(queue'[q])
    <3>1. ToSet(queue[q]) = {m \in Members(q) : node[m].state = "PENDING"} /\ IsInjective(queue[q])
      BY DEF TreesInv, QueueIsPending
    <3>2. \A m \in Nodes : node'[m].state = "PENDING" /\ node'[m].root = q
                           <=> (node[m].state = "PENDING" /\ node[m].root = q) \/ (m = n /\ q = r)
      BY <1>1, <1>2
    <3>3. CASE q = r
      <4>1. \A m : m \in ToSet(f) <=> m \in ToSet(queue[q]) \/ m = n
        BY <1>4, <3>3
      <4>2. \A m : m \in ToSet(queue[q]) <=> m \in Nodes /\ node[m].root = q
               /\ node[m].state = "PENDING"
        BY <3>1 DEF Members, Known
      <4>3. \A m : m \in ToSet(f) <=> m \in Nodes /\ node'[m].root = q /\ node'[m].state = "PENDING"
        BY <1>1, <3>2, <3>3, <4>1, <4>2
      <4> QED
        BY <1>4, <1>6, <3>3, <4>3
    <3>4. CASE q # r
      <4>1. \A m \in Nodes : node'[m].state = "PENDING" /\ node'[m].root = q
                              <=> node[m].state = "PENDING" /\ node[m].root = q
        BY <3>2, <3>4
      <4> QED
        BY <1>6, <3>1, <3>4, <4>1 DEF Members, Known
    <3> QED
      BY <3>3, <3>4
  <2> QED
    BY <2>1 DEF QueueIsPending, Members, Known
<1>8. ParentsFirst'
  <2>1. ASSUME NEW q \in Nodes, NEW i \in DOMAIN queue'[q], NEW j \in DOMAIN queue'[q], i < j
        PROVE  node'[queue'[q][i]].parent # queue'[q][j]
    <3>1. /\ i \in DOMAIN queue[q] /\ queue'[q][i] = queue[q][i]
          /\ (j \in DOMAIN queue[q] /\ queue'[q][j] = queue[q][j]) \/ queue'[q][j] = n
      <4>1. CASE q = r
        BY <1>4, <1>6, <2>1, <4>1
      <4>2. CASE q # r
        BY <1>6, <2>1, <4>2
      <4> QED
        BY <4>1, <4>2
    <3>2. node'[queue[q][i]] = node[queue[q][i]] /\ node[queue[q][i]].parent # n
      BY <1>2, <1>3, <3>1
    <3> QED
      BY <2>1, <3>1, <3>2 DEF TreesInv, ParentsFirst
  <2> QED
    BY <2>1 DEF ParentsFirst
<1>9. ParentSettledFirst'
  <2>1. ASSUME NEW m \in Nodes, node'[m].state = "IN_PROGRESS", node'[m].parent # NoNode
        PROVE  node'[node'[m].parent].state \in {"COMPLETED", "ERROR"}
    <3>1. m # n /\ node'[m] = node[m]
      BY <1>2, <2>1
    <3>2. Known(m) /\ node[m].parent # n /\ node[m].parent \in Nodes
      BY <1>3, <2>1, <3>1 DEF TreesInv, TreesFit, PromptFits, Known
    <3> QED
      BY <1>2, <2>1, <3>1, <3>2 DEF TreesInv, ParentSettledFirst
  <2> QED
    BY <2>1 DEF ParentSettledFirst
<1>10. ActiveHasTask'
  <2>1. ASSUME NEW q \in Nodes, active[q] # 0
        PROVE  q \in Published' /\ tasks[active[q]].root = q /\ ~Over(active[q])
    <3>1. q \in Published /\ tasks[active[q]].root = q /\ ~Over(active[q])
      BY <2>1 DEF TreesInv, ActiveHasTask
    <3>2. q # n /\ node'[q] = node[q]
      BY <1>1, <1>2, <3>1 DEF Published
    <3> QED
      BY <3>1, <3>2 DEF Published, Known
  <2>2. ASSUME NEW q \in Nodes, active[q] = 0,
        NEW m \in Nodes, node'[m].state # "absent", node'[m].root = q
        PROVE  node'[m].state \notin Runnable
    <3>1. m # n /\ node'[m] = node[m]
      BY <1>2, <2>2
    <3> QED
      BY <2>2, <3>1 DEF TreesInv, ActiveHasTask, Members, Known
  <2> QED
    BY <2>1, <2>2 DEF ActiveHasTask, Members, Known, Over
<1>11. \A c \in Claims : (Working(c)' <=> Working(c)) /\ (Over(c)' <=> Over(c))
  BY DEF Working, Over
<1>12. OneRunnerPerTree' /\ ClaimsFit'
  <2>1. ASSUME NEW m \in Nodes, node'[m].state = "IN_PROGRESS"
        PROVE  \E c \in Claims : tasks'[c].node = m /\ tasks'[c].root = node'[m].root /\ Working(c)'
           /\ tasks'[c].place # "finishing"
    <3>1. m # n /\ node'[m] = node[m]
      BY <1>2, <2>1
    <3>2. PICK c \in Claims : tasks[c].node = m /\ tasks[c].root = node[m].root /\ Working(c)
                  /\ tasks[c].place # "finishing"
      BY <2>1, <3>1 DEF TreesInv, OneRunnerPerTree
    <3> QED
      BY <1>11, <3>1, <3>2
  <2>2. ASSUME NEW c \in Claims, Working(c)
        PROVE  /\ active'[tasks'[c].root] = c
               /\ tasks'[c].node \in Nodes /\ node'[tasks'[c].node].state # "absent"
                     /\ node'[tasks'[c].node].root = tasks'[c].root
    <3>1. /\ active[tasks[c].root] = c
          /\ tasks[c].node \in Nodes /\ Known(tasks[c].node)
                /\ node[tasks[c].node].root = tasks[c].root
      BY <2>2 DEF TreesInv, OneRunnerPerTree, ClaimsFit
    <3> QED
      BY <1>2, <1>3, <3>1 DEF Known
  <2>3. ASSUME NEW c \in Claims, ~Over(c) PROVE tasks'[c].root \in Nodes
    BY <2>3 DEF TreesInv, ClaimsFit
  <2> QED
    BY <1>11, <2>1, <2>2, <2>3 DEF OneRunnerPerTree, ClaimsFit, Known
<1>13. ResumeMatchesParent'
  <2> SUFFICES ASSUME NEW c \in Claims, NEW m, m = tasks[c].node, NEW q, q = node'[m].parent,
                      Working(c), q # NoNode, node'[q].status
               PROVE  tasks[c].resume <=> node'[q].session
    BY <1>11 DEF ResumeMatchesParent
  <2>1. m \in Nodes /\ Known(m)
    BY DEF TreesInv, ClaimsFit
  <2>2. node'[m] = node[m] /\ q # n /\ q \in Nodes
    BY <1>2, <1>3, <2>1 DEF TreesInv, TreesFit, PromptFits, Known
  <2> QED
    BY <1>2, <2>2 DEF TreesInv, ResumeMatchesParent
<1>14. TreesTyped'
  BY <1>2, <1>6 DEF TreesInv, TreesTyped
<1> QED
  BY <1>2, <1>7, <1>8, <1>9, <1>10, <1>12, <1>13, <1>14 DEF TreesInv

\* An admission: the prompt is claimed if its tree rests, and waits otherwise.
LEMMA PromptAdmitted ==
  ASSUME TreesInv, turn \in [Nodes -> TurnRecord], NEW n \in Nodes, Admit(n) PROVE TreesInv'
<1> USE NodesAssumption
<1> DEFINE p == turn[n].ref
           v == turn[n].viaStatus
           r == IF p = NoNode THEN n ELSE node[p].root
           nodes == WithPrompt(n, r, p, v, "PENDING")
<1>1. ~Known(n) /\ (p # NoNode => Resolves(p, v)) /\ EnqueueOrClaim(nodes, r, n, "fresh")
  BY DEF Admit, WithPrompt
<1>2. ArrivalFits(n, r, p, v)
  <2>1. v \in BOOLEAN /\ p \in Nodes \cup {NoNode}
    BY DEF TurnRecord
  <2>2. p # NoNode => p \in Nodes /\ Known(p) /\ (v => node[p].status) /\ node[p].root \in Nodes
    BY <1>1, <2>1 DEF Resolves, TreesInv, TreesFit, PromptFits, Known
  <2> QED
    BY <1>1, <2>1, <2>2 DEF ArrivalFits
<1>3. r \in Nodes /\ node \in [Nodes -> NodeRecord] /\ tasks \in [Claims -> TaskRecord]
  BY <1>2 DEF ArrivalFits, TreesInv, TreesTyped
<1> HIDE DEF r, p, v
<1>4. CASE active[r] = 0
  <2>1. /\ Unclaimed # {} /\ node' = [nodes EXCEPT ![n].state = "IN_PROGRESS"]
        /\ tasks' = [tasks EXCEPT ![NextClaim] = NewTask(nodes, r, n, "fresh")]
        /\ active' = [active EXCEPT ![r] = NextClaim] /\ queue' = queue
    BY <1>1, <1>4 DEF EnqueueOrClaim
  <2>2. PICK k \in Unclaimed : k = NextClaim
    BY <2>1 DEF NextClaim
  <2>3. k \in Claims /\ tasks[k].place = "unclaimed"
    BY <2>2 DEF Unclaimed
  <2>4. node' = WithPrompt(n, r, p, v, "IN_PROGRESS")
    BY <1>3, <2>1 DEF WithPrompt
  <2> HIDE DEF nodes
  <2> DEFINE done == {}
             new == NewTask(nodes, r, n, "fresh")
  <2>5. tasks' = Launched(nodes, r, n, k, "fresh", done)
    <3>1. tasks' = [tasks EXCEPT ![k] = new]
      BY <2>1, <2>2
    <3> HIDE DEF new
    <3>2. tasks' = [d \in Claims |-> IF d = k THEN new ELSE IF d \in done THEN Gone ELSE tasks[d]]
      BY <1>3, <2>3, <3>1
    <3> QED
      BY <3>2 DEF Launched, new
  <2>6. done = {} /\ done \in SUBSET Claims /\ k \notin done
    OBVIOUS
  <2> HIDE DEF done
  <2>7. nodes \in [Nodes -> NodeRecord] /\ nodes[n].parent = p
    <3>1. [state |-> "PENDING", root |-> r, parent |-> p, viaStatus |-> v, status |-> TRUE, session |-> FALSE] \in NodeRecord
      BY <1>2, <1>3 DEF NodeRecord, ArrivalFits
    <3> QED
      BY <1>3, <3>1 DEF nodes, WithPrompt
  <2>8. tasks' \in [Claims -> TaskRecord] /\ TaskTaken(nodes, r, n, k, done)
    <3>1. nodes[n].parent \in Nodes \cup {NoNode}
      BY <1>2, <2>7 DEF ArrivalFits
    <3>2. "fresh" \in {"fresh", "successor"} /\ TreesTyped
      BY DEF TreesInv
    <3> QED
      BY <1>3, <2>3, <2>5, <2>6, <2>7, <3>1, <3>2, TaskStarts
  <2>9. active' = [active EXCEPT ![r] = k] /\ queue' = queue
    BY <2>1, <2>2
  <2> QED
    BY <1>2, <1>4, <2>3, <2>4, <2>6, <2>8, <2>9, PromptClaimed DEF nodes
<1>5. CASE active[r] # 0
  <2>1. /\ node' = nodes /\ tasks' = tasks /\ active' = active
        /\ queue' = IF InQueue(r, n) THEN queue ELSE [queue EXCEPT ![r] = Append(@, n)]
    BY <1>1, <1>5 DEF EnqueueOrClaim
  <2>2. ~InQueue(r, n)
    BY <1>1, <1>3 DEF InQueue, TreesInv, QueueIsPending, Members
  <2> QED
    BY <1>2, <1>5, <2>1, <2>2, PromptQueued
<1> QED
  BY <1>4, <1>5

\* A prompt that is there already changes nothing, whatever its state.
LEMMA AgainChangesNothing ==
  ASSUME TreesInv, NEW n \in Nodes, AdmitAgain(n) PROVE UNCHANGED <<trees, store>>
<1>1. CASE node[n].state # "PENDING"
  BY <1>1 DEF AdmitAgain
<1>2. CASE node[n].state = "PENDING"
  <2> DEFINE r == node[n].root
  <2>1. EnqueueOrClaim(node, r, n, "gone") /\ (InQueue(r, n) => store' = store) /\ Known(n)
    BY <1>2 DEF AdmitAgain
  <2>2. r \in Nodes /\ n \in Members(r)
    BY <2>1 DEF TreesInv, TreesFit, PromptFits, Known, Members
  <2>3. InQueue(r, n)
    BY <1>2, <2>2 DEF InQueue, TreesInv, QueueIsPending
  <2>4. active[r] # 0
    BY <1>2, <2>2 DEF TreesInv, ActiveHasTask, Runnable
  <2> QED
    BY <2>1, <2>3, <2>4 DEF EnqueueOrClaim, trees
<1> QED
  BY <1>1, <1>2

\* A step that leaves the trees alone.
LEMMA TreesRest == ASSUME TreesInv, UNCHANGED trees PROVE TreesInv'
<1>1. node' = node /\ queue' = queue /\ active' = active /\ tasks' = tasks
  BY DEF trees
<1> QED
  BY <1>1, PromptsStay, QueuesStay, ClaimsStay, ShrinkOfStates

\* Nothing waits, runs or is claimed.
Quiet == /\ TreesTyped /\ TreesFit(node) /\ \A n \in Nodes : node[n].state \notin Runnable
         /\ \A r \in Nodes : queue[r] = <<>> /\ active[r] = 0
         /\ \A c \in Claims : Over(c)

\* Trees in which nothing waits or runs fit.
LEMMA QuietFits == Quiet => TreesInv
<1> SUFFICES ASSUME Quiet PROVE TreesInv
  OBVIOUS
<1> USE DEF Quiet
<1>1. \A c \in Claims : ~Working(c)
  BY DEF Working, Over
<1>2. \A n \in Nodes : node[n].state # "PENDING" /\ node[n].state # "IN_PROGRESS"
  BY DEF Runnable
<1>3. QueueIsPending /\ ParentsFirst
  <2>1. ASSUME NEW r \in Nodes
        PROVE  /\ ToSet(queue[r]) = {n \in Nodes : node[n].state # "absent" /\ node[n].root = r
                  /\ node[n].state = "PENDING"}
               /\ IsInjective(queue[r]) /\ DOMAIN queue[r] = {}
    <3>1. ToSet(<<>>) = {} /\ IsInjective(<<>>) /\ DOMAIN <<>> = {}
      BY DEF ToSet, IsInjective
    <3>2. queue[r] = <<>>
      OBVIOUS
    <3>3. {n \in Nodes : node[n].state # "absent" /\ node[n].root = r /\ node[n].state = "PENDING"} = {}
      BY <1>2
    <3> QED
      BY <3>1, <3>2, <3>3
  <2> QED
    BY <2>1 DEF QueueIsPending, ParentsFirst, Members, Known
<1>4. ParentSettledFirst /\ OneRunnerPerTree /\ ResumeMatchesParent
  BY <1>1, <1>2 DEF ParentSettledFirst, OneRunnerPerTree, ResumeMatchesParent
<1>5. ActiveHasTask
  BY DEF ActiveHasTask, Members
<1>6. ClaimsFit
  BY <1>1 DEF ClaimsFit
<1> QED
  BY <1>3, <1>4, <1>5, <1>6 DEF TreesInv

\* The same of the state after a step.
LEMMA QuietFitsNext == Quiet' => TreesInv'
BY QuietFits, PTL

\* The trees after a restart.
LEMMA QuietTrees ==
  ASSUME TreesTyped', TreesFit(node'), \A n \in Nodes : node'[n].state \notin Runnable,
         \A r \in Nodes : queue'[r] = <<>> /\ active'[r] = 0,
         \A c \in Claims : Over(c)'
  PROVE  TreesInv'
<1>1. Quiet'
  BY DEF Quiet
<1> QED
  BY <1>1, QuietFitsNext

\* The snapshots s fit, and each prompt is in at most one of them.
SnapshotsFit(s) ==
    /\ \A r \in Nodes : IsSnapshot(s[r]) /\ (s[r] # NoSnapshot => SnapshotFits(s[r], r))
    /\ \A q, r \in Nodes : \A n \in DOMAIN s[q] : n \in DOMAIN s[r] => q = r

\* nodes is what the snapshots s are restored to: home names the snapshot of a prompt.
RestoredFrom(s, nodes, home) ==
    \A n \in Nodes : IF home[n] = NoNode THEN nodes[n] = Blank
       /\ \A r \in Nodes : n \notin DOMAIN s[r]
                     ELSE home[n] \in Nodes /\ n \in DOMAIN s[home[n]]
                        /\ nodes[n] = Restored(s[home[n]], n)

\* Snapshots that fit, restored, are trees that fit.
LEMMA RestoredFits ==
  ASSUME NEW s, NEW nodes, NEW home, SnapshotsFit(s), RestoredFrom(s, nodes, home)
  PROVE  /\ TreesFit(nodes) /\ \A n \in Nodes : nodes[n].state \notin Runnable
            /\ nodes[n] \in NodeRecord
<1> USE NodesAssumption DEF SnapshotsFit, RestoredFrom
<1>1. \A r \in Nodes : \A n \in DOMAIN s[r] : n \in Nodes /\ s[r][n] \in NodeRecord
         /\ s[r] # NoSnapshot /\ SnapshotFits(s[r], r)
  BY DEF IsSnapshot, NoSnapshot
<1>2. ASSUME NEW r \in Nodes, NEW n \in DOMAIN s[r]
      PROVE  /\ home[n] = r /\ nodes[n] \in NodeRecord
             /\ nodes[n].root = r /\ nodes[n].parent = s[r][n].parent
                   /\ nodes[n].state \notin Runnable
             /\ nodes[n].state # "absent"
             /\ nodes[n].viaStatus = s[r][n].viaStatus /\ nodes[n].status = s[r][n].status
  <2>1. n \in Nodes /\ s[r][n] \in NodeRecord /\ s[r][n].state # "absent" /\ s[r][n].root = r
    BY <1>1 DEF SnapshotFits
  <2>2. home[n] = r
    BY <2>1
  <2>3. home[n] # NoNode
    BY <2>2
  <2>4. nodes[n] = Restored(s[r], n)
    BY <2>1, <2>2, <2>3
  <2>5. nodes[n] = [s[r][n] EXCEPT !.state = IF s[r][n].state \in Runnable THEN "ERROR" ELSE s[r][n].state]
    BY <2>4 DEF Restored
  <2> DEFINE rec == s[r][n]
             x == IF rec.state \in Runnable THEN "ERROR" ELSE rec.state
  <2>6. x \notin Runnable /\ x # "absent"
           /\ x \in {"absent", "PENDING", "IN_PROGRESS", "COMPLETED", "ERROR"}
    BY <2>1 DEF Runnable, NodeRecord
  <2>7. nodes[n] = [rec EXCEPT !.state = x] /\ rec \in NodeRecord /\ rec.root = r
    BY <2>1, <2>5
  <2> HIDE DEF rec, x
  <2>8. nodes[n] \in NodeRecord /\ nodes[n].state = x /\ nodes[n].root = r
           /\ nodes[n].parent = rec.parent
    BY <2>6, <2>7 DEF NodeRecord
  <2>9. nodes[n].viaStatus = rec.viaStatus /\ nodes[n].status = rec.status
    BY <2>6, <2>7 DEF NodeRecord
  <2> QED
    BY <2>2, <2>6, <2>8, <2>9 DEF rec
<1>3. \A n \in Nodes : IF home[n] = NoNode THEN nodes[n] = Blank ELSE home[n] \in Nodes
         /\ n \in DOMAIN s[home[n]]
  OBVIOUS
<1>4. Blank \in NodeRecord /\ Blank.state = "absent"
  BY DEF Blank, NodeRecord
<1>5. ASSUME NEW n \in Nodes PROVE nodes[n].state \notin Runnable /\ nodes[n] \in NodeRecord
  BY <1>2, <1>3, <1>4 DEF Runnable
<1>6. ASSUME NEW n \in Nodes PROVE PromptFits(nodes, n)
  <2>1. CASE home[n] = NoNode
    BY <1>3, <1>4, <2>1 DEF PromptFits
  <2>2. CASE home[n] # NoNode
    <3>1. PICK r \in Nodes : r = home[n] /\ n \in DOMAIN s[r]
      BY <1>3, <2>2
    <3>2. /\ nodes[n].root = r /\ nodes[n].parent = s[r][n].parent /\ nodes[n].state \notin Runnable
          /\ nodes[n].state # "absent"
          /\ nodes[n].viaStatus = s[r][n].viaStatus /\ nodes[n].status = s[r][n].status
      BY <1>2, <3>1
    <3>3. Restorable(s[r], r) /\ s[r][n].parent # n /\ (s[r][n].parent = NoNode => n = r)
      BY <1>1, <3>1 DEF SnapshotFits
    <3>4. nodes[r].state # "absent" /\ nodes[r].root = r /\ s[r][r].parent = NoNode
      BY <1>2, <3>3 DEF Restorable
    <3>5. n # r => /\ s[r][n].parent \in DOMAIN s[r]
                   /\ s[r][n].viaStatus => s[r][s[r][n].parent].status
      BY <3>1, <3>3 DEF Restorable
    <3>6. ASSUME n # r
          PROVE  LET p == s[r][n].parent
                 IN  /\ p \in Nodes /\ nodes[p].state # "absent" /\ nodes[p].root = r
                     /\ nodes[p].status = s[r][p].status
      BY <1>1, <1>2, <3>5, <3>6
    <3> QED
      BY <3>2, <3>3, <3>4, <3>5, <3>6 DEF PromptFits
  <2> QED
    BY <2>1, <2>2
<1>7. Hangs(nodes)
  <2> SUFFICES ASSUME NEW t \in SUBSET Nodes,
                      \A m \in Nodes : nodes[m].state # "absent"
                         /\ (nodes[m].parent \in t \/ nodes[m].root = m) => m \in t,
                      NEW n \in Nodes, nodes[n].state # "absent"
               PROVE  n \in t
    BY DEF Hangs
  <2>1. PICK r \in Nodes : n \in DOMAIN s[r]
    BY <1>3, <1>4
  <2>2. SnapshotFits(s[r], r)
    BY <1>1, <2>1
  <2>3. r \in t
    BY <1>2, <2>2 DEF SnapshotFits, Restorable
  <2>4. \A m \in DOMAIN s[r] : s[r][m].parent \in t => m \in t
    BY <1>1, <1>2
  <2>5. DOMAIN s[r] \subseteq t
    BY <2>2, <2>3, <2>4 DEF SnapshotFits
  <2> QED
    BY <2>1, <2>5
<1> QED
  BY <1>5, <1>6, <1>7 DEF TreesFit

-----------------------------------------------------------------------------
(* Restarts, and every step. *)

\* The snapshots of the store.
LEMMA StoreTyped == ASSUME TypeOK, StoreFits PROVE SnapshotsFit(store)
BY DEF TypeOK, StoreFits, SnapshotsFit

\* The trees of a new process are those of the store, with nothing to run.
LEMMA Restarts == ASSUME TypeOK, StoreFits, Restart PROVE TreesInv'
<1> USE NodesAssumption
<1> DEFINE kept == {r \in Nodes : store[r] # NoSnapshot /\ Restorable(store[r], r)}
           homes(n) == {r \in kept : n \in DOMAIN store[r]}
           home == [n \in Nodes |-> IF homes(n) = {} THEN NoNode ELSE CHOOSE r \in homes(n) : TRUE]
<1>1. /\ node' = [n \in Nodes |-> IF homes(n) = {} THEN Blank
                                  ELSE Restored(store[CHOOSE r \in homes(n) : TRUE], n)]
      /\ queue' = [r \in Nodes |-> <<>>] /\ active' = [r \in Nodes |-> 0]
      /\ tasks' = [c \in Claims |-> IF c \in Unclaimed THEN tasks[c] ELSE Gone]
  BY DEF Restart
<1>2. \A n, r : r \in homes(n) <=> r \in Nodes /\ n \in DOMAIN store[r]
  <2>1. ASSUME NEW n, NEW r \in Nodes, n \in DOMAIN store[r] PROVE r \in kept
    <3>1. store[r] # NoSnapshot
      BY <2>1 DEF NoSnapshot
    <3> QED
      BY <3>1, StoreTyped DEF SnapshotFits, SnapshotsFit
  <2> QED
    BY <2>1
<1> HIDE DEF homes
<1>3. \A n \in Nodes : IF home[n] = NoNode THEN node'[n] = Blank
         /\ \A r \in Nodes : n \notin DOMAIN store[r]
                       ELSE home[n] \in Nodes /\ n \in DOMAIN store[home[n]]
                          /\ node'[n] = Restored(store[home[n]], n)
  <2> SUFFICES ASSUME NEW n \in Nodes
               PROVE  IF home[n] = NoNode THEN node'[n] = Blank
                  /\ \A r \in Nodes : n \notin DOMAIN store[r]
                      ELSE home[n] \in Nodes /\ n \in DOMAIN store[home[n]]
                         /\ node'[n] = Restored(store[home[n]], n)
    OBVIOUS
  <2>1. CASE homes(n) = {}
    <3>1. home[n] = NoNode /\ node'[n] = Blank
      BY <1>1, <2>1
    <3> QED
      BY <1>2, <2>1, <3>1
  <2>2. CASE homes(n) # {}
    <3>1. PICK h \in homes(n) : h = CHOOSE r \in homes(n) : TRUE
      BY <2>2
    <3>2. h \in Nodes /\ n \in DOMAIN store[h] /\ h # NoNode
      BY <1>2, <3>1
    <3>3. home[n] = h /\ node'[n] = Restored(store[h], n)
      BY <1>1, <2>2, <3>1
    <3> QED
      BY <3>2, <3>3
  <2> QED
    BY <2>1, <2>2
<1> HIDE DEF home
<1>4. TreesFit(node') /\ \A n \in Nodes : node'[n].state \notin Runnable /\ node'[n] \in NodeRecord
  <2>1. RestoredFrom(store, node', home)
    BY <1>3 DEF RestoredFrom
  <2> QED
    BY <2>1, StoreTyped, RestoredFits
<1>5. tasks' \in [Claims -> TaskRecord] /\ \A c \in Claims : Over(c)'
  <2>1. tasks \in [Claims -> TaskRecord] /\ Gone \in TaskRecord /\ Gone.place = "gone"
    BY DEF TypeOK, Gone, TaskRecord, Places
  <2> QED
    BY <1>1, <2>1 DEF Unclaimed, Over
<1>6. TreesTyped'
  <2>1. node' \in [Nodes -> NodeRecord]
    BY <1>1, <1>4
  <2>2. <<>> \in Seq(Nodes)
    OBVIOUS
  <2> QED
    BY <1>1, <1>5, <2>1, <2>2 DEF TreesTyped
<1> QED
  BY <1>1, <1>4, <1>5, <1>6, QuietTrees

\* Every step keeps the trees.
LEMMA TreesStep ==
  ASSUME TreesInv, TypeOK, StoreFits, [Next]_vars PROVE TreesInv'
<1>1. turn \in [Nodes -> TurnRecord]
  BY DEF TypeOK
<1>2. ASSUME UNCHANGED trees PROVE TreesInv'
  BY <1>2, TreesRest
<1>3. CASE UNCHANGED vars
  BY <1>2, <1>3 DEF vars, trees
<1>4. ASSUME NEW n \in Nodes, Receive(n) \/ Discard(n) PROVE TreesInv'
  BY <1>2, <1>4 DEF Receive, Discard
<1>5. ASSUME NEW n \in Nodes, Admit(n) PROVE TreesInv'
  BY <1>1, <1>5, PromptAdmitted
<1>6. ASSUME NEW n \in Nodes, AdmitAgain(n) PROVE TreesInv'
  BY <1>2, <1>6, AgainChangesNothing
<1>7. ASSUME NEW c \in Claims, Run(c) PROVE TreesInv'
  BY <1>7, TaskGoesOn, SessionRecorded, RunCompletes, RunFails, RunFinishes DEF Run
<1>8. ASSUME NEW n \in Nodes, StopReply(n) PROVE TreesInv'
  BY <1>8, OneStops
<1>9. ASSUME NEW n \in Nodes, TakeSnapshot(n) PROVE TreesInv'
  BY <1>2, <1>9 DEF TakeSnapshot
<1>10. ASSUME NEW n \in Nodes, NEW v \in BOOLEAN, ClearReply(n, v) PROVE TreesInv'
  BY <1>10, ReplyClears
<1>11. CASE StopAll
  BY <1>11, AllStop
<1>12. CASE ClearChat
  BY <1>12, ChatClears
<1>13. CASE Save \/ Close
  BY <1>2, <1>13 DEF Save, Close
<1>14. CASE Restart
  BY <1>14, Restarts
<1> QED
  BY <1>3, <1>4, <1>5, <1>6, <1>7, <1>8, <1>9, <1>10, <1>11, <1>12, <1>13, <1>14 DEF Next

\* The snapshot of a tree is its prompts as they are.
LEMMA SnapshotIs ==
  ASSUME NEW nodes \in [Nodes -> NodeRecord], NEW r
  PROVE  LET s == SnapshotOf(nodes, r)
         IN  /\ DOMAIN s = {m \in Nodes : nodes[m].state # "absent" /\ nodes[m].root = r}
             /\ \A n \in DOMAIN s : s[n] = nodes[n]
             /\ IsSnapshot(s)
<1> DEFINE s == SnapshotOf(nodes, r)
           d == {m \in Nodes : nodes[m].state # "absent" /\ nodes[m].root = r}
<1>1. s = [n \in d |-> nodes[n]]
  BY DEF SnapshotOf
<1>2. DOMAIN s = d /\ \A n \in DOMAIN s : s[n] = nodes[n]
  BY <1>1
<1>3. \A n \in d : n \in Nodes /\ nodes[n] \in NodeRecord
  OBVIOUS
<1> HIDE DEF s
<1>4. IsSnapshot(s)
  BY <1>2, <1>3 DEF IsSnapshot
<1> QED
  BY <1>2, <1>4 DEF s

\* A published tree can be restored from its snapshot.
LEMMA SnapshotOfFits ==
  ASSUME NEW nodes \in [Nodes -> NodeRecord], TreesFit(nodes), NEW r \in Nodes,
         nodes[r].state # "absent", nodes[r].root = r
  PROVE  SnapshotFits(SnapshotOf(nodes, r), r) /\ SnapshotOf(nodes, r) # NoSnapshot
<1> USE NodesAssumption
<1> DEFINE s == SnapshotOf(nodes, r)
<1>1. /\ DOMAIN s = {m \in Nodes : nodes[m].state # "absent" /\ nodes[m].root = r}
      /\ \A n \in DOMAIN s : s[n] = nodes[n]
  BY ZenonT(60), SnapshotIs
<1> HIDE DEF s
<1>2. r \in DOMAIN s
  BY <1>1
<1>3. ASSUME NEW n \in DOMAIN s
      PROVE  /\ n \in Nodes /\ s[n] = nodes[n] /\ s[n].state # "absent" /\ s[n].root = r
             /\ s[n].parent = NoNode <=> r = n
             /\ s[n].parent # NoNode =>
                  /\ s[n].parent # n /\ s[n].parent \in DOMAIN s
                  /\ s[n].viaStatus => s[s[n].parent].status
             /\ s[n].state \in Runnable => s[n].status
  <2>1. n \in Nodes /\ s[n] = nodes[n] /\ nodes[n].state # "absent" /\ nodes[n].root = r
    BY <1>1
  <2>2. PromptFits(nodes, n)
    BY <2>1 DEF TreesFit
  <2>3. nodes[n].parent # NoNode => nodes[n].parent \in DOMAIN s
    BY <1>1, <2>1, <2>2 DEF PromptFits
  <2> QED
    BY <1>1, <2>1, <2>2, <2>3 DEF PromptFits
<1>4. Restorable(s, r)
  <2>1. ASSUME NEW n \in DOMAIN s \ {r}
        PROVE  s[n].parent \in DOMAIN s /\ (s[n].viaStatus => s[s[n].parent].status)
    BY <1>3
  <2> QED
    BY <1>2, <1>3, <2>1 DEF Restorable
<1>5. ASSUME NEW t \in SUBSET Nodes, r \in t, \A m \in DOMAIN s : s[m].parent \in t => m \in t
      PROVE  DOMAIN s \subseteq t
  <2> DEFINE u == t \cup {m \in Nodes : nodes[m].state # "absent" /\ nodes[m].root # r}
  <2>1. ASSUME NEW m \in Nodes, nodes[m].state # "absent", nodes[m].parent \in u \/ nodes[m].root = m
        PROVE  m \in u
    <3>1. CASE nodes[m].root # r
      BY <2>1, <3>1
    <3>2. CASE nodes[m].root = r
      <4>1. m \in DOMAIN s /\ s[m] = nodes[m]
        BY <1>1, <2>1, <3>2
      <4>2. CASE nodes[m].root = m
        BY <1>5, <3>2, <4>2
      <4>3. CASE nodes[m].parent \in t
        BY <1>5, <4>1, <4>3
      <4>4. CASE nodes[m].parent \in Nodes /\ nodes[nodes[m].parent].root # r
        <5>1. nodes[m].parent # NoNode
          BY <4>4
        <5>2. nodes[nodes[m].parent].root = r
          BY <3>2, <2>1, <5>1 DEF TreesFit, PromptFits
        <5> QED
          BY <4>4, <5>2
      <4> QED
        BY <2>1, <4>2, <4>3, <4>4
    <3> QED
      BY <3>1, <3>2
  <2>2. u \in SUBSET Nodes
    OBVIOUS
  <2>3. \A m \in DOMAIN s : m \in u => m \in t
    BY <1>1
  <2> HIDE DEF u
  <2>4. \A m \in Nodes : nodes[m].state # "absent" => m \in u
    BY <2>1, <2>2 DEF TreesFit, Hangs
  <2> QED
    BY <1>1, <2>3, <2>4
<1>6. SnapshotFits(s, r)
  BY <1>3, <1>4, <1>5 DEF SnapshotFits
<1>7. s # NoSnapshot
  BY <1>2 DEF NoSnapshot
<1> QED
  BY <1>6, <1>7 DEF s

\* What the turns, the counters and close are.
IntakeTyped ==
    /\ turn \in [Nodes -> TurnRecord]
    /\ turns \in 0..MaxTurns
    /\ generation \in 0..MaxGenerations
    /\ closing \in {"open", "closing", "closed"}

\* What the holder of the lock is.
HolderTyped ==
    /\ wf = [op |-> wf.op, roots |-> wf.roots, snaps |-> wf.snaps, drop |-> wf.drop]
    /\ wf.op \in {"idle", "stop", "stopAll", "clearReply", "clearChat"}
    /\ wf.roots \in SUBSET Nodes /\ wf.drop \in SUBSET Nodes
    /\ \A p \in wf.snaps : p[1] \in Nodes /\ IsSnapshot(p[2])

\* What the store is.
SnapshotsTyped == DOMAIN store = Nodes /\ \A r \in Nodes : IsSnapshot(store[r])

\* The types of everything but the trees.
OthersTyped == IntakeTyped /\ HolderTyped /\ SnapshotsTyped

\* The types, as the trees and the rest.
LEMMA Types == TreesInv /\ OthersTyped <=> TreesInv /\ TypeOK
<1> USE NodesAssumption
<1>1. TypeOK => OthersTyped
  BY DEF TypeOK, OthersTyped, IntakeTyped, HolderTyped, SnapshotsTyped
<1>2. ASSUME TreesInv, OthersTyped PROVE TypeOK
  <2>1. ASSUME NEW n \in Nodes, Known(n)
        PROVE  /\ node[n].root \in Published
               /\ node[n].parent = NoNode <=> node[n].root = n
               /\ node[n].parent # NoNode => node[node[n].parent].root = node[n].root
    BY <1>2, <2>1 DEF TreesInv, TreesFit, PromptFits, Known, Published
  <2> QED
    BY <1>2, <2>1 DEF TypeOK, OthersTyped, IntakeTyped, HolderTyped, SnapshotsTyped, TreesInv,
       TreesTyped
<1> QED
  BY <1>1, <1>2

-----------------------------------------------------------------------------
(* The store. *)

\* No prompt goes, and new ones come only while nobody stops or clears.
PromptsGrow ==
    \A m \in Nodes : /\ node[m].state # "absent" => node'[m].state # "absent"
                        /\ node'[m].root = node[m].root
                     /\ node'[m].state # "absent" /\ node[m].state = "absent" => Unlocked

\* The tree of r, a published one, is saved as it is.
Saves(r) == /\ r \in Nodes /\ node'[r].state # "absent" /\ node'[r].root = r
            /\ store' = [store EXCEPT ![r] = SnapshotOf(node', r)]

\* Prompts come and change while the store is left alone or has the latest of a tree.
LEMMA StoreGoesOn ==
  ASSUME TreesInv', TypeOK, StoreFits, PromptsGrow, wf' = wf,
         store' = store \/ \E r \in Nodes : Saves(r)
  PROVE  StoreFits'
<1>1. ASSUME NEW r PROVE (Waits(r)' <=> Waits(r)) /\ (Unlocked' <=> Unlocked)
  BY DEF Waits, Unlocked
<1>2. \A r \in Published : r \in Published'
  BY DEF Published, Known, PromptsGrow
<1>3. node' \in [Nodes -> NodeRecord] /\ TreesFit(node')
  BY DEF TreesInv, TreesTyped
<1>4. Unlocked => \A r : ~Waits(r)
  BY DEF StoreFits, Waits
<1>5. \A p \in wf.snaps : Members(p[1])' = Members(p[1])
  <2> SUFFICES ASSUME NEW p \in wf.snaps PROVE Members(p[1])' = Members(p[1])
    OBVIOUS
  <2>1. ~Unlocked
    BY DEF StoreFits
  <2> QED
    BY <2>1 DEF Members, Known, PromptsGrow
<1>6. ASSUME store' = store PROVE StoreFits'
  <2>1. ASSUME NEW r \in Nodes, store[r] # NoSnapshot
        PROVE SnapshotFits(store[r], r) /\ (r \in Published' \/ r \in wf.drop)
    BY <1>2, <2>1 DEF StoreFits
  <2>2. ASSUME NEW q \in Nodes, NEW r \in Nodes, NEW n \in DOMAIN store[q], n \in DOMAIN store[r]
        PROVE q = r
    BY <2>2 DEF StoreFits
  <2>3. ASSUME NEW r \in Nodes, NEW n \in DOMAIN store[r]
        PROVE  IF node'[n].state # "absent" THEN node'[n].root = r ELSE Waits(r)
    <3>1. n \in Nodes /\ IF Known(n) THEN node[n].root = r ELSE Waits(r)
      BY DEF StoreFits, TypeOK, IsSnapshot
    <3> QED
      BY <1>4, <3>1 DEF PromptsGrow, Known
  <2>4. ASSUME NEW p \in wf.snaps
        PROVE p[1] \in Published' /\ SnapshotFits(p[2], p[1]) /\ DOMAIN p[2] = Members(p[1])'
    BY <1>2, <1>5 DEF StoreFits
  <2>5. Unlocked' => wf'.roots = {} /\ wf'.snaps = {} /\ wf'.drop = {}
    BY <1>1 DEF StoreFits
  <2> QED
    BY <1>1, <1>6, <2>1, <2>2, <2>3, <2>4, <2>5 DEF StoreFits, Known
<1>7. ASSUME NEW r \in Nodes, Saves(r) PROVE StoreFits'
  <2> DEFINE s == SnapshotOf(node', r)
  <2>1. /\ DOMAIN s = {m \in Nodes : node'[m].state # "absent" /\ node'[m].root = r}
        /\ SnapshotFits(s, r)
    BY <1>3, <1>7, SnapshotIs, SnapshotOfFits DEF Saves
  <2>2. store' = [store EXCEPT ![r] = s] /\ r \in Published' /\ DOMAIN store = Nodes
    BY <1>7 DEF Saves, Published, Known, TypeOK
  <2> HIDE DEF s
  <2>3. store'[r] = s /\ \A q \in Nodes : q # r => store'[q] = store[q]
    BY <2>2
  <2>4. ASSUME NEW q \in Nodes, q # r, NEW n \in DOMAIN store[q]
        PROVE  IF node'[n].state # "absent" THEN node'[n].root = q ELSE Waits(q)
    <3>1. n \in Nodes /\ IF Known(n) THEN node[n].root = q ELSE Waits(q)
      BY DEF StoreFits, TypeOK, IsSnapshot
    <3> QED
      BY <1>4, <3>1 DEF PromptsGrow, Known
  <2>5. ASSUME NEW q \in Nodes, NEW n \in DOMAIN store'[q]
        PROVE  IF node'[n].state # "absent" THEN node'[n].root = q ELSE Waits(q)
    BY <2>1, <2>3, <2>4, <2>5
  <2>6. ASSUME NEW q \in Nodes, store'[q] # NoSnapshot
        PROVE  SnapshotFits(store'[q], q) /\ (q \in Published' \/ q \in wf.drop)
    <3>1. CASE q = r
      BY <2>1, <2>2, <2>3, <3>1
    <3>2. CASE q # r
      BY <1>2, <2>3, <2>6, <3>2 DEF StoreFits
    <3> QED
      BY <3>1, <3>2
  <2>7. ASSUME NEW q \in Nodes, NEW x \in Nodes, NEW n \in DOMAIN store'[q], n \in DOMAIN store'[x]
        PROVE q = x
    <3>1. ASSUME NEW y \in Nodes, y # r, n \in DOMAIN store[y], n \in DOMAIN s PROVE FALSE
      <4>1. node'[n].state # "absent" /\ node'[n].root = r
        BY <2>1, <3>1
      <4> QED
        BY <2>4, <3>1, <4>1
    <3> QED
      BY <2>3, <2>7, <3>1 DEF StoreFits
  <2>8. ASSUME NEW p \in wf.snaps
        PROVE p[1] \in Published' /\ SnapshotFits(p[2], p[1]) /\ DOMAIN p[2] = Members(p[1])'
    BY <1>2, <1>5 DEF StoreFits
  <2>9. Unlocked' => wf'.roots = {} /\ wf'.snaps = {} /\ wf'.drop = {}
    BY <1>1 DEF StoreFits
  <2> QED
    BY <1>1, <2>5, <2>6, <2>7, <2>8, <2>9 DEF StoreFits, Known
<1> QED
  BY <1>6, <1>7

\* Somebody takes the lock: whatever he removes he will drop or save again.
LEMMA StoreIsLocked ==
  ASSUME TypeOK, StoreFits, Unlocked, store' = store, wf'.snaps = {}, wf'.op # "idle",
         \A r \in Published : r \in Published' \/ r \in wf'.drop,
         \A m \in Nodes : /\ node[m].state # "absent" =>
                             IF node'[m].state # "absent" THEN node'[m].root = node[m].root
                             ELSE node[m].root \in wf'.drop \cup wf'.roots
  PROVE  StoreFits'
<1>1. \A r : ~Waits(r)
  BY DEF StoreFits, Waits
<1>2. \A r \in Nodes : \A n \in DOMAIN store[r] : n \in Nodes /\ node[n].state # "absent"
         /\ node[n].root = r
  BY <1>1 DEF StoreFits, TypeOK, IsSnapshot, Known
<1>3. ASSUME NEW r \in Nodes, NEW n \in DOMAIN store[r]
      PROVE  IF node'[n].state # "absent" THEN node'[n].root = r
             ELSE r \in wf'.drop \/ r \in wf'.roots \/ \E p \in wf'.snaps : p[1] = r
  BY <1>2
<1>4. ASSUME NEW r \in Nodes, store[r] # NoSnapshot
      PROVE  SnapshotFits(store[r], r) /\ (r \in Published' \/ r \in wf'.drop)
  BY <1>4 DEF StoreFits
<1>5. ~Unlocked'
  BY DEF Unlocked
<1> QED
  BY <1>3, <1>4, <1>5 DEF StoreFits, Known, Waits

\* The holder of the lock captures a tree.
LEMMA SnapshotTaken ==
  ASSUME TreesInv, TypeOK, StoreFits, NEW r \in Nodes, TakeSnapshot(r) PROVE StoreFits'
<1>1. /\ r \in wf.roots /\ store' = store /\ node' = node
      /\ wf' = [wf EXCEPT !.roots = @ \ {r},
                  !.snaps = IF r \in Published THEN @ \cup {<<r, SnapshotOf(node, r)>>} ELSE @]
  BY DEF TakeSnapshot, trees
<1>2. wf = [op |-> wf.op, roots |-> wf.roots, snaps |-> wf.snaps, drop |-> wf.drop]
  BY DEF TypeOK
<1>3. /\ wf'.op = wf.op /\ wf'.roots = wf.roots \ {r} /\ wf'.drop = wf.drop
      /\ wf'.snaps = IF r \in Published THEN wf.snaps \cup {<<r, SnapshotOf(node, r)>>} ELSE wf.snaps
  BY <1>1, <1>2
<1>4. ~Unlocked /\ ~Unlocked'
  BY <1>1, <1>3 DEF StoreFits, Unlocked
<1>5. \A q \in Nodes : Published' = Published /\ Members(q)' = Members(q)
  BY <1>1 DEF Published, Members, Known
<1>6. ASSUME NEW q \in Nodes, NEW n \in DOMAIN store[q]
      PROVE  IF Known(n)' THEN node'[n].root = q ELSE Waits(q)'
  <2>1. IF Known(n) THEN node[n].root = q ELSE Waits(q)
    BY DEF StoreFits
  <2>2. store[q] # NoSnapshot
    BY DEF NoSnapshot
  <2>3. q \in Published \/ q \in wf.drop
    BY <2>2 DEF StoreFits
  <2>4. CASE q # r \/ q \in wf.drop
    BY <1>1, <1>3, <2>1, <2>4 DEF Known, Waits
  <2>5. CASE q = r /\ q \in Published
    <3>1. <<r, SnapshotOf(node, r)>> \in wf'.snaps /\ <<r, SnapshotOf(node, r)>>[1] = q
      BY <1>3, <2>5
    <3>2. Waits(q)'
      BY <3>1 DEF Waits
    <3> QED
      BY <1>1, <2>1, <3>2 DEF Known
  <2> QED
    BY <2>3, <2>4, <2>5
<1>7. ASSUME NEW p \in wf'.snaps
      PROVE  p[1] \in Published' /\ SnapshotFits(p[2], p[1]) /\ DOMAIN p[2] = Members(p[1])'
  <2>1. CASE p \in wf.snaps
    <3>1. p[1] \in Published /\ SnapshotFits(p[2], p[1]) /\ DOMAIN p[2] = Members(p[1])
      BY <2>1 DEF StoreFits
    <3> QED
      BY <1>5, <3>1 DEF Published
  <2>2. CASE p \notin wf.snaps
    <3> DEFINE s == SnapshotOf(node, r)
    <3>1. r \in Published /\ p = <<r, s>>
      BY <1>3, <2>2
    <3>a. node \in [Nodes -> NodeRecord] /\ TreesFit(node) /\ node[r].state # "absent"
             /\ node[r].root = r
      BY <3>1 DEF TreesInv, TreesTyped, Published, Known
    <3>b. DOMAIN s = {m \in Nodes : node[m].state # "absent" /\ node[m].root = r}
      BY ZenonT(60), <3>a, SnapshotIs
    <3>c. SnapshotFits(s, r)
      BY <3>a, SnapshotOfFits
    <3>2. SnapshotFits(s, r) /\ DOMAIN s = Members(r)
      BY <3>b, <3>c DEF Members, Known
    <3> HIDE DEF s
    <3>3. p[1] = r /\ p[2] = s
      BY <3>1
    <3> QED
      BY <1>5, <3>1, <3>2, <3>3
  <2> QED
    BY <2>1, <2>2
<1>8. ASSUME NEW q \in Nodes, store[q] # NoSnapshot
      PROVE  SnapshotFits(store[q], q) /\ (q \in Published' \/ q \in wf'.drop)
  BY <1>3, <1>5, <1>8 DEF StoreFits
<1>9. ASSUME NEW q \in Nodes, NEW x \in Nodes, NEW n \in DOMAIN store[q], n \in DOMAIN store[x]
      PROVE q = x
  BY <1>9 DEF StoreFits
<1> QED
  BY <1>1, <1>4, <1>6, <1>7, <1>8, <1>9 DEF StoreFits

\* What the holder of the lock saves.
LEMMA SavedIs ==
  ASSUME StoreFits, wf.roots = {}, NEW r \in Nodes
  PROVE  \/ r \in wf.drop /\ Saved[r] = NoSnapshot
         \/ r \notin wf.drop /\ \E p \in wf.snaps : p[1] = r /\ Saved[r] = p[2]
         \/ ~Waits(r) /\ Saved[r] = store[r]
<1>1. Saved[r] = IF r \in wf.drop THEN NoSnapshot
                 ELSE IF \E s \in wf.snaps : s[1] = r
                      THEN (CHOOSE s \in wf.snaps : s[1] = r)[2]
                      ELSE store[r]
  BY DEF Saved
<1>2. CASE r \notin wf.drop /\ \E s \in wf.snaps : s[1] = r
  <2>1. PICK p \in wf.snaps : p[1] = r /\ p = CHOOSE s \in wf.snaps : s[1] = r
    BY <1>2
  <2> QED
    BY <1>1, <1>2, <2>1
<1> QED
  BY <1>1, <1>2 DEF Waits

\* The holder of the lock saves what it captured and drops what it removed.
LEMMA StoreSaved ==
  ASSUME TreesInv, TypeOK, StoreFits, Save PROVE StoreFits'
<1>1. store' = Saved /\ wf' = Idle /\ wf.roots = {} /\ node' = node
  BY DEF Save, trees
<1>2. wf'.op = "idle" /\ wf'.roots = {} /\ wf'.snaps = {} /\ wf'.drop = {}
  BY <1>1 DEF Idle
<1>3. ASSUME NEW r \in Nodes
      PROVE  /\ store'[r] # NoSnapshot => SnapshotFits(store'[r], r) /\ r \in Published
             /\ \A n \in DOMAIN store'[r] : Known(n) /\ node[n].root = r
  <2>1. CASE r \in wf.drop /\ Saved[r] = NoSnapshot
    BY <1>1, <2>1 DEF NoSnapshot
  <2>2. ASSUME NEW p \in wf.snaps, p[1] = r, Saved[r] = p[2]
        PROVE  SnapshotFits(Saved[r], r) /\ r \in Published /\ \A n \in DOMAIN Saved[r] : Known(n)
           /\ node[n].root = r
    <3>1. r \in Published /\ SnapshotFits(Saved[r], r) /\ DOMAIN Saved[r] = Members(r)
      BY <2>2 DEF StoreFits
    <3> QED
      BY <3>1 DEF Members
  <2>3. CASE ~Waits(r) /\ Saved[r] = store[r]
    <3>1. r \notin wf.drop /\ \A n \in DOMAIN store[r] : Known(n) /\ node[n].root = r
      BY <2>3 DEF StoreFits, Waits
    <3>2. store[r] # NoSnapshot => SnapshotFits(store[r], r) /\ r \in Published
      BY <3>1 DEF StoreFits
    <3> QED
      BY <1>1, <2>3, <3>1, <3>2
  <2> QED
    BY <1>1, <2>1, <2>2, <2>3, SavedIs
<1>4. Published' = Published
  BY <1>1 DEF Published, Known
<1>5. ASSUME NEW q \in Nodes, NEW r \in Nodes, NEW n \in DOMAIN store'[q], n \in DOMAIN store'[r]
      PROVE q = r
  BY <1>3, <1>5
<1>6. \A r \in Nodes : \A n \in DOMAIN store'[r] : node'[n].state # "absent" /\ node'[n].root = r
  BY <1>1, <1>3 DEF Known
<1> QED
  BY <1>2, <1>3, <1>4, <1>5, <1>6 DEF StoreFits, Known

\* A new process has what the store had.
LEMMA StoreReread ==
  ASSUME TreesInv', TypeOK, StoreFits, Restart PROVE StoreFits'
<1> DEFINE kept == {r \in Nodes : store[r] # NoSnapshot /\ Restorable(store[r], r)}
           home(n) == {r \in kept : n \in DOMAIN store[r]}
<1>1. /\ store' = [r \in Nodes |-> IF r \in kept THEN SnapshotOf(node', r) ELSE NoSnapshot]
      /\ wf' = Idle
      /\ node' = [n \in Nodes |-> IF home(n) = {} THEN Blank
                                  ELSE Restored(store[CHOOSE r \in home(n) : TRUE], n)]
  BY DEF Restart
<1>2. wf'.op = "idle" /\ wf'.roots = {} /\ wf'.snaps = {} /\ wf'.drop = {}
  BY <1>1 DEF Idle
<1>3. node' \in [Nodes -> NodeRecord] /\ TreesFit(node')
  BY DEF TreesInv, TreesTyped
<1>4. ASSUME NEW r \in kept PROVE node'[r].state # "absent" /\ node'[r].root = r
  <2>1. SnapshotFits(store[r], r) /\ r \in DOMAIN store[r] /\ store[r][r] \in NodeRecord
    BY DEF StoreFits, SnapshotFits, Restorable, TypeOK, IsSnapshot
  <2>2. \A q \in home(r) : q = r
    BY <2>1 DEF StoreFits
  <2>3. r \in home(r)
    BY <2>1
  <2>4. node'[r] = Restored(store[r], r)
    <3>1. home(r) # {} /\ (CHOOSE q \in home(r) : TRUE) = r
      BY <2>2, <2>3
    <3> QED
      BY <1>1, <3>1
  <2>5. store[r][r].state # "absent" /\ store[r][r].root = r
    BY <2>1 DEF SnapshotFits
  <2> DEFINE rec == store[r][r]
  <2>6. rec \in NodeRecord /\ rec.root = r /\ rec.state # "absent"
        /\ node'[r] = [rec EXCEPT !.state = IF rec.state \in Runnable THEN "ERROR" ELSE rec.state]
    BY <2>1, <2>4, <2>5 DEF Restored
  <2> HIDE DEF rec
  <2> QED
    BY <2>6 DEF NodeRecord
<1> HIDE DEF kept
<1>5. kept \subseteq Nodes
  BY DEF kept
<1>6. ASSUME NEW r \in kept
      PROVE  SnapshotFits(SnapshotOf(node', r), r)
         /\ DOMAIN SnapshotOf(node', r) = {m \in Nodes : node'[m].state # "absent" /\ node'[m].root = r}
  BY ZenonT(60), <1>3, <1>4, <1>5, SnapshotIs, SnapshotOfFits
<1>7. ASSUME NEW r \in Nodes
      PROVE  /\ store'[r] # NoSnapshot => SnapshotFits(store'[r], r) /\ r \in Published'
             /\ \A n \in DOMAIN store'[r] : node'[n].state # "absent" /\ node'[n].root = r
  <2>1. CASE r \in kept
    BY ZenonT(60), <1>1, <1>4, <1>6, <2>1 DEF Published, Known
  <2>2. CASE r \notin kept
    BY <1>1, <2>2 DEF NoSnapshot
  <2> QED
    BY <2>1, <2>2
<1>8. ASSUME NEW q \in Nodes, NEW r \in Nodes, NEW n \in DOMAIN store'[q], n \in DOMAIN store'[r]
      PROVE q = r
  BY <1>7, <1>8
<1> QED
  BY <1>2, <1>7, <1>8 DEF StoreFits, Known

\* What the task of c does to the prompts.
RunChanges(c) ==
    \A m \in Nodes :
        /\ node'[m].root = node[m].root
        /\ node'[m].state # "absent" <=> node[m].state # "absent"
        /\ node'[m].state \in Runnable => node[m].state \in Runnable
        /\ node[m].state = "ERROR" /\ node'[m].state # "ERROR" => Honoured(c) /\ tasks[c].node = m

\* A step of a claim that does not work, in trees without pending prompts, changes nothing
\* in them.
RunNeedsWork(c) ==
    \/ /\ node' = node /\ store' = store
       /\ \A d \in Claims : Working(d)' => Working(d)
    \/ Working(c)
    \/ \E m \in Nodes : node[m].state = "PENDING"

\* A step that leaves the prompts alone.
LEMMA NothingRuns ==
  ASSUME NEW c, node' = node PROVE RunChanges(c)
BY DEF RunChanges

\* Moving a task does not make it work.
LEMMA PlaceWorks ==
  ASSUME TreesTyped, NEW c \in Claims, ~Over(c), NEW x \in Places, tasks' = Placed(c, x)
  PROVE  \A d \in Claims : Working(d)' => Working(d)
BY PlaceChanges DEF Working, Over

\* A claim that is honoured works in a published tree.
LEMMA HonouredFits ==
  ASSUME TreesInv, NEW c \in Claims, Honoured(c)
  PROVE  /\ Working(c) /\ tasks[c].root \in Nodes /\ tasks[c].node \in Nodes
         /\ node[tasks[c].root].state # "absent" /\ node[tasks[c].root].root = tasks[c].root
<1>1. Working(c) /\ tasks[c].node \in Nodes /\ Known(tasks[c].node)
         /\ node[tasks[c].node].root = tasks[c].root
  BY DEF Honoured, Working, TreesInv, ClaimsFit
<1>2. PromptFits(node, tasks[c].node)
  BY <1>1 DEF TreesInv, TreesFit
<1> QED
  BY <1>1, <1>2 DEF PromptFits, Known

\* A run that saves its tree saves a published one.
LEMMA StoreOfRun ==
  ASSUME TreesInv, NEW c \in Claims, Honoured(c), NEW r, r = tasks[c].root, RunChanges(c),
         store' = [store EXCEPT ![r] = SnapshotOf(node', r)]
  PROVE  \E q \in Nodes : Saves(q)
<1>1. r \in Nodes /\ node'[r].state # "absent" /\ node'[r].root = r
  BY HonouredFits DEF RunChanges
<1> QED
  BY <1>1 DEF Saves

\* A task enters, announces its start or unwinds: no prompt changes.
LEMMA TaskRuns ==
  ASSUME TreesInv, NEW c \in Claims, Enter(c) \/ Announced(c) \/ Unwind(c)
  PROVE  RunChanges(c) /\ RunNeedsWork(c) /\ store' = store
<1>1. node' = node /\ store' = store
  BY DEF Enter, Announced, Unwind
<1>2. PICK x \in Places : tasks' = Placed(c, x)
  BY DEF Enter, Announced, Unwind, Placed, Places
<1>3. ~Over(c)
  BY DEF Enter, Announced, Unwind, Over
<1>4. \A d \in Claims : Working(d)' => Working(d)
  BY <1>2, <1>3, PlaceWorks DEF TreesInv
<1> QED
  BY <1>1, <1>4, NothingRuns DEF RunNeedsWork

\* A session is recorded and saved.
LEMMA SessionRuns ==
  ASSUME TreesInv, NEW c \in Claims, RecordSession(c)
  PROVE  RunChanges(c) /\ RunNeedsWork(c) /\ \E q \in Nodes : Saves(q)
<1> DEFINE n == tasks[c].node
           r == tasks[c].root
<1>1. /\ node[n].state = "IN_PROGRESS" /\ node' = [node EXCEPT ![n].session = TRUE]
      /\ Honoured(c) /\ store' = [store EXCEPT ![r] = SnapshotOf(node', r)]
  BY DEF RecordSession
<1>2. Working(c) /\ node \in [Nodes -> NodeRecord] /\ n \in Nodes
  BY <1>1, HonouredFits DEF TreesInv, TreesTyped
<1> HIDE DEF n, r
<1>3. ASSUME NEW m \in Nodes
      PROVE  node'[m].state = node[m].state /\ node'[m].root = node[m].root
  BY <1>1, <1>2 DEF NodeRecord
<1>4. RunChanges(c)
  BY <1>3 DEF RunChanges
<1>5. \E q \in Nodes : Saves(q)
  BY <1>1, <1>4, StoreOfRun DEF r
<1> QED
  BY <1>2, <1>4, <1>5 DEF RunNeedsWork

\* A run completes its prompt only if it is honoured.
LEMMA SuccessRuns ==
  ASSUME TreesInv, NEW c \in Claims, Complete(c)
  PROVE  RunChanges(c) /\ RunNeedsWork(c) /\ (store' = store \/ \E q \in Nodes : Saves(q))
<1> DEFINE n == tasks[c].node
           r == tasks[c].root
<1>1. CASE Honoured(c) /\ node' = [node EXCEPT ![n].state = "COMPLETED"]
           /\ store' = [store EXCEPT ![r] = SnapshotOf(node', r)]
                 /\ node[n].state \in {"IN_PROGRESS", "ERROR"}
  <2>1. Working(c) /\ node \in [Nodes -> NodeRecord] /\ n \in Nodes
    BY <1>1, HonouredFits DEF TreesInv, TreesTyped
  <2>2. ASSUME NEW m \in Nodes
        PROVE  node'[m].state = (IF m = n THEN "COMPLETED" ELSE node[m].state)
           /\ node'[m].root = node[m].root
    <3> HIDE DEF n
    <3> QED
      BY <1>1, <2>1 DEF NodeRecord
  <2>3. RunChanges(c)
    BY <1>1, <2>2 DEF RunChanges, Runnable
  <2>4. \E q \in Nodes : Saves(q)
    BY <1>1, <2>3, StoreOfRun
  <2> QED
    BY <2>1, <2>3, <2>4 DEF RunNeedsWork
<1>2. CASE node' = node /\ store' = store
  <2>1. tasks' = Placed(c, "finishing") /\ ~Over(c) /\ "finishing" \in Places
    BY DEF Complete, Placed, Over, Places
  <2>2. \A d \in Claims : Working(d)' => Working(d)
    BY <2>1, PlaceWorks DEF TreesInv
  <2> QED
    BY <1>2, <2>2, NothingRuns DEF RunNeedsWork
<1> QED
  BY <1>1, <1>2 DEF Complete

\* A failure reaches the prompts only if the claim is honoured.
LEMMA FailureRuns ==
  ASSUME TreesInv, NEW c \in Claims, NEW propagate \in BOOLEAN, Fail(c, propagate)
  PROVE  /\ RunChanges(c)
         /\ (node' = node /\ store' = store) \/ (Working(c) /\ \E q \in Nodes : Saves(q))
<1> DEFINE n == tasks[c].node
           r == tasks[c].root
           failed == {n} \cup IF propagate THEN {m \in Subtree(n) : node[m].state = "PENDING"} ELSE {}
<1>1. CASE Honoured(c) /\ Known(n)
  <2>1. store' = [store EXCEPT ![r] = SnapshotOf(node', r)]
    BY <1>1 DEF Fail
  <2>2. node' = node \/ node' = WithState(failed, "ERROR")
    BY <1>1 DEF Fail, WithState
  <2>3. \A m \in failed : Known(m)
    <3>1. Subtree(n) \subseteq {m \in Nodes : Known(m)}
      BY DEF Subtree
    <3> QED
      BY <1>1, <3>1
  <2> HIDE DEF failed
  <2>4. ASSUME node' = WithState(failed, "ERROR") PROVE RunChanges(c)
    <3>1. \A m \in Nodes : /\ node'[m].state = IF m \in failed THEN "ERROR" ELSE node[m].state
                           /\ node'[m].root = node[m].root
      BY <2>4, StatesChange DEF TreesInv
    <3>2. ASSUME NEW m \in Nodes
          PROVE  /\ node'[m].root = node[m].root
                 /\ node'[m].state # "absent" <=> node[m].state # "absent"
                 /\ node'[m].state \in Runnable => node[m].state \in Runnable
                 /\ node[m].state = "ERROR" => node'[m].state = "ERROR"
      <4>1. CASE m \in failed
        BY <2>3, <3>1, <4>1 DEF Known, Runnable
      <4>2. CASE m \notin failed
        BY <3>1, <4>2
      <4> QED
        BY <4>1, <4>2
    <3> QED
      BY <3>2 DEF RunChanges
  <2>5. RunChanges(c)
    BY <2>2, <2>4, NothingRuns
  <2>6. \E q \in Nodes : Saves(q)
    BY <1>1, <2>1, <2>5, StoreOfRun
  <2>7. Working(c)
    BY <1>1, HonouredFits
  <2> QED
    BY <2>5, <2>6, <2>7
<1>2. CASE ~(Honoured(c) /\ Known(n))
  <2>1. node' = node /\ store' = store
    BY <1>2 DEF Fail
  <2> QED
    BY <2>1, NothingRuns
<1> QED
  BY <1>1, <1>2

\* An error or a failure of the run.
LEMMA FailureReported ==
  ASSUME TreesInv, NEW c \in Claims, ReportError(c) \/ EndInFailure(c)
  PROVE  RunChanges(c) /\ RunNeedsWork(c) /\ (store' = store \/ \E q \in Nodes : Saves(q))
<1>1. PICK propagate \in BOOLEAN : Fail(c, propagate)
  BY DEF ReportError, EndInFailure
<1>2. tasks' = tasks \/ tasks' = Placed(c, "finishing")
  BY DEF ReportError, EndInFailure, Placed
<1>3. ~Over(c) /\ "finishing" \in Places
  BY DEF ReportError, EndInFailure, Over, Places
<1>4. \A d \in Claims : Working(d)' => Working(d)
  <2>1. CASE tasks' = Placed(c, "finishing")
    BY <1>3, <2>1, PlaceWorks DEF TreesInv
  <2>2. CASE tasks' = tasks
    BY <2>2 DEF Working, Over
  <2> QED
    BY <1>2, <2>1, <2>2
<1>5. RunChanges(c) /\ ((node' = node /\ store' = store) \/ (Working(c) /\ \E q \in Nodes : Saves(q)))
  BY <1>1, FailureRuns
<1> QED
  BY <1>4, <1>5 DEF RunNeedsWork

\* A release changes only the successor, which was pending.
LEMMA FinishRuns ==
  ASSUME TreesInv, NEW c \in Claims, Finish(c)
  PROVE  RunChanges(c) /\ RunNeedsWork(c) /\ store' = store
<1> DEFINE r == tasks[c].root
<1>1. CASE tasks' = Released(c) /\ node' = node
  <2>1. store' = store
    BY DEF Finish
  <2>2. \A d \in Claims : Working(d)' => Working(d)
    BY <1>1, TaskGoes DEF TreesInv
  <2> QED
    BY <1>1, <2>1, <2>2, NothingRuns DEF RunNeedsWork
<1>2. ASSUME NEW i \in Successors(r), OwnsTree(c),
         node' = [node EXCEPT ![queue[r][i]].state = "IN_PROGRESS"]
      PROVE  RunChanges(c) /\ RunNeedsWork(c)
  <2> DEFINE n == queue[r][i]
  <2>1. tasks[c].place = "finishing" /\ ~Over(c) /\ active[r] = c
    BY <1>2 DEF Finish, Over, OwnsTree
  <2>2. r \in Nodes
    BY <2>1 DEF TreesInv, ClaimsFit
  <2>3. n \in Nodes /\ node[n].state = "PENDING"
    BY <1>2, <2>1, <2>2, SuccessorFits
  <2>4. node' = [node EXCEPT ![n].state = "IN_PROGRESS"] /\ node \in [Nodes -> NodeRecord]
    BY <1>2 DEF TreesInv, TreesTyped
  <2> HIDE DEF n
  <2>5. node' = WithState({n}, "IN_PROGRESS")
    BY <2>4 DEF WithState
  <2>6. ASSUME NEW m \in Nodes
        PROVE  node'[m].state = (IF m = n THEN "IN_PROGRESS" ELSE node[m].state)
           /\ node'[m].root = node[m].root
    BY <2>3, <2>4 DEF NodeRecord
  <2> QED
    BY <2>3, <2>6 DEF RunChanges, RunNeedsWork, Runnable
<1>3. store' = store
  BY DEF Finish
<1> QED
  BY <1>1, <1>2, <1>3 DEF Finish, Released

\* What any step of a task leaves alone.
LEMMA RunStep ==
  ASSUME TreesInv, NEW c \in Claims, Run(c)
  PROVE  /\ RunChanges(c) /\ RunNeedsWork(c) /\ (store' = store \/ \E q \in Nodes : Saves(q))
         /\ UNCHANGED <<turn, turns, generation, wf, closing>>
<1>1. UNCHANGED <<turn, turns, generation, wf, closing>>
  BY DEF Run, Enter, Announced, Unwind, RecordSession, Complete, ReportError, EndInFailure,
     Finish, intake
<1> QED
  BY <1>1, TaskRuns, SessionRuns, SuccessRuns, FailureReported, FinishRuns DEF Run

\* The prompts are all there and hang where they did.
PromptsRemain ==
    \A m \in Nodes : /\ node'[m].root = node[m].root
                     /\ node'[m].state # "absent" <=> node[m].state # "absent"

\* A stop removes nothing.
LEMMA StoppedRemain ==
  ASSUME TreesInv, NEW s, node' = Stopped(s) PROVE PromptsRemain
<1>1. /\ \A m \in Nodes : PromptShrinks({}, m)
      /\ \A m \in Nodes : node'[m].state = IF m \in s /\ node[m].state \in Runnable THEN "ERROR"
            ELSE node[m].state
  BY PromptsStop
<1> QED
  BY <1>1 DEF PromptsRemain, PromptShrinks, Runnable

\* Prompts settle and the store is left alone.
LEMMA StoreKept ==
  ASSUME TreesInv', TypeOK, StoreFits, PromptsRemain, wf' = wf, store' = store PROVE StoreFits'
<1>1. PromptsGrow
  BY DEF PromptsRemain, PromptsGrow
<1> QED
  BY <1>1, StoreGoesOn

\* Who takes the lock and removes nothing.
LEMMA StoreHeld ==
  ASSUME TypeOK, StoreFits, Unlocked, store' = store, wf'.snaps = {}, wf'.op # "idle", PromptsRemain
  PROVE  StoreFits'
<1>1. \A r \in Published : r \in Published'
  BY DEF Published, Known, PromptsRemain
<1> QED
  BY <1>1, StoreIsLocked DEF PromptsRemain

\* An admission saves the tree of the new prompt.
LEMMA StoreAdmits ==
  ASSUME TreesInv', TypeOK, StoreFits, NEW n \in Nodes, Admit(n) PROVE StoreFits'
<1> USE NodesAssumption
<1> DEFINE p == turn[n].ref
           r == IF p = NoNode THEN n ELSE node[p].root
           v == turn[n].viaStatus
           new == [state |-> "PENDING", root |-> r, parent |-> p,
                   viaStatus |-> v, status |-> TRUE, session |-> FALSE]
           nodes == [node EXCEPT ![n] = new]
<1>1. /\ Unlocked /\ ~Known(n) /\ wf' = wf /\ store' = [store EXCEPT ![r] = SnapshotOf(node', r)]
      /\ node' = nodes \/ node' = [nodes EXCEPT ![n].state = "IN_PROGRESS"]
  BY DEF Admit, EnqueueOrClaim
<1>2. DOMAIN node = Nodes
  BY DEF TypeOK
<1>3. \A m \in Nodes \ {n} : node'[m] = node[m]
  BY <1>1, <1>2
<1>4. nodes[n].root = r /\ nodes[n].state = "PENDING" /\ nodes[n] = new /\ DOMAIN nodes = Nodes
  BY <1>2
<1>5. node'[n].root = r /\ node'[n].state # "absent"
  <2>1. [new EXCEPT !.state = "IN_PROGRESS"].root = r
           /\ [new EXCEPT !.state = "IN_PROGRESS"].state = "IN_PROGRESS"
    OBVIOUS
  <2> HIDE DEF new
  <2>2. node'[n] = nodes[n] \/ node'[n] = [new EXCEPT !.state = "IN_PROGRESS"]
    BY <1>1, <1>4
  <2> QED
    BY <1>4, <2>1, <2>2
<1> HIDE DEF r, nodes, new
<1>6. PromptFits(node', n)
  BY DEF TreesInv, TreesFit
<1>7. r \in Nodes /\ node'[r].state # "absent" /\ node'[r].root = r
  BY <1>5, <1>6 DEF PromptFits
<1>8. PromptsGrow
  BY <1>1, <1>3 DEF PromptsGrow, Known
<1>9. Saves(r)
  BY <1>1, <1>7 DEF Saves
<1> QED
  BY <1>1, <1>7, <1>8, <1>9, StoreGoesOn

\* A task saves the tree it works in, or nothing.
LEMMA StoreRuns ==
  ASSUME TreesInv, TreesInv', TypeOK, StoreFits, NEW c \in Claims, Run(c) PROVE StoreFits'
<1>1. RunChanges(c) /\ wf' = wf /\ (store' = store \/ \E q \in Nodes : Saves(q))
  BY RunStep
<1>2. PromptsGrow
  BY <1>1 DEF RunChanges, PromptsGrow
<1> QED
  BY <1>1, <1>2, StoreGoesOn

\* A reply with /stop.
LEMMA StoreStops ==
  ASSUME TreesInv, TreesInv', TypeOK, StoreFits, NEW n \in Nodes, StopReply(n) PROVE StoreFits'
<1>1. /\ Unlocked /\ node' = Stopped({n}) /\ store' = store
      /\ wf' = [Idle EXCEPT !.op = "stop", !.roots = {node[n].root}]
  BY DEF StopReply
<1>2. wf'.op = "stop" /\ wf'.snaps = {}
  BY <1>1 DEF Idle
<1>3. PromptsRemain
  BY <1>1, StoppedRemain
<1> QED
  BY <1>1, <1>2, <1>3, StoreHeld

\* A standalone /stop.
LEMMA StoreStopsAll ==
  ASSUME TreesInv, TreesInv', TypeOK, StoreFits, StopAll PROVE StoreFits'
<1>1. PromptsRemain /\ Unlocked /\ store' = store
  <2>1. PICK s : node' = Stopped(s)
    BY DEF StopAll, CancelTrees
  <2> QED
    BY <2>1, StoppedRemain DEF StopAll
<1>2. CASE wf' = [Idle EXCEPT !.op = "stopAll", !.roots = Published]
  <2>1. wf'.op = "stopAll" /\ wf'.snaps = {}
    BY <1>2 DEF Idle
  <2> QED
    BY <1>1, <2>1, StoreHeld
<1>3. CASE wf' = wf
  BY <1>1, <1>3, StoreKept
<1> QED
  BY <1>2, <1>3 DEF StopAll

\* A standalone /clear will drop every tree, or has dropped them.
LEMMA StoreClearsChat ==
  ASSUME TreesInv, TreesInv', TypeOK, StoreFits, ClearChat PROVE StoreFits'
<1>1. Unlocked
  BY DEF ClearChat
<1>2. ASSUME Broken = {}, DetachTrees(Published),
         wf' = [Idle EXCEPT !.op = "clearChat", !.drop = Nodes],
             store' = store
      PROVE  StoreFits'
  <2>1. wf'.op = "clearChat" /\ wf'.snaps = {} /\ wf'.drop = Nodes
    BY <1>2 DEF Idle
  <2>2. \A m \in Nodes : node[m].state # "absent" => node[m].root \in Nodes
           /\ (node'[m] = node[m] \/ node'[m] = Blank)
    BY <1>2 DEF DetachTrees, TreesInv, TreesFit, PromptFits
  <2>3. \A m \in Nodes : node[m].state # "absent" =>
           IF node'[m].state # "absent" THEN node'[m].root = node[m].root
           ELSE node[m].root \in wf'.drop \cup wf'.roots
    BY <2>1, <2>2 DEF Blank
  <2>4. \A r \in Published : r \in wf'.drop
    BY <2>1 DEF Published
  <2> QED
    BY <1>1, <1>2, <2>1, <2>3, <2>4, StoreIsLocked
<1>3. ASSUME store' = [r \in Nodes |-> NoSnapshot], wf' = wf PROVE StoreFits'
  <2>1. wf'.roots = {} /\ wf'.snaps = {} /\ wf'.drop = {}
    BY <1>1, <1>3 DEF StoreFits
  <2>2. \A r \in Nodes : store'[r] = NoSnapshot /\ DOMAIN store'[r] = {}
    BY <1>3 DEF NoSnapshot
  <2> QED
    BY <2>1, <2>2 DEF StoreFits
<1> QED
  BY <1>2, <1>3 DEF ClearChat

\* A /clear of a reply will save its tree again, or drop it.
LEMMA StoreClears ==
  ASSUME TreesInv, TreesInv', TypeOK, StoreFits, NEW n \in Nodes, NEW viaStatus \in BOOLEAN,
         ClearReply(n, viaStatus)
  PROVE  StoreFits'
<1> DEFINE r == node[n].root
           removed == RemovedBy(n, viaStatus)
           affected == removed \cup {n}
           whole == r \in removed
<1>1. Unlocked /\ store' = store /\ Known(n)
  BY DEF ClearReply, Resolves
<1>2. r \in Nodes /\ removed \subseteq Members(r)
  BY <1>1, RemovedFits DEF TreesInv, TreesFit, PromptFits, Known
<1>3. CASE ~Untargetable(r, affected)
  <2>1. /\ node' = [m \in Nodes |->
                 IF m \in removed THEN Blank
                 ELSE IF m = n
                      THEN [node[m] EXCEPT !.state = "ERROR", !.status = FALSE, !.session = FALSE]
                      ELSE node[m]]
        /\ wf' = [Idle EXCEPT !.op = "clearReply",
                        !.roots = IF whole THEN {} ELSE {r},
                        !.drop = IF whole THEN {r} ELSE {}]
    BY <1>3 DEF ClearReply
  <2>2. /\ wf'.op = "clearReply" /\ wf'.snaps = {}
        /\ wf'.roots = IF whole THEN {} ELSE {r}
        /\ wf'.drop = IF whole THEN {r} ELSE {}
    BY <2>1 DEF Idle
  <2>3. node \in [Nodes -> NodeRecord]
    BY DEF TreesInv, TreesTyped
  <2> HIDE DEF removed, r
  <2>4. ASSUME NEW m \in Nodes
        PROVE  IF m \in removed THEN node'[m].state = "absent"
               ELSE /\ node'[m].root = node[m].root
                    /\ node[m].state # "absent" => node'[m].state # "absent"
    BY <2>1, <2>3 DEF NodeRecord, Blank
  <2>5. \A m \in removed : m \in Nodes /\ node[m].root = r
    BY <1>2 DEF Members
  <2>6. \A q \in Published : q \in Published' \/ q \in wf'.drop
    BY <2>2, <2>4, <2>5 DEF Published, Known
  <2>7. \A m \in Nodes : node[m].state # "absent" =>
           IF node'[m].state # "absent" THEN node'[m].root = node[m].root
           ELSE node[m].root \in wf'.drop \cup wf'.roots
    BY <2>2, <2>4, <2>5
  <2> QED
    BY <1>1, <2>2, <2>6, <2>7, StoreIsLocked
<1>4. CASE Untargetable(r, affected)
  <2>1. wf' = wf /\ \E s \in SUBSET affected : node' = Stopped(s)
    BY <1>4 DEF ClearReply
  <2>2. PICK s : node' = Stopped(s)
    BY <2>1
  <2>3. PromptsRemain
    BY <2>2, StoppedRemain
  <2> QED
    BY <1>1, <2>1, <2>3, StoreKept
<1> QED
  BY <1>3, <1>4

\* Every step keeps what the store holds in line with the trees.
LEMMA StoreStep ==
  ASSUME TreesInv, TreesInv', TypeOK, StoreFits, [Next]_vars PROVE StoreFits'
<1>1. ASSUME node' = node, wf' = wf, store' = store PROVE StoreFits'
  <2>1. PromptsRemain
    BY <1>1 DEF PromptsRemain
  <2> QED
    BY <1>1, <2>1, StoreKept
<1>2. CASE vars' = vars
  BY <1>1, <1>2 DEF vars
<1>3. ASSUME NEW n \in Nodes, Receive(n) \/ Discard(n) PROVE StoreFits'
  BY <1>1, <1>3 DEF Receive, Discard, trees
<1>4. ASSUME NEW n \in Nodes, Admit(n) PROVE StoreFits'
  BY <1>4, StoreAdmits
<1>5. ASSUME NEW n \in Nodes, AdmitAgain(n) PROVE StoreFits'
  BY <1>1, <1>5, AgainChangesNothing DEF trees, AdmitAgain
<1>6. ASSUME NEW c \in Claims, Run(c) PROVE StoreFits'
  BY <1>6, StoreRuns
<1>7. ASSUME NEW n \in Nodes, StopReply(n) PROVE StoreFits'
  BY <1>7, StoreStops
<1>8. ASSUME NEW n \in Nodes, TakeSnapshot(n) PROVE StoreFits'
  BY <1>8, SnapshotTaken
<1>9. ASSUME NEW n \in Nodes, NEW v \in BOOLEAN, ClearReply(n, v) PROVE StoreFits'
  BY <1>9, StoreClears
<1>10. CASE StopAll
  BY <1>10, StoreStopsAll
<1>11. CASE ClearChat
  BY <1>11, StoreClearsChat
<1>12. CASE Save
  BY <1>12, StoreSaved
<1>13. CASE Close
  BY <1>1, <1>13 DEF Close, trees
<1>14. CASE Restart
  BY <1>14, StoreReread
<1> QED
  BY <1>2, <1>3, <1>4, <1>5, <1>6, <1>7, <1>8, <1>9, <1>10, <1>11, <1>12, <1>13, <1>14 DEF Next

-----------------------------------------------------------------------------
(* Turns, the lock and their types. *)

\* The turns are left alone.
LEMMA TurnsStay ==
  ASSUME IntakeTyped, TurnsFit, UNCHANGED <<turn, turns, generation, closing>>
  PROVE  IntakeTyped' /\ TurnsFit'
BY DEF IntakeTyped, TurnsFit

\* A turn ends: no other becomes current.
LEMMA TurnEnds ==
  ASSUME IntakeTyped, TurnsFit, NEW n \in Nodes, turn' = [turn EXCEPT ![n] = NoTurn],
         UNCHANGED <<turns, generation, closing>>
  PROVE  IntakeTyped' /\ TurnsFit' /\ \A m \in Nodes : Current(m)' => Current(m)
<1> USE BoundsAssumption
<1>1. NoTurn \in TurnRecord /\ NoTurn.token = -1
  BY DEF NoTurn, TurnRecord
<1>2. \A m \in Nodes : turn'[m] = IF m = n THEN NoTurn ELSE turn[m]
  BY DEF IntakeTyped
<1>3. turn' \in [Nodes -> TurnRecord]
  BY <1>1 DEF IntakeTyped
<1>4. generation \in Nat
  BY DEF IntakeTyped
<1>5. TurnsFit'
  BY <1>1, <1>2, <1>4 DEF TurnsFit
<1>6. \A m \in Nodes : Current(m)' => Current(m)
  BY <1>2 DEF Current
<1> QED
  BY <1>3, <1>5, <1>6 DEF IntakeTyped

\* A message is received, with the generation of now.
LEMMA TurnBegins ==
  ASSUME IntakeTyped, TurnsFit, NEW n \in Nodes, Receive(n) PROVE IntakeTyped' /\ TurnsFit'
<1> USE BoundsAssumption
<1>1. PICK p \in Nodes \cup {NoNode}, v \in BOOLEAN :
        turn' = [turn EXCEPT ![n] = [token |-> generation, ref |-> p, viaStatus |-> v]]
  BY DEF Receive
<1>2. turns' = turns + 1 /\ turns < MaxTurns /\ UNCHANGED <<generation, closing>>
  BY DEF Receive
<1>3. generation \in 0..MaxGenerations /\ turns \in 0..MaxTurns /\ turn \in [Nodes -> TurnRecord]
  BY DEF IntakeTyped
<1> DEFINE new == [token |-> generation, ref |-> p, viaStatus |-> v]
<1>4. new \in TurnRecord /\ new.token = generation
  BY <1>3 DEF TurnRecord
<1>5. turn' = [turn EXCEPT ![n] = new]
  BY <1>1
<1> HIDE DEF new
<1>6. turn' \in [Nodes -> TurnRecord] /\ \A m \in Nodes : turn'[m] = IF m = n THEN new ELSE turn[m]
  BY <1>3, <1>4, <1>5
<1>7. TurnsFit'
  BY <1>2, <1>3, <1>4, <1>6 DEF TurnsFit
<1>8. turns' \in 0..MaxTurns
  BY <1>2, <1>3
<1> QED
  BY <1>2, <1>6, <1>7, <1>8 DEF IntakeTyped

\* A stop or clear of the chat invalidates every turn.
LEMMA TurnsLapse ==
  ASSUME IntakeTyped, TurnsFit, generation < MaxGenerations, generation' = generation + 1,
         UNCHANGED <<turn, turns>>, closing' \in {closing, "closing"}
  PROVE  IntakeTyped' /\ TurnsFit' /\ \A n \in Nodes : ~Current(n)'
<1> USE BoundsAssumption
<1>1. generation \in 0..MaxGenerations
  BY DEF IntakeTyped
<1>2. generation' \in 0..MaxGenerations
  BY <1>1
<1>3. ASSUME NEW n \in Nodes PROVE turn'[n].token <= generation' /\ turn'[n].token # generation'
  <2>1. turn[n].token \in Int /\ turn[n].token <= generation
    BY DEF IntakeTyped, TurnRecord, TurnsFit
  <2> QED
    BY <1>1, <2>1
<1> QED
  BY <1>2, <1>3 DEF IntakeTyped, TurnsFit, Current

\* A new process has no turns.
LEMMA TurnsRestart ==
  ASSUME IntakeTyped, Restart PROVE IntakeTyped' /\ TurnsFit'
<1> USE BoundsAssumption
<1>1. turn' = [n \in Nodes |-> NoTurn] /\ generation' = 0 /\ closing' = "open" /\ turns' = turns
  BY DEF Restart
<1>2. NoTurn \in TurnRecord /\ NoTurn.token = -1
  BY DEF NoTurn, TurnRecord
<1> QED
  BY <1>1, <1>2 DEF IntakeTyped, TurnsFit

\* Every step keeps the turns no newer than the generation.
LEMMA IntakeStep ==
  ASSUME TreesInv, IntakeTyped, TurnsFit, [Next]_vars PROVE IntakeTyped' /\ TurnsFit'
<1>1. CASE vars' = vars
  BY <1>1, TurnsStay DEF vars
<1>2. ASSUME NEW n \in Nodes, Receive(n) PROVE IntakeTyped' /\ TurnsFit'
  BY <1>2, TurnBegins
<1>3. ASSUME NEW n \in Nodes, Discard(n) \/ Admit(n) \/ AdmitAgain(n)
      PROVE IntakeTyped' /\ TurnsFit'
  BY <1>3, TurnEnds DEF Discard, Admit, AdmitAgain
<1>4. ASSUME NEW c \in Claims, Run(c) PROVE IntakeTyped' /\ TurnsFit'
  BY <1>4, RunStep, TurnsStay
<1>5. ASSUME NEW n \in Nodes, StopReply(n) \/ TakeSnapshot(n) PROVE IntakeTyped' /\ TurnsFit'
  BY <1>5, TurnsStay DEF StopReply, TakeSnapshot, intake
<1>6. ASSUME NEW n \in Nodes, NEW v \in BOOLEAN, ClearReply(n, v) PROVE IntakeTyped' /\ TurnsFit'
  BY <1>6, TurnsStay DEF ClearReply, intake
<1>7. CASE StopAll
  BY <1>7, TurnsLapse DEF StopAll, intake
<1>8. CASE ClearChat
  BY <1>8, TurnsLapse DEF ClearChat, intake
<1>9. CASE Save
  BY <1>9, TurnsStay DEF Save, intake
<1>10. CASE Close
  BY <1>10 DEF Close, intake, IntakeTyped, TurnsFit
<1>11. CASE Restart
  BY <1>11, TurnsRestart
<1> QED
  BY <1>1, <1>2, <1>3, <1>4, <1>5, <1>6, <1>7, <1>8, <1>9, <1>10, <1>11 DEF Next

\* The holder of the lock with nothing captured yet.
LEMMA HolderStarts ==
  ASSUME NEW op \in {"idle", "stop", "stopAll", "clearReply", "clearChat"},
         NEW roots \in SUBSET Nodes, NEW drop \in SUBSET Nodes,
         wf' = [op |-> op, roots |-> roots, snaps |-> {}, drop |-> drop]
  PROVE  HolderTyped' /\ wf'.op = op /\ wf'.roots = roots /\ wf'.drop = drop /\ wf'.snaps = {}
BY DEF HolderTyped

\* Every step keeps the type of the holder of the lock.
LEMMA HolderStep ==
  ASSUME TreesInv, HolderTyped, [Next]_vars PROVE HolderTyped'
<1>1. ASSUME wf' = wf PROVE HolderTyped'
  BY <1>1 DEF HolderTyped
<1>2. CASE vars' = vars
  BY <1>1, <1>2 DEF vars
<1>3. ASSUME NEW n \in Nodes, Receive(n) \/ Discard(n) \/ Admit(n) \/ AdmitAgain(n)
      PROVE HolderTyped'
  BY <1>1, <1>3 DEF Receive, Discard, Admit, AdmitAgain
<1>4. ASSUME NEW c \in Claims, Run(c) PROVE HolderTyped'
  BY <1>1, <1>4, RunStep
<1>5. ASSUME NEW n \in Nodes, StopReply(n) PROVE HolderTyped'
  <2>1. node[n].root \in Nodes
    BY <1>5 DEF StopReply, TreesInv, TreesFit, PromptFits, Known
  <2>2. wf' = [op |-> "stop", roots |-> {node[n].root}, snaps |-> {}, drop |-> {}]
    BY <1>5 DEF StopReply, Idle
  <2> QED
    BY <2>1, <2>2, HolderStarts
<1>6. ASSUME NEW n \in Nodes, TakeSnapshot(n) PROVE HolderTyped'
  <2> DEFINE s == SnapshotOf(node, n)
  <2>1. IsSnapshot(s)
    <3>1. node \in [Nodes -> NodeRecord]
      BY DEF TreesInv, TreesTyped
    <3> QED
      BY <3>1, SnapshotIs
  <2>2. wf' = [wf EXCEPT !.roots = @ \ {n},
                  !.snaps = IF n \in Published THEN @ \cup {<<n, s>>} ELSE @]
    BY <1>6 DEF TakeSnapshot
  <2> HIDE DEF s
  <2>3. wf' = [op |-> wf.op, roots |-> wf.roots \ {n},
               snaps |-> IF n \in Published THEN wf.snaps \cup {<<n, s>>}
                  ELSE wf.snaps, drop |-> wf.drop]
    BY <2>2 DEF HolderTyped
  <2>4. wf'.snaps \subseteq wf.snaps \cup {<<n, s>>}
    BY <2>3
  <2>5. \A p \in wf'.snaps : p[1] \in Nodes /\ IsSnapshot(p[2])
    BY <2>1, <2>4 DEF HolderTyped
  <2> QED
    BY <2>3, <2>5 DEF HolderTyped
<1>7. ASSUME NEW n \in Nodes, NEW v \in BOOLEAN, ClearReply(n, v) PROVE HolderTyped'
  <2> DEFINE r == node[n].root
             affected == RemovedBy(n, v) \cup {n}
  <2>1. r \in Nodes
    BY <1>7 DEF ClearReply, Resolves, TreesInv, TreesFit, PromptFits, Known
  <2>2. CASE Untargetable(r, affected)
    BY <1>1, <1>7, <2>2 DEF ClearReply
  <2>3. CASE ~Untargetable(r, affected)
    <3>1. PICK roots \in {{}, {r}}, drop \in {{}, {r}} :
              wf' = [op |-> "clearReply", roots |-> roots, snaps |-> {}, drop |-> drop]
      BY <1>7, <2>3 DEF ClearReply, Idle
    <3> QED
      BY <2>1, <3>1, HolderStarts
  <2> QED
    BY <2>2, <2>3
<1>8. CASE StopAll
  <2>1. CASE wf' = [op |-> "stopAll", roots |-> Published, snaps |-> {}, drop |-> {}]
    BY <2>1, HolderStarts DEF Published
  <2> QED
    BY <1>1, <1>8, <2>1 DEF StopAll, Idle
<1>9. CASE ClearChat
  <2>1. CASE wf' = [op |-> "clearChat", roots |-> {}, snaps |-> {}, drop |-> Nodes]
    BY <2>1, HolderStarts
  <2> QED
    BY <1>1, <1>9, <2>1 DEF ClearChat, Idle
<1>10. CASE Save \/ Restart
  BY <1>10, HolderStarts DEF Save, Restart, Idle
<1>11. CASE Close
  BY <1>1, <1>11 DEF Close
<1> QED
  BY <1>2, <1>3, <1>4, <1>5, <1>6, <1>7, <1>8, <1>9, <1>10, <1>11 DEF Next

\* A tree is saved.
LEMMA SaveTyped ==
  ASSUME SnapshotsTyped, node' \in [Nodes -> NodeRecord], NEW r,
         store' = [store EXCEPT ![r] = SnapshotOf(node', r)]
  PROVE  SnapshotsTyped'
<1> DEFINE s == SnapshotOf(node', r)
<1>1. IsSnapshot(s)
  BY SnapshotIs
<1>2. store' = [store EXCEPT ![r] = s]
  OBVIOUS
<1> HIDE DEF s
<1> QED
  BY <1>1, <1>2 DEF SnapshotsTyped

\* Every step keeps the type of the store.
LEMMA SnapshotsStep ==
  ASSUME TreesInv, TreesInv', TypeOK, StoreFits, [Next]_vars PROVE SnapshotsTyped'
<1>1. SnapshotsTyped /\ node' \in [Nodes -> NodeRecord]
  BY DEF TypeOK, SnapshotsTyped, TreesInv, TreesTyped
<1>2. ASSUME store' = store PROVE SnapshotsTyped'
  BY <1>1, <1>2 DEF SnapshotsTyped
<1>3. CASE vars' = vars
  BY <1>2, <1>3 DEF vars
<1>4. ASSUME NEW n \in Nodes, Receive(n) \/ Discard(n) \/ StopReply(n) \/ TakeSnapshot(n)
      PROVE SnapshotsTyped'
  BY <1>2, <1>4 DEF Receive, Discard, StopReply, TakeSnapshot
<1>5. ASSUME NEW n \in Nodes, Admit(n) PROVE SnapshotsTyped'
  <2>1. PICK r : store' = [store EXCEPT ![r] = SnapshotOf(node', r)]
    BY <1>5 DEF Admit
  <2> QED
    BY <1>1, <2>1, SaveTyped
<1>6. ASSUME NEW n \in Nodes, AdmitAgain(n) PROVE SnapshotsTyped'
  BY <1>2, <1>6, AgainChangesNothing
<1>7. ASSUME NEW c \in Claims, Run(c) PROVE SnapshotsTyped'
  BY <1>1, <1>2, <1>7, RunStep, SaveTyped DEF Saves
<1>8. ASSUME NEW n \in Nodes, NEW v \in BOOLEAN, ClearReply(n, v) PROVE SnapshotsTyped'
  BY <1>2, <1>8 DEF ClearReply
<1>9. CASE StopAll \/ Close
  BY <1>2, <1>9 DEF StopAll, Close
<1>10. CASE ClearChat
  <2>1. IsSnapshot(NoSnapshot)
    BY DEF IsSnapshot, NoSnapshot
  <2>2. CASE store' = [r \in Nodes |-> NoSnapshot]
    <3>1. DOMAIN store' = Nodes /\ \A r \in Nodes : store'[r] = NoSnapshot
      BY <2>2
    <3> QED
      BY <2>1, <3>1 DEF SnapshotsTyped
  <2> QED
    BY <1>2, <1>10, <2>2 DEF ClearChat
<1>11. CASE Save
  <2>1. store' = Saved /\ wf.roots = {} /\ DOMAIN store' = Nodes
    BY <1>11 DEF Save, Saved
  <2>2. IsSnapshot(NoSnapshot)
    BY DEF IsSnapshot, NoSnapshot
  <2>3. ASSUME NEW r \in Nodes PROVE IsSnapshot(Saved[r])
    <3>1. \A p \in wf.snaps : IsSnapshot(p[2])
      BY DEF TypeOK
    <3>2. IsSnapshot(store[r])
      BY DEF TypeOK
    <3>3. \/ Saved[r] = NoSnapshot \/ Saved[r] = store[r] \/ \E p \in wf.snaps : Saved[r] = p[2]
      BY <2>1, SavedIs
    <3> QED
      BY <2>2, <3>1, <3>2, <3>3
  <2> QED
    BY <2>1, <2>3 DEF SnapshotsTyped
<1>12. CASE Restart
  <2>1. DOMAIN store' = Nodes /\ \A r \in Nodes : store'[r] = SnapshotOf(node', r)
           \/ store'[r] = NoSnapshot
    BY <1>12 DEF Restart
  <2>2. IsSnapshot(NoSnapshot)
    BY DEF IsSnapshot, NoSnapshot
  <2>3. \A r \in Nodes : IsSnapshot(SnapshotOf(node', r))
    BY <1>1, SnapshotIs
  <2> QED
    BY <2>1, <2>2, <2>3 DEF SnapshotsTyped
<1> QED
  BY <1>3, <1>4, <1>5, <1>6, <1>7, <1>8, <1>9, <1>10, <1>11, <1>12 DEF Next

-----------------------------------------------------------------------------
(* Stops and the close. *)

\* A stop of all that reaches every tree leaves nothing to run.
LEMMA StopEndsWork ==
  ASSUME TreesInv, CancelTrees(Published)
  PROVE  /\ \A n \in Nodes : node'[n].state \notin Runnable
         /\ \A c \in Claims : ~Working(c)'
<1>1. /\ node' = Stopped({n \in Nodes : node[n].root \in Published})
      /\ tasks' = CancelTasks({active[r] : r \in Published})
  BY DEF CancelTrees
<1>2. ASSUME NEW n \in Nodes PROVE node'[n].state \notin Runnable
  <2>1. node[n].state \in Runnable => node[n].root \in Published
    BY DEF TreesInv, TreesFit, PromptFits, Published, Known, Runnable
  <2> DEFINE s == {m \in Nodes : node[m].root \in Published}
  <2>2. n \in s <=> node[n].root \in Published
    OBVIOUS
  <2>3. node' = Stopped(s)
    BY <1>1
  <2> HIDE DEF s
  <2>4. node'[n].state = IF n \in s /\ node[n].state \in Runnable THEN "ERROR" ELSE node[n].state
    BY <2>3, PromptsStop
  <2> QED
    BY <2>1, <2>2, <2>4 DEF Runnable
<1>3. ASSUME NEW c \in Claims, Working(c)' PROVE FALSE
  <2> DEFINE cs == {active[r] : r \in Published}
  <2>1. tasks' = CancelTasks(cs) /\ TreesTyped
    BY <1>1 DEF TreesInv
  <2>2. Working(c) => c \in cs
    <3>1. Working(c) => active[tasks[c].root] = c /\ tasks[c].root \in Nodes /\ c # 0
      BY DEF TreesInv, OneRunnerPerTree, ClaimsFit, Working, Claims
    <3>2. Working(c) => tasks[c].root \in Published
      BY <3>1 DEF TreesInv, ActiveHasTask
    <3> QED
      BY <3>1, <3>2
  <2> HIDE DEF cs
  <2>3. /\ c \in cs => tasks'[c].cancelled
        /\ c \notin cs => tasks'[c] = tasks[c]
    BY <2>1, CancelChanges
  <2> QED
    BY <1>3, <2>2, <2>3 DEF Working, Over
<1> QED
  BY <1>2, <1>3

\* Nothing becomes runnable while a stop of all holds the lock.
LEMMA QuietStep ==
  ASSUME TreesInv, StopIsQuiet, [Next]_vars PROVE StopIsQuiet'
<1>1. ASSUME wf'.op # "stopAll" PROVE StopIsQuiet'
  BY <1>1 DEF StopIsQuiet
<1>2. ASSUME wf' = wf, Unlocked PROVE StopIsQuiet'
  BY <1>1, <1>2 DEF Unlocked
<1>3. ASSUME node' = node, wf'.op = wf.op PROVE StopIsQuiet'
  BY <1>3 DEF StopIsQuiet
<1>4. CASE vars' = vars
  BY <1>3, <1>4 DEF vars
<1>5. ASSUME NEW n \in Nodes, Receive(n) \/ Discard(n) \/ Admit(n) \/ AdmitAgain(n)
      PROVE StopIsQuiet'
  BY <1>2, <1>5 DEF Receive, Discard, Admit, AdmitAgain
<1>6. ASSUME NEW c \in Claims, Run(c) PROVE StopIsQuiet'
  BY <1>6, RunStep DEF RunChanges, StopIsQuiet
<1>7. ASSUME NEW n \in Nodes, StopReply(n) PROVE StopIsQuiet'
  BY <1>1, <1>7 DEF StopReply, Idle
<1>8. ASSUME NEW n \in Nodes, TakeSnapshot(n) PROVE StopIsQuiet'
  <2>1. wf'.op = wf.op
    BY <1>8 DEF TakeSnapshot
  <2> QED
    BY <1>3, <1>8, <2>1 DEF TakeSnapshot, trees
<1>9. ASSUME NEW n \in Nodes, NEW v \in BOOLEAN, ClearReply(n, v) PROVE StopIsQuiet'
  <2>1. CASE wf' = wf
    BY <1>2, <1>9, <2>1 DEF ClearReply
  <2>2. CASE wf' # wf
    BY <1>1, <1>9, <2>2 DEF ClearReply, Idle
  <2> QED
    BY <2>1, <2>2
<1>10. CASE StopAll
  <2>1. CASE CancelTrees(Published)
    BY <2>1, StopEndsWork DEF StopIsQuiet
  <2>2. CASE wf' = wf
    BY <1>2, <1>10, <2>2 DEF StopAll
  <2> QED
    BY <1>10, <2>1, <2>2 DEF StopAll
<1>11. CASE ClearChat
  <2>1. CASE wf' = wf
    BY <1>2, <1>11, <2>1 DEF ClearChat
  <2>2. CASE wf' # wf
    BY <1>1, <1>11, <2>2 DEF ClearChat, Idle
  <2> QED
    BY <2>1, <2>2
<1>12. CASE Save \/ Restart
  BY <1>1, <1>12 DEF Save, Restart, Idle
<1>13. CASE Close
  BY <1>3, <1>13 DEF Close, trees
<1> QED
  BY <1>4, <1>5, <1>6, <1>7, <1>8, <1>9, <1>10, <1>11, <1>12, <1>13 DEF Next

\* Close has begun.
Closing == closing # "open"

\* A step that leaves the prompts and the store alone, with no work and no turn.
LEMMA CloseStays ==
  ASSUME CloseFits, node' = node, store' = store, wf' = wf, closing' = closing,
         Closing => \A c \in Claims : ~Working(c)',
         Closing => \A n \in Nodes : ~Current(n)'
  PROVE  CloseFits'
<1>1. \A r : Waits(r)' <=> Waits(r)
  BY DEF Waits
<1>2. Published' = Published
  BY DEF Published, Known
<1> QED
  BY <1>1, <1>2 DEF CloseFits, Closing

\* A stop finds nothing to stop.
LEMMA NothingStops ==
  ASSUME TreesInv, NEW s, node' = Stopped(s), \A n \in Nodes : node[n].state \notin Runnable
  PROVE  node' = node
<1>1. node \in [Nodes -> NodeRecord] /\ DOMAIN node' = Nodes
  BY DEF TreesInv, TreesTyped, Stopped
<1>2. \A n \in Nodes : node'[n] = node[n]
  BY DEF Stopped
<1>3. node' = [n \in Nodes |-> node[n]]
  BY <1>2 DEF Stopped
<1> QED
  BY <1>1, <1>3

\* A cancellation makes no claim work.
LEMMA CancelledEnd ==
  ASSUME TreesInv, NEW cs, tasks' = CancelTasks(cs), NEW c \in Claims, ~Working(c)
  PROVE  ~Working(c)'
<1>1. TreesTyped
  BY DEF TreesInv
<1>2. /\ tasks'[c].place = IF c \in cs /\ tasks[c].place \in {"fresh", "successor"}
                           THEN "finishing" ELSE tasks[c].place
      /\ c \in cs => tasks'[c].cancelled
      /\ c \notin cs => tasks'[c] = tasks[c]
  BY <1>1, CancelChanges
<1> QED
  BY <1>2 DEF Working, Over

\* A reply with /stop while close goes on.
LEMMA ClosedStops ==
  ASSUME TreesInv, StoreFits, CloseFits, NEW n \in Nodes, StopReply(n) PROVE CloseFits'
<1> SUFFICES ASSUME Closing PROVE CloseFits'
  BY DEF StopReply, CloseFits, Closing
<1>1. /\ Unlocked /\ node' = Stopped({n}) /\ store' = store /\ closing' = closing
      /\ wf' = [Idle EXCEPT !.op = "stop", !.roots = {node[n].root}]
      /\ UNCHANGED <<turn, turns, generation>>
      /\ \E cs : tasks' = CancelTasks(cs)
  BY DEF StopReply, intake
<1>2. wf'.op = "stop" /\ wf'.snaps = {} /\ wf'.drop = {}
  BY <1>1 DEF Idle
<1>3. \A m \in Nodes : node[m].state \notin Runnable /\ ~Current(m)
  BY DEF CloseFits, Closing
<1>4. node' = node
  BY <1>1, <1>3, NothingStops
<1>5. \A c \in Claims : ~Working(c)'
  BY <1>1, CancelledEnd DEF CloseFits, Closing
<1>6. \A r \in Nodes : IF r \in Published THEN store[r] = SnapshotOf(node, r)
         ELSE store[r] = NoSnapshot
  BY <1>1 DEF CloseFits, Closing, StoreFits, Waits
<1>7. Published' = Published
  BY <1>4 DEF Published, Known
<1>8. Published \subseteq Nodes
  BY DEF Published
<1>9. \A m \in Nodes : ~Current(m)'
  BY <1>1, <1>3 DEF Current
<1> QED
  BY <1>1, <1>2, <1>3, <1>4, <1>5, <1>6, <1>7, <1>8, <1>9 DEF CloseFits

\* The stop that begins the close, or a later one.
LEMMA ClosedStopsAll ==
  ASSUME TreesInv, IntakeTyped, TurnsFit, StoreFits, CloseFits, StopAll PROVE CloseFits'
<1>1. /\ Unlocked /\ store' = store /\ closing' \in {closing, "closing"}
      /\ generation < MaxGenerations /\ generation' = generation + 1 /\ UNCHANGED <<turn, turns>>
  BY DEF StopAll, intake
<1>2. \A n \in Nodes : ~Current(n)'
  BY <1>1, TurnsLapse
<1>3. PICK s, cs : node' = Stopped(s) /\ tasks' = CancelTasks(cs)
  BY DEF StopAll, CancelTrees
<1>4. PromptsRemain /\ Published' = Published
  <2>1. PromptsRemain
    BY <1>3, StoppedRemain
  <2> QED
    BY <2>1 DEF PromptsRemain, Published, Known
<1>5. Closing => node' = node /\ \A c \in Claims : ~Working(c)'
  <2>1. Closing => \A n \in Nodes : node[n].state \notin Runnable
    BY DEF CloseFits, Closing
  <2>2. Closing => \A c \in Claims : ~Working(c)
    BY DEF CloseFits, Closing
  <2> QED
    BY <1>3, <2>1, <2>2, NothingStops, CancelledEnd
<1>6. CASE wf' = wf /\ closing' = closing
  <2>1. CASE Closing
    BY <1>1, <1>2, <1>5, <1>6, <2>1, CloseStays
  <2>2. CASE ~Closing
    BY <1>6, <2>2 DEF CloseFits, Closing
  <2> QED
    BY <2>1, <2>2
<1>7. CASE CancelTrees(Published) /\ wf' = [Idle EXCEPT !.op = "stopAll", !.roots = Published]
  <2>1. wf'.op = "stopAll" /\ wf'.snaps = {} /\ wf'.drop = {} /\ wf'.roots = Published
    BY <1>7 DEF Idle
  <2>2. (\A n \in Nodes : node'[n].state \notin Runnable) /\ \A c \in Claims : ~Working(c)'
    BY <1>7, StopEndsWork
  <2>3. \A r \in Nodes : r \notin Published' => store'[r] = NoSnapshot
    BY <1>1, <1>4 DEF StoreFits
  <2>4. ASSUME NEW r \in Published'
        PROVE  store'[r] = SnapshotOf(node', r) \/ (closing' # "closed" /\ Waits(r)')
    <3>1. Waits(r)'
      BY <1>4, <2>1, <2>4 DEF Waits
    <3>2. CASE closing' = "closed"
      <4>1. Closing /\ node' = node /\ closing = "closed"
        BY <1>1, <1>5, <3>2 DEF Closing
      <4>2. r \in Nodes /\ r \in Published
        BY <1>4, <2>4 DEF Published
      <4> QED
        BY <1>1, <4>1, <4>2 DEF CloseFits, Closing
    <3> QED
      BY <3>1, <3>2
  <2> QED
    BY <1>2, <2>1, <2>2, <2>3, <2>4 DEF CloseFits
<1> QED
  BY <1>6, <1>7 DEF StopAll

\* A tree is captured as it is.
LEMMA ClosedSnapshots ==
  ASSUME CloseFits, HolderTyped, NEW r \in Nodes, TakeSnapshot(r) PROVE CloseFits'
<1> SUFFICES ASSUME Closing PROVE CloseFits'
  BY DEF TakeSnapshot, CloseFits, Closing
<1>1. /\ r \in wf.roots /\ node' = node /\ store' = store /\ closing' = closing /\ tasks' = tasks
      /\ UNCHANGED <<turn, generation>>
      /\ wf' = [wf EXCEPT !.roots = @ \ {r},
                  !.snaps = IF r \in Published THEN @ \cup {<<r, SnapshotOf(node, r)>>} ELSE @]
  BY DEF TakeSnapshot, trees, intake
<1> DEFINE s == SnapshotOf(node, r)
<1>2. /\ wf'.op = wf.op /\ wf'.roots = wf.roots \ {r} /\ wf'.drop = wf.drop
      /\ wf'.snaps = IF r \in Published THEN wf.snaps \cup {<<r, s>>} ELSE wf.snaps
  BY <1>1 DEF HolderTyped
<1>3. Published' = Published
  BY <1>1 DEF Published, Known
<1>4. \A q \in Published : Waits(q) => Waits(q)'
  <2> SUFFICES ASSUME NEW q \in Published, Waits(q) PROVE Waits(q)'
    OBVIOUS
  <2>1. CASE q = r
    <3>1. <<r, s>> \in wf'.snaps /\ <<r, s>>[1] = q
      BY <1>2, <2>1
    <3> QED
      BY <3>1 DEF Waits
  <2>2. CASE q # r
    BY <1>2, <2>2 DEF Waits
  <2> QED
    BY <2>1, <2>2
<1>5. ASSUME NEW p \in wf'.snaps PROVE p[2] = SnapshotOf(node, p[1])
  <2>1. p \in wf.snaps => p[2] = SnapshotOf(node, p[1])
    BY DEF CloseFits, Closing
  <2>2. p \notin wf.snaps => p = <<r, s>>
    BY <1>2
  <2>3. <<r, s>>[1] = r /\ <<r, s>>[2] = s
    OBVIOUS
  <2> QED
    BY <2>1, <2>2, <2>3
<1>6. \A c \in Claims : ~Working(c)'
  BY <1>1 DEF Working, Over, CloseFits, Closing
<1>7. \A n \in Nodes : ~Current(n)'
  BY <1>1 DEF Current, CloseFits, Closing
<1> HIDE DEF s
<1> QED
  BY <1>1, <1>2, <1>3, <1>4, <1>5, <1>6, <1>7 DEF CloseFits, Closing

\* What is saved while close goes on is what the trees are.
LEMMA ClosedSaves ==
  ASSUME StoreFits, CloseFits, Save PROVE CloseFits'
<1> SUFFICES ASSUME Closing PROVE CloseFits'
  BY DEF Save, CloseFits, Closing
<1>1. /\ wf.roots = {} /\ node' = node /\ store' = Saved /\ closing' = closing /\ tasks' = tasks
      /\ UNCHANGED <<turn, generation>> /\ wf' = Idle
  BY DEF Save, trees, intake
<1>2. Published' = Published
  BY <1>1 DEF Published, Known
<1>3. wf'.op = "idle" /\ wf'.snaps = {} /\ wf'.drop = {}
  BY <1>1 DEF Idle
<1>4. ASSUME NEW r \in Nodes
      PROVE  IF r \in Published THEN Saved[r] = SnapshotOf(node, r) ELSE Saved[r] = NoSnapshot
  <2>1. r \notin wf.drop
    BY DEF CloseFits, Closing
  <2>2. ASSUME NEW p \in wf.snaps, p[1] = r, Saved[r] = p[2]
        PROVE  r \in Published /\ Saved[r] = SnapshotOf(node, r)
    BY <2>2 DEF CloseFits, Closing, StoreFits
  <2>3. CASE ~Waits(r) /\ Saved[r] = store[r]
    BY <2>3 DEF CloseFits, Closing
  <2> QED
    BY <1>1, <2>1, <2>2, <2>3, SavedIs
<1>5. \A c \in Claims : ~Working(c)'
  BY <1>1 DEF Working, Over, CloseFits, Closing
<1>6. \A n \in Nodes : ~Current(n)'
  BY <1>1 DEF Current, CloseFits, Closing
<1>7. Published \subseteq Nodes
  BY DEF Published
<1> QED
  BY <1>1, <1>2, <1>3, <1>4, <1>5, <1>6, <1>7 DEF CloseFits, Closing

\* Close returns: nobody holds the lock, so nothing waits to be saved.
LEMMA Closes ==
  ASSUME StoreFits, CloseFits, Close PROVE CloseFits'
<1>1. /\ Closing /\ Unlocked
            /\ UNCHANGED <<node, queue, active, tasks, turn, turns, generation, wf, store>>
  BY DEF Close, trees, intake, Closing
<1>2. Published' = Published /\ Published \subseteq Nodes
  BY <1>1 DEF Published, Known
<1>3. \A r : ~Waits(r)
  BY <1>1 DEF StoreFits, Waits
<1>4. \A c \in Claims : ~Working(c)'
  BY <1>1 DEF Working, Over, CloseFits, Closing
<1>5. \A n \in Nodes : ~Current(n)'
  BY <1>1 DEF Current, CloseFits, Closing
<1> QED
  BY <1>1, <1>2, <1>3, <1>4, <1>5 DEF CloseFits, Closing

\* Every step keeps what the close promises.
LEMMA CloseStep ==
  ASSUME TreesInv, IntakeTyped, HolderTyped, TurnsFit, StoreFits, CloseFits, [Next]_vars
  PROVE CloseFits'
<1>1. ASSUME closing' = "open" PROVE CloseFits'
  BY <1>1 DEF CloseFits
<1>2. CASE vars' = vars
  BY <1>2, CloseStays DEF vars, Working, Over, Current, CloseFits, Closing
<1>3. ASSUME NEW n \in Nodes, Receive(n) PROVE CloseFits'
  BY <1>1, <1>3 DEF Receive
<1>4. ASSUME NEW n \in Nodes, Discard(n) PROVE CloseFits'
  <2>1. UNCHANGED <<node, store, wf, closing, tasks>>
    BY <1>4 DEF Discard, trees
  <2>2. \A m \in Nodes : Current(m)' => Current(m)
    BY <1>4, TurnEnds DEF Discard
  <2> QED
    BY <2>1, <2>2, CloseStays DEF Working, Over, CloseFits, Closing
<1>5. ASSUME NEW n \in Nodes, Admit(n) \/ AdmitAgain(n) PROVE CloseFits'
  BY <1>1, <1>5 DEF Admit, AdmitAgain, CloseFits
<1>6. ASSUME NEW c \in Claims, Run(c) PROVE CloseFits'
  <2>1. RunNeedsWork(c) /\ UNCHANGED <<turn, turns, generation, wf, closing>>
    BY <1>6, RunStep
  <2>2. CASE Closing
    <3>1. ~Working(c) /\ \A m \in Nodes : node[m].state # "PENDING"
      BY <2>2 DEF CloseFits, Closing, Runnable
    <3>2. node' = node /\ store' = store /\ \A d \in Claims : Working(d)' => Working(d)
      BY <2>1, <3>1 DEF RunNeedsWork
    <3>3. \A d \in Claims : ~Working(d)'
      BY <2>2, <3>2 DEF CloseFits, Closing
    <3>4. \A n \in Nodes : ~Current(n)'
      BY <2>1, <2>2 DEF CloseFits, Closing, Current
    <3> QED
      BY <2>1, <3>2, <3>3, <3>4, CloseStays
  <2>3. CASE ~Closing
    BY <1>1, <2>1, <2>3 DEF Closing
  <2> QED
    BY <2>2, <2>3
<1>7. ASSUME NEW n \in Nodes, StopReply(n) PROVE CloseFits'
  BY <1>7, ClosedStops
<1>8. ASSUME NEW n \in Nodes, TakeSnapshot(n) PROVE CloseFits'
  BY <1>8, ClosedSnapshots
<1>9. ASSUME NEW n \in Nodes, NEW v \in BOOLEAN, ClearReply(n, v) PROVE CloseFits'
  BY <1>1, <1>9 DEF ClearReply
<1>10. CASE StopAll
  BY <1>10, ClosedStopsAll
<1>11. CASE ClearChat
  BY <1>1, <1>11 DEF ClearChat
<1>12. CASE Save
  BY <1>12, ClosedSaves
<1>13. CASE Close
  BY <1>13, Closes
<1>14. CASE Restart
  BY <1>1, <1>14 DEF Restart
<1> QED
  BY <1>2, <1>3, <1>4, <1>5, <1>6, <1>7, <1>8, <1>9, <1>10, <1>11, <1>12, <1>13, <1>14 DEF Next

-----------------------------------------------------------------------------
(* The theorems. *)

\* No tree is there at first.
LEMMA InitTrees == Init => TreesInv
<1> SUFFICES ASSUME Init PROVE TreesInv
  OBVIOUS
<1> USE NodesAssumption, BoundsAssumption DEF Init
<1>1. Blank \in NodeRecord /\ Blank.state = "absent"
  BY DEF Blank, NodeRecord
<1>2. [Gone EXCEPT !.place = "unclaimed"] \in TaskRecord
         /\ [Gone EXCEPT !.place = "unclaimed"].place = "unclaimed"
  BY DEF Gone, TaskRecord, Places
<1>3. TreesTyped
  BY <1>1, <1>2 DEF TreesTyped
<1>4. \A n \in Nodes : node[n] = Blank
  OBVIOUS
<1>5. TreesFit(node)
  BY <1>1, <1>4 DEF TreesFit, Hangs, PromptFits
<1>6. \A c \in Claims : Over(c)
  BY <1>2 DEF Over
<1> QED
  BY <1>1, <1>3, <1>4, <1>5, <1>6, QuietFits DEF Quiet, Runnable

\* The invariant holds at first.
LEMMA ConversationInit == Init => ConversationInv
<1> SUFFICES ASSUME Init PROVE ConversationInv
  OBVIOUS
<1> USE BoundsAssumption, NodesAssumption
<1>1. TreesInv
  BY InitTrees
<1>2. /\ \A n \in Nodes : turn[n] = NoTurn
      /\ turns = 0 /\ generation = 0 /\ closing = "open" /\ wf = Idle
      /\ turn = [n \in Nodes |-> NoTurn] /\ store = [n \in Nodes |-> NoSnapshot]
  BY DEF Init
<1>3. NoTurn \in TurnRecord /\ NoTurn.token = -1
  BY DEF NoTurn, TurnRecord
<1>4. IntakeTyped /\ TurnsFit
  BY <1>2, <1>3 DEF IntakeTyped, TurnsFit
<1>5. HolderTyped /\ wf.op = "idle" /\ wf.roots = {} /\ wf.snaps = {} /\ wf.drop = {}
  BY <1>2 DEF HolderTyped, Idle
<1>6. DOMAIN store = Nodes /\ \A r \in Nodes : store[r] = NoSnapshot /\ DOMAIN store[r] = {}
  BY <1>2 DEF NoSnapshot
<1>7. SnapshotsTyped
  BY <1>6 DEF SnapshotsTyped, IsSnapshot
<1>8. StoreFits
  BY <1>5, <1>6 DEF StoreFits
<1>9. StopIsQuiet /\ CloseFits
  BY <1>2, <1>5 DEF StopIsQuiet, CloseFits
<1>10. TypeOK
  BY <1>1, <1>4, <1>5, <1>7, Types DEF OthersTyped
<1> QED
  BY <1>1, <1>4, <1>8, <1>9, <1>10 DEF ConversationInv

\* Every step keeps it.
LEMMA ConversationStep == ConversationInv /\ [Next]_vars => ConversationInv'
<1> SUFFICES ASSUME ConversationInv, [Next]_vars PROVE ConversationInv'
  OBVIOUS
<1>1. TreesInv /\ TypeOK /\ StopIsQuiet /\ StoreFits /\ TurnsFit /\ CloseFits
  BY DEF ConversationInv
<1>2. IntakeTyped /\ HolderTyped
  BY <1>1, Types DEF OthersTyped
<1>3. TreesInv'
  BY <1>1, TreesStep
<1>4. StoreFits'
  BY <1>1, <1>3, StoreStep
<1>5. IntakeTyped' /\ TurnsFit'
  BY <1>1, <1>2, IntakeStep
<1>6. HolderTyped'
  BY <1>1, <1>2, HolderStep
<1>7. SnapshotsTyped'
  BY <1>1, <1>3, SnapshotsStep
<1>8. StopIsQuiet'
  BY <1>1, QuietStep
<1>9. CloseFits'
  BY <1>1, <1>2, CloseStep
<1>10. (IntakeTyped /\ HolderTyped /\ SnapshotsTyped)' => OthersTyped'
  BY DEF OthersTyped
<1>11. (TreesInv /\ OthersTyped)' => TypeOK'
  BY Types, PTL
<1> QED
  BY <1>3, <1>4, <1>5, <1>6, <1>7, <1>8, <1>9, <1>10, <1>11 DEF ConversationInv

\* The inductive invariant holds.
THEOREM ConversationCorrectness == Spec => []ConversationInv
BY ConversationInit, ConversationStep, PTL DEF Spec

\* A tree's work is run by exactly one task: a cancellation before the task enters, a
\* failure or a clear never strands a queue, and no prompt runs twice
\* (messaging/trees/processor.py and aggregate.py).
THEOREM RunnerCorrectness == Spec => []ExactlyOneRunner
<1>1. ConversationInv => ExactlyOneRunner
  BY DEF ConversationInv, TreesInv, ExactlyOneRunner
<1> QED
  BY <1>1, ConversationCorrectness, PTL

\* The queue of a tree holds exactly its pending prompts, and a prompt runs only after the
\* one it replies to has settled.
THEOREM QueueCorrectness == Spec => []QueueIsInOrder
<1>1. ConversationInv => QueueIsInOrder
  BY DEF ConversationInv, TreesInv, QueueIsInOrder
<1> QED
  BY <1>1, ConversationCorrectness, PTL

\* A run resumes the session of the prompt it replies to exactly if there is one.
THEOREM ResumeCorrectness == Spec => []ResumeMatchesParent
<1>1. ConversationInv => ResumeMatchesParent
  BY DEF ConversationInv, TreesInv
<1> QED
  BY <1>1, ConversationCorrectness, PTL

\* While a stop of all work drains nothing is runnable (messaging/workflow.py).
THEOREM StopCorrectness == Spec => []StopIsQuiet
<1>1. ConversationInv => StopIsQuiet
  BY DEF ConversationInv
<1> QED
  BY <1>1, ConversationCorrectness, PTL

\* The store holds no tree that was cleared, and when close returns it holds exactly the
\* published trees.
THEOREM StoreCorrectness == Spec => []StoreFollowsTrees
<1>1. ConversationInv => StoreFollowsTrees
  <2> SUFFICES ASSUME ConversationInv PROVE StoreFollowsTrees
    OBVIOUS
  <2>1. StoreFits /\ CloseFits /\ TypeOK
    BY DEF ConversationInv
  <2>2. StoreNeverResurrects
    BY <2>1 DEF StoreNeverResurrects, StoreFits
  <2>3. ClosedStoreIsExact
    BY <2>1 DEF ClosedStoreIsExact, CloseFits, Members
  <2> QED
    BY <2>1, <2>2, <2>3 DEF StoreFollowsTrees
<1> QED
  BY <1>1, ConversationCorrectness, PTL

\* from_snapshot accepts every snapshot of the store.
THEOREM RestoreCorrectness == Spec => []StoreIsRestorable
<1>1. ConversationInv => StoreIsRestorable
  BY DEF ConversationInv, StoreFits, StoreIsRestorable, SnapshotFits
<1> QED
  BY <1>1, ConversationCorrectness, PTL

\* A step after which a failed prompt has not come back.
FailedStay == \A n \in Nodes : node[n].state = "ERROR" => node'[n].state \in {"ERROR", "absent"}

\* What a stop leaves failed stays so.
LEMMA StoppedStay == ASSUME TreesInv, NEW s, node' = Stopped(s) PROVE FailedStay
BY PromptsStop DEF FailedStay

\* Only the run of a claim brings a failed prompt back.
LEMMA CancelledStep ==
  ASSUME TreesInv, [Next]_vars
  PROVE  \/ Restart \/ FailedStay
         \/ \E c \in Claims : RunChanges(c)
<1>1. ASSUME node' = node PROVE FailedStay
  BY <1>1 DEF FailedStay
<1>2. CASE vars' = vars
  BY <1>1, <1>2 DEF vars
<1>3. ASSUME NEW n \in Nodes, Receive(n) \/ Discard(n) \/ AdmitAgain(n) \/ TakeSnapshot(n)
      PROVE FailedStay
  BY <1>1, <1>3, AgainChangesNothing DEF Receive, Discard, TakeSnapshot, trees
<1>4. ASSUME NEW n \in Nodes, Admit(n) PROVE FailedStay
  <2> DEFINE p == turn[n].ref
             r == IF p = NoNode THEN n ELSE node[p].root
             new == [state |-> "PENDING", root |-> r, parent |-> p,
                     viaStatus |-> turn[n].viaStatus, status |-> TRUE, session |-> FALSE]
             nodes == [node EXCEPT ![n] = new]
  <2>1. ~Known(n) /\ (node' = nodes \/ node' = [nodes EXCEPT ![n].state = "IN_PROGRESS"])
    BY <1>4 DEF Admit, EnqueueOrClaim
  <2>2. DOMAIN node = Nodes
    BY DEF TreesInv, TreesTyped
  <2> HIDE DEF new
  <2>3. \A m \in Nodes \ {n} : node'[m] = node[m]
    BY <2>1, <2>2
  <2> QED
    BY <2>1, <2>3 DEF FailedStay, Known
<1>5. ASSUME NEW c \in Claims, Run(c) PROVE \E d \in Claims : RunChanges(d)
  BY <1>5, RunStep
<1>6. ASSUME NEW n \in Nodes, StopReply(n) PROVE FailedStay
  BY <1>6, StoppedStay DEF StopReply
<1>7. ASSUME NEW n \in Nodes, NEW v \in BOOLEAN, ClearReply(n, v) PROVE FailedStay
  <2> DEFINE removed == RemovedBy(n, v)
             affected == removed \cup {n}
  <2>1. CASE Untargetable(node[n].root, affected)
    <3>1. PICK s : node' = Stopped(s)
      BY <1>7, <2>1 DEF ClearReply
    <3> QED
      BY <3>1, StoppedStay
  <2>2. CASE ~Untargetable(node[n].root, affected)
    <3>1. node' = [m \in Nodes |->
                 IF m \in removed THEN Blank
                 ELSE IF m = n
                      THEN [node[m] EXCEPT !.state = "ERROR", !.status = FALSE, !.session = FALSE]
                      ELSE node[m]]
      BY <1>7, <2>2 DEF ClearReply
    <3>2. node \in [Nodes -> NodeRecord]
      BY DEF TreesInv, TreesTyped
    <3> HIDE DEF removed
    <3>3. ASSUME NEW m \in Nodes PROVE node'[m].state \in {"absent", "ERROR", node[m].state}
      BY <3>1, <3>2 DEF NodeRecord, Blank
    <3> QED
      BY <3>3 DEF FailedStay
  <2> QED
    BY <2>1, <2>2
<1>8. ASSUME StopAll PROVE FailedStay
  BY <1>8, StoppedStay DEF StopAll, CancelTrees
<1>9. ASSUME ClearChat PROVE FailedStay
  <2>1. PICK s : node' = [n \in Nodes |-> IF node[n].root \in s THEN Blank ELSE node[n]]
    BY <1>9 DEF ClearChat, DetachTrees
  <2>2. \A n \in Nodes : node'[n] = Blank \/ node'[n] = node[n]
    BY <2>1
  <2> QED
    BY <2>2 DEF FailedStay, Blank
<1>10. ASSUME Save \/ Close PROVE FailedStay
  BY <1>1, <1>10 DEF Save, Close, trees
<1> QED
  BY <1>2, <1>3, <1>4, <1>5, <1>6, <1>7, <1>8, <1>9, <1>10 DEF Next

\* A prompt that failed or was cancelled never runs or completes again, unless its own
\* claim is still honoured.
THEOREM CancelCorrectness == Spec => CancelledStaysCancelled
<1>1. ConversationInv /\ [Next]_vars =>
        [Restart \/ \A n \in Nodes :
          node[n].state = "ERROR" /\ node'[n].state \notin {"ERROR", "absent"} =>
              \E c \in Claims : Honoured(c) /\ tasks[c].node = n]_vars
  <2> SUFFICES ASSUME ConversationInv, [Next]_vars
               PROVE  Restart \/ \A n \in Nodes :
                        node[n].state = "ERROR" /\ node'[n].state \notin {"ERROR", "absent"} =>
                          \E c \in Claims : Honoured(c) /\ tasks[c].node = n
    OBVIOUS
  <2>1. TreesInv
    BY DEF ConversationInv
  <2>2. CASE FailedStay
    BY <2>2 DEF FailedStay
  <2>3. CASE \E c \in Claims : RunChanges(c)
    BY <2>3 DEF RunChanges
  <2> QED
    BY <2>1, <2>2, <2>3, CancelledStep
<1> QED
  BY <1>1, ConversationCorrectness, PTL DEF Spec, CancelledStaysCancelled
=================================================================================
