------------------------------ MODULE MemTree ------------------------------
(***************************************************************************)
(* The memory tree: a document is cut into chunks within a budget of       *)
(* tokens (chunk_markdown), the chunks are stored (ingest_chunks), and     *)
(* parents are built over them, fanout by fanout, up to one root           *)
(* (build_summary_tree), each call in a transaction of its own that an     *)
(* error rolls back.                                                       *)
(*                                                                         *)
(* A block of the document is its number of characters; a summary is the   *)
(* sequence of the leaves it was made from.  Abstracted: the text itself,  *)
(* paths, scores, timestamps.                                              *)
(***************************************************************************)
EXTENDS Naturals, Sequences, FiniteSets

CONSTANTS
  Documents,  \* documents: sequences of the lengths of their blocks
  Budgets,    \* values of budget_tokens
  Fanouts,    \* values of fanout
  MaxBuilds,  \* bound: calls of build_summary_tree
  NoNode

ASSUME MemTreeAssumption ==
  /\ Documents \subseteq Seq(Nat \ {0}) /\ Budgets \subseteq Nat /\ Fanouts \subseteq Nat
  /\ MaxBuilds \in Nat /\ NoNode \notin Nat

VARIABLES
  text, budget, fanout,  \* what the caller passes
  pc,
  memory_chunks,         \* the table, by id: parent_id, level, summary
  leaves,                \* what ingest_chunks returned
  tx,                    \* the table as the transaction of a build sees it
  current, next, level,  \* the build's variables; current without the groups done
  root,                  \* what the last build returned
  builds

input == <<text, budget, fanout>>
build == <<tx, current, next, level>>
tree  == <<input, pc, memory_chunks, leaves, build, root, builds>>

-----------------------------------------------------------------------------
(* chunk_markdown.                                                         *)

\* estimate_tokens: a quarter of the characters, rounded up, and at least 1.
Tokens(n) == IF n = 0 THEN 1 ELSE (n + 3) \div 4

Budget == IF budget = 0 THEN 1 ELSE budget

\* cur.push_str: blocks are joined by a blank line.
Joined(n, m) == IF n = 0 THEN m ELSE n + 2 + m

\* Bug: what is in the chunk is not counted.
FitsAlone(n, m) == n = 0 \/ Tokens(m) <= Budget

\* Whether block m goes into a chunk of n characters.
Fits(n, m) == n = 0 \/ Tokens(n) + Tokens(m) <= Budget

\* The whole chunks, the blocks of the chunk in hand and its characters, with block i.
OneMore(bs, so_far, i) ==
  LET done == so_far[1]  cur == so_far[2]  n == so_far[3]
  IN IF Fits(n, bs[i]) THEN <<done, Append(cur, i), Joined(n, bs[i])>>
     ELSE <<Append(done, cur), <<i>>, bs[i]>>

\* After each block, from none to all.
Cut(bs) ==
  LET cut[i \in 0 .. Len(bs)] ==
        IF i = 0 THEN <<<<>>, <<>>, 0>> ELSE OneMore(bs, cut[i - 1], i)
  IN cut

\* The chunks of a document, each the sequence of its blocks' positions.
Chunks(bs) ==
  LET last == Cut(bs)[Len(bs)]
  IN IF last[2] = <<>> THEN last[1] ELSE Append(last[1], last[2])

-----------------------------------------------------------------------------

TreeInit ==
  /\ text \in Documents /\ budget \in Budgets /\ fanout \in Fanouts
  /\ pc = "new" /\ memory_chunks = <<>> /\ leaves = <<>>
  /\ tx = <<>> /\ current = <<>> /\ next = <<>> /\ level = 0
  /\ root = NoNode /\ builds = 0

Node(lv, sum) == [parent |-> NoNode, level |-> lv, summary |-> sum]

\* ingest_chunks: one transaction.
Ingest ==
  /\ pc = "new" /\ pc' = "stored"
  /\ memory_chunks' = [i \in 1 .. Len(Chunks(text)) |-> Node(0, <<i>>)]
  /\ leaves' = [i \in 1 .. Len(Chunks(text)) |-> i]
  /\ UNCHANGED <<input, build, root, builds>>

\* build_summary_tree, for leaves and a fanout of 2 or more.
TreeBegins ==
  /\ pc = "stored" /\ builds < MaxBuilds
  /\ leaves # <<>> /\ fanout >= 2
  /\ pc' = "building" /\ builds' = builds + 1
  /\ tx' = memory_chunks /\ current' = leaves /\ next' = <<>> /\ level' = 1
  /\ UNCHANGED <<input, memory_chunks, leaves, root>>

Take(s) == SubSeq(s, 1, IF Len(s) < fanout THEN Len(s) ELSE fanout)

\* The summaries of the chunks in ids, as summarize is given them.
Summary(ids) ==
  LET made[k \in 0 .. Len(ids)] == IF k = 0 THEN <<>> ELSE made[k - 1] \o tx[ids[k]].summary
  IN made[Len(ids)]

\* set_parent, for every chunk of the group.
Adopted(group, pid) ==
  [i \in DOMAIN tx |->
     IF \E k \in DOMAIN group : group[k] = i THEN [tx[i] EXCEPT !.parent = pid] ELSE tx[i]]

\* A group gets a parent: summarize, insert, set_parent.
Group ==
  LET group == Take(current)  pid == Len(tx) + 1
  IN /\ pc = "building" /\ Len(current) + Len(next) > 1 /\ current # <<>>
     /\ tx' = Append(Adopted(group, pid), Node(level, Summary(group)))
     /\ next' = Append(next, pid)
     /\ current' = SubSeq(current, Len(group) + 1, Len(current))
     /\ UNCHANGED <<input, pc, memory_chunks, leaves, level, root, builds>>

\* The next level: more than one node is left.
Ascend ==
  /\ pc = "building" /\ current = <<>>
  /\ current' = next /\ next' = <<>> /\ level' = level + 1
  /\ UNCHANGED <<input, pc, memory_chunks, leaves, tx, root, builds>>

\* Bug: a document of one chunk has no level to go up.
CommitsAbove ==
  /\ pc = "building" /\ Len(current) = 1 /\ next = <<>> /\ level > 1
  /\ memory_chunks' = tx /\ root' = current[1] /\ pc' = "stored"
  /\ UNCHANGED <<input, leaves, build, builds>>

\* One node is left.
Commits ==
  /\ pc = "building" /\ Len(current) = 1 /\ next = <<>>
  /\ memory_chunks' = tx /\ root' = current[1] /\ pc' = "stored"
  /\ UNCHANGED <<input, leaves, build, builds>>

\* Bug: what was inserted stays.
FailsHalfway ==
  /\ pc = "building" /\ Len(current) + Len(next) > 1 /\ current # <<>>
  /\ memory_chunks' = tx /\ pc' = "stored"
  /\ UNCHANGED <<input, leaves, build, root, builds>>

\* summarize fails, or the process dies.
Fails ==
  /\ pc = "building" /\ Len(current) + Len(next) > 1 /\ current # <<>>
  /\ pc' = "stored"
  /\ UNCHANGED <<input, memory_chunks, leaves, build, root, builds>>

TreeNext == Ingest \/ TreeBegins \/ Group \/ Ascend \/ Commits \/ Fails

TreeSpec == TreeInit /\ [][TreeNext]_tree

\* A call that has begun goes on.
TreeFairness == WF_tree(Group \/ Ascend \/ Commits)

-----------------------------------------------------------------------------
(* Properties.                                                             *)

\* Every variable stays within its type.
TreeTypeOK ==
  /\ text \in Documents /\ budget \in Budgets /\ fanout \in Fanouts
  /\ pc \in {"new", "stored", "building"} /\ builds \in 0 .. MaxBuilds /\ level \in Nat
  /\ root = NoNode \/ root \in DOMAIN memory_chunks
  /\ \A t \in {memory_chunks, tx} : \A i \in DOMAIN t :
       /\ t[i].parent # NoNode => t[i].parent \in DOMAIN t /\ t[i].level < t[t[i].parent].level
       /\ t[i].level \in Nat /\ \A k \in DOMAIN t[i].summary : t[i].summary[k] \in DOMAIN leaves

Chars(c) ==
  LET n[k \in 0 .. Len(c)] == 
        IF k = 0 THEN 0 ELSE LET before == n[k - 1] IN Joined(before, text[c[k]])
  IN n[Len(c)]

Flat(cs) ==
  LET f[k \in 0 .. Len(cs)] == IF k = 0 THEN <<>> ELSE f[k - 1] \o cs[k] IN f[Len(cs)]

\* chunk_markdown loses and moves no paragraph, and cuts only where the next paragraph
\* would not fit; a chunk of several is over the budget by one token at most, as the
\* blank lines between them are not counted (memtree.rs:17 says within the budget).
ChunkedRight ==
  LET cs == Chunks(text)
  IN /\ Flat(cs) = [i \in 1 .. Len(text) |-> i]
     /\ \A k \in DOMAIN cs : Len(cs[k]) > 1 => Tokens(Chars(cs[k])) <= Budget + 1
     /\ \A k \in DOMAIN cs : k > 1 => Tokens(Chars(cs[k - 1])) + Tokens(text[cs[k][1]]) > Budget

\* The parent links of t, from i upwards.
Top(t, i) ==
  LET up[n \in 0 .. Len(leaves)] ==
        IF n = 0 THEN i
        ELSE LET j == up[n - 1] IN IF t[j].parent = NoNode THEN j ELSE t[j].parent
  IN up[Len(leaves)]

\* A build that has returned left one tree over all the leaves: its root's summary was
\* made from every leaf once and in their order, every leaf leads to it, and no node of it
\* has more than fanout children or children of two levels.
TreeWhole ==
  (pc = "stored" /\ root # NoNode) =>
    /\ memory_chunks[root].summary = leaves
    /\ \A i \in DOMAIN leaves : Top(memory_chunks, leaves[i]) = root
    /\ \A p \in DOMAIN memory_chunks :
         LET kids == {i \in DOMAIN memory_chunks : memory_chunks[i].parent = p}
         IN /\ Cardinality(kids) <= fanout
            /\ \A i \in kids : memory_chunks[i].level + 1 = memory_chunks[p].level

\* A build that fails leaves nothing: every stored node is a leaf or belongs to the tree
\* of a build that has returned.
NothingHalf ==
  \A i \in DOMAIN memory_chunks :
    memory_chunks[i].level > 0 =>
      memory_chunks[Top(memory_chunks, i)].summary = leaves

\* The table holds the whole tree of the last build that committed (a node that an earlier
\* build shared with it has moved to it) and nothing of a build that failed.
BuildsWhole == TreeTypeOK /\ TreeWhole /\ NothingHalf

\* Every build returns: the levels shrink, whatever the fan-out.
BuildsReturn == pc = "building" ~> pc = "stored"
=============================================================================
