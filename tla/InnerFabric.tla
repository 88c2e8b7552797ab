---------------------------- MODULE InnerFabric ----------------------------
(***************************************************************************)
(* The in-memory Fabric as a value: nodes, the signature index, the        *)
(* authoritative edges with their reverse index, each node's cached        *)
(* ContextField, and the Lamport clock; and what each method makes of it.  *)
(* The methods take &mut self, so each is one step of its caller.          *)
(*                                                                         *)
(* The metadata are not signed.  A reverse index is kept as multiplicities *)
(* (its order is never read).  Weights, embeddings, confidence, wall-clock *)
(* instants and traces are left out.                                       *)
(***************************************************************************)
EXTENDS Naturals, Sequences, FiniteSets, NodeContent, Queries

CONSTANTS
  Ids,       \* lineage ids
  Kinds      \* RelationshipKind

Edge == [target : Ids, kind : Kinds]
IsNode(n) ==
  /\ DOMAIN n = {"content", "signature", "meta", "context", "version", "ts"}
  /\ IsContent(n.content) /\ IsMetadata(n.meta)
  /\ n.context \in Seq(Edge) /\ n.version \in Nat /\ n.ts \in Nat

\* What HashMap's insert and remove do to a map; a record gets another field.
Put(map, k, v) == [x \in DOMAIN map \cup {k} |-> IF x = k THEN v ELSE map[x]]
Without(map, k) == [x \in DOMAIN map \ {k} |-> map[x]]

IsFabric(f) ==
  /\ DOMAIN f = {"nodes", "index", "edges", "rev", "clock"}
  /\ DOMAIN f.nodes \subseteq Ids
  /\ \A i \in DOMAIN f.nodes : IsNode(f.nodes[i])
  /\ \A c \in DOMAIN f.index : f.index[c] \in Ids
  /\ f.edges \in [Ids -> Seq(Edge)]
  /\ f.rev \in [Ids -> [Ids -> Nat]]
  /\ f.clock \in Nat

Empty ==
  [nodes |-> [i \in {} |-> 0], index |-> [c \in {} |-> 0],
   edges |-> [i \in Ids |-> <<>>], rev |-> [i \in Ids |-> [j \in Ids |-> 0]], clock |-> 0]

(***************************************************************************)
(* Nodes.                                                                  *)
(***************************************************************************)

\* First insertion wins on a signature collision.
Indexed(index, s, i) == IF s \in DOMAIN index THEN index ELSE Put(index, s, i)

\* mutant: what was indexed stays indexed
StillIndexed(index, s, i) == index

Unindexed(index, s, i) ==
  IF s \in DOMAIN index /\ index[s] = i THEN Without(index, s) ELSE index

Fresh(c) ==
  [content |-> c, signature |-> SigBytes(c), meta |-> NoMetadata, context |-> <<>>,
   version |-> 0]

\* create: a node that replaces one of its id leaves that one's index entry.
Create(f, i, node) ==
  [f EXCEPT !.nodes = Put(@, i, Put(node, "ts", f.clock + 1)),
            !.index = Indexed(@, node.signature, i),
            !.clock = @ + 1]

Mutate(f, i, c) ==
  LET old == f.nodes[i].signature
      new == SigBytes(c)
  IN [f EXCEPT !.nodes[i].content = c,
               !.nodes[i].signature = new,
               !.nodes[i].version = @ + 1,
               !.nodes[i].ts = f.clock + 1,
               !.index = IF new = old THEN @ ELSE Indexed(Unindexed(@, old, i), new, i),
               !.clock = @ + 1]

\* The ids of a sequence mutated in turn, each once: contents stay, the activation is
\* stamped or nothing is.
Touch(f, order, stamped) ==
  LET turn(i) == CHOOSE n \in DOMAIN order : order[n] = i
      touched == {order[n] : n \in DOMAIN order}
  IN [f EXCEPT !.nodes = [i \in DOMAIN f.nodes |->
                            IF i \in touched
                            THEN [f.nodes[i] EXCEPT !.meta = IF stamped THEN StampActivation(@) ELSE @, !.version = @ + 1,
                                                    !.ts = f.clock + turn(i)]
                            ELSE f.nodes[i]],
               !.clock = @ + Len(order)]

\* verify_all_content_fingerprints, immune_maintenance: what is stored is not what
\* the content gives.
Damaged(f) == {i \in DOMAIN f.nodes : f.nodes[i].signature # SigBytes(f.nodes[i].content)}

(***************************************************************************)
(* Edges.                                                                  *)
(***************************************************************************)
SyncContext(f, ids) ==
  [f EXCEPT !.nodes = [i \in DOMAIN @ |->
                         IF i \in ids THEN [@[i] EXCEPT !.context = f.edges[i]] ELSE @[i]]]

MayLink(f, a, b) == a # b /\ {a, b} \subseteq DOMAIN f.nodes   \* else SelfEdge, NodeNotFound

AddEdge(f, a, b, k) ==
  SyncContext([f EXCEPT !.edges[a] = Append(@, [target |-> b, kind |-> k]),
                        !.rev[b][a] = @ + 1], {a})

\* Vec::retain: the edges of a list whose target is in ids.
Retain(edges, ids) ==
  LET kept[n \in 0..Len(edges)] ==
        IF n = 0 THEN <<>>
        ELSE IF edges[n].target \in ids THEN Append(kept[n - 1], edges[n]) ELSE kept[n - 1]
  IN kept[Len(edges)]

NotTo(edges, b) == Retain(edges, Ids \ {b})

Linked(f, a, b) == \E n \in DOMAIN f.edges[a] : f.edges[a][n].target = b

\* mutant: the context is not synced
RemoveWithoutSync(f, a, b) ==
  IF Linked(f, a, b) THEN [f EXCEPT !.edges[a] = NotTo(@, b), !.rev[b][a] = 0] ELSE f

RemoveEdgesBetween(f, a, b) ==
  IF Linked(f, a, b)
  THEN SyncContext([f EXCEPT !.edges[a] = NotTo(@, b), !.rev[b][a] = 0], {a})
  ELSE f

\* ModifyEdge: all the edges to the target become one, of the first one's kind.
ModifyEdge(f, a, b) ==
  LET first == CHOOSE n \in DOMAIN f.edges[a] :
                 /\ f.edges[a][n].target = b
                 /\ \A m \in 1..(n - 1) : f.edges[a][m].target # b
  IN AddEdge(RemoveEdgesBetween(f, a, b), a, b, f.edges[a][first].kind)

Fade(f, i) ==
  LET sources == {s \in Ids : f.rev[i][s] > 0}
  IN SyncContext(
       [f EXCEPT !.nodes = Without(@, i),
                 !.index = Unindexed(@, f.nodes[i].signature, i),
                 !.edges = [s \in Ids |-> IF s = i THEN <<>>
                                          ELSE IF s \in sources THEN NotTo(@[s], i) ELSE @[s]],
                 !.rev = [t \in Ids |-> IF t = i THEN [s \in Ids |-> 0]
                                        ELSE IF Linked(f, i, t) THEN [@[t] EXCEPT ![i] = 0]
                                        ELSE @[t]]],
       sources)

(***************************************************************************)
(* Saved and loaded.  The file holds the nodes (not their context), the    *)
(* edges and the clock; the indexes are built anew, and which of two nodes *)
(* of one signature comes first is the order of a HashMap.                 *)
(***************************************************************************)
Signatures(f) == {f.nodes[i].signature : i \in DOMAIN f.nodes}

Orders(f) ==
  {first \in [Signatures(f) -> DOMAIN f.nodes] :
     \A s \in Signatures(f) : f.nodes[first[s]].signature = s}

FromNode(node) ==
  LET constraints == node.content.constraints
  IN [want |-> node.content.want,
      constraints |-> [n \in DOMAIN constraints |-> FromConstraint(constraints[n])],
      resolution |-> FromTarget(node.content.resolution),
      metadata |-> node.meta, version |-> node.version, lamport |-> node.ts]

\* recompute_signature counts as a change; the saved version is put back after it.
IntoNode(entry) ==
  LET content == [want |-> entry.want,
                  constraints |-> [n \in DOMAIN entry.constraints |->
                                     ToConstraint(entry.constraints[n])],
                  resolution |-> ToTarget(entry.resolution)]
  IN Put([Fresh(content) EXCEPT !.meta = entry.metadata, !.version = entry.version],
         "ts", entry.lamport)

Save(f, first) ==
  [nodes |-> [i \in DOMAIN f.nodes |-> FromNode(f.nodes[i])],
   edges |-> f.edges, clock |-> f.clock, first |-> first]

\* JSON has neither NaN nor infinities: such a number is written as null, and load
\* refuses a null.
IsReadable(f) == \A i \in DOMAIN f.nodes : AllFinite(f.nodes[i].meta)

WithEdges(saved, edges) ==
  SyncContext([nodes |-> [i \in DOMAIN saved.nodes |-> IntoNode(saved.nodes[i])],
               index |-> saved.first,
               edges |-> edges,
               rev |-> [b \in Ids |-> [a \in Ids |->
                          Cardinality({n \in DOMAIN edges[a] : edges[a][n].target = b})]],
               clock |-> saved.clock],
              DOMAIN saved.nodes)

\* mutant: edges are restored in the pass that restores the nodes
RestoredInOnePass(saved) ==
  LET present == DOMAIN saved.nodes
  IN WithEdges(saved, [a \in Ids |-> IF a \in present
                         THEN Retain(saved.edges[a], {t \in present : t < a}) ELSE <<>>])

\* from_persisted: an edge with an end that was not saved is dropped.
Restored(saved) ==
  LET present == DOMAIN saved.nodes
  IN WithEdges(saved, [a \in Ids |-> IF a \in present
                         THEN Retain(saved.edges[a], present) ELSE <<>>])
=============================================================================
