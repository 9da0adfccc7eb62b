--------------------------- MODULE KnowledgeGraph ---------------------------
(***************************************************************************)
(* A graph tab of the GUI (gui/src/knowledge_graph): a thread polls the    *)
(* time stamps of graph.json and of the overlay graphsync writes, reads    *)
(* and merges the two when one has changed (data.rs), and the tab draws    *)
(* what it last read and keeps a focused group and a selected node by      *)
(* their indices in it.                                                    *)
(*                                                                         *)
(* Positions, camera and colours are left out; a frame is asked for all    *)
(* the time.  The writers of the two files are external.                   *)
(***************************************************************************)
EXTENDS Integers, SequencesExt, Maps, Screen

CONSTANTS
  BaseGraphs, Overlays,  \* what is written: [nodes, edges]
  Matching,         \* pairs of a candidate and a path: equal, or the relative end of it
  Titles,           \* the name and the stem of the file of a path
  MaxAddedNodes,    \* overlay_max_added_nodes
  MaxWrites         \* a bound of the model

\* GraphNode, with "" for no source_file, and GraphEdge.
GraphNodes == [id : STRING, file : STRING, label : STRING, community : Int]
GraphEdges == [source : STRING, target : STRING]

\* graphsync numbers the communities of the overlay from 0; those of the base are anything.
ASSUME GraphAssumption ==
  /\ MaxAddedNodes \in Nat
  /\ BaseGraphs \cup Overlays \subseteq [nodes : Seq(GraphNodes), edges : Seq(GraphEdges)]
  /\ \A g \in Overlays : \A i \in DOMAIN g.nodes : g.nodes[i].community \in Nat

VARIABLES
  baseFile, overlayFile,  \* [state: missing, partial or whole; graph; mtime]
  addsNodes,              \* overlay_adds_nodes
  lastMtimes, loading,    \* the thread: none, or the file it is about to read with the lock held
  baseRead,               \* graph.json as read
  graph, error,           \* Shared
  shownGraph, groupFocus, selectedNode, writes

files == <<baseFile, overlayFile, addsNodes, writes>>
loader == <<lastMtimes, loading, baseRead, graph, error>>
tab == <<shownGraph, groupFocus, selectedNode>>
graphTab == <<files, loader, tab>>

NoGraph == [nodes |-> <<>>, edges |-> <<>>]
NoView == [loaded |-> FALSE, nodes |-> <<>>, edges |-> <<>>, base |-> NoGraph, overlay |-> NoGraph]
Missing == [state |-> "missing", graph |-> NoGraph, mtime |-> 0]

GraphTabInit ==
  /\ baseFile \in {Missing} \cup {[state |-> "whole", graph |-> g, mtime |-> 1] : g \in BaseGraphs}
  /\ overlayFile \in {Missing} \cup {[state |-> "whole", graph |-> g, mtime |-> 1] : g \in Overlays}
  /\ addsNodes \in BOOLEAN
  /\ lastMtimes = <<>> /\ loading = "none" /\ baseRead = Missing
  /\ graph = NoView /\ error = FALSE
  /\ shownGraph = NoView /\ groupFocus = 0 /\ selectedNode = 0 /\ writes = 0

-----------------------------------------------------------------------------
\* merge_overlay

Path(node) == IF node.file = "" THEN node.id ELSE node.file

\* match_base_node: of the nodes of a file the one that bears its name, or the first; 0 for none.
MatchBaseNode(base, path) ==
  LET candidates == {i \in DOMAIN base.nodes :
                       <<base.nodes[i].id, path>> \in Matching \/ <<base.nodes[i].file, path>> \in Matching}
      titled == {i \in candidates : base.nodes[i].label \in Titles[path]}
  IN  IF titled # {} THEN Min(titled) ELSE IF candidates # {} THEN Min(candidates) ELSE 0

OverlayDegree(overlay, id) ==
  Cardinality({i \in DOMAIN overlay.edges : overlay.edges[i].source = id})
  + Cardinality({i \in DOMAIN overlay.edges : overlay.edges[i].target = id})
DegreeOf(overlay, i) == OverlayDegree(overlay, overlay.nodes[i].id)

Unmatched(base, overlay) == {i \in DOMAIN overlay.nodes : MatchBaseNode(base, Path(overlay.nodes[i])) = 0}

\* The best connected, and of equals the first in the overlay.
Best(overlay, rest) ==
  LET most == Max({DegreeOf(overlay, i) : i \in rest})
  IN  Min({i \in rest : DegreeOf(overlay, i) = most})

CommunityOffset(base) ==
  IF base.nodes = <<>> THEN 0 ELSE Max({base.nodes[i].community : i \in DOMAIN base.nodes}) + 1

Ids(nodes) == {nodes[i].id : i \in DOMAIN nodes}

\* The node that stands for an id of the overlay: the one its last bearer matches.
MatchedIds(base, overlay) ==
  LET matched == DOMAIN overlay.nodes \ Unmatched(base, overlay)
      Bearer(id) == Max({i \in matched : overlay.nodes[i].id = id})
  IN  [id \in {overlay.nodes[i].id : i \in matched} |->
         base.nodes[MatchBaseNode(base, Path(overlay.nodes[Bearer(id)]))].id]

\* The next of those without a match, if there is room and nobody has its id.
AddNode(base, overlay, maxAdded, sofar) ==
  LET i == Best(overlay, sofar.rest)
      node == overlay.nodes[i]
      added == [node EXCEPT !.community = CommunityOffset(base) + @]
      left == sofar.rest \ {i}
  IN  IF Len(sofar.nodes) - Len(base.nodes) >= maxAdded \/ node.id \in Ids(sofar.nodes)
      THEN [sofar EXCEPT !.rest = left]
      ELSE [rest |-> left, nodes |-> Append(sofar.nodes, added), ids |-> With(sofar.ids, node.id, node.id)]

\* The nodes of the merged graph, and the id that stands for each overlay node in it.
MergeNodes(base, overlay, maxAdded) ==
  LET unmatched == Unmatched(base, overlay)
      after[n \in 0..Cardinality(unmatched)] ==
        IF n = 0 THEN [rest |-> unmatched, nodes |-> base.nodes, ids |-> MatchedIds(base, overlay)]
        ELSE AddNode(base, overlay, maxAdded, after[n - 1])
  IN  after[Cardinality(unmatched)]

Pair(edge) == {edge.source, edge.target}
Pairs(edges) == {Pair(edges[i]) : i \in DOMAIN edges}

\* Mutant: an edge between two nodes that have one is added as well.
MergeEdgeAgain(ids, edges, e) ==
  IF {e.source, e.target} \subseteq DOMAIN ids /\ ids[e.source] # ids[e.target]
  THEN Append(edges, [source |-> ids[e.source], target |-> ids[e.target]]) ELSE edges

\* Between two nodes the edge that was there first stays.
MergeEdge(ids, edges, e) ==
  LET edge == [source |-> ids[e.source], target |-> ids[e.target]]
  IN  IF /\ {e.source, e.target} \subseteq DOMAIN ids
         /\ edge.source # edge.target /\ Pair(edge) \notin Pairs(edges)
      THEN Append(edges, edge) ELSE edges

MergeEdges(base, overlay, ids) ==
  LET after[n \in 0..Len(overlay.edges)] ==
        IF n = 0 THEN base.edges ELSE MergeEdge(ids, after[n - 1], overlay.edges[n])
  IN  after[Len(overlay.edges)]

MergeOverlay(base, overlay, maxAdded) ==
  LET merged == MergeNodes(base, overlay, maxAdded)
  IN  [loaded |-> TRUE, nodes |-> merged.nodes, edges |-> MergeEdges(base, overlay, merged.ids),
       base |-> base, overlay |-> overlay]

\* layout_graph: the groups are the communities in order.
Groups(view) == {view.nodes[i].community : i \in DOMAIN view.nodes}
GroupOf(view, i) == Cardinality({c \in Groups(view) : c <= view.nodes[i].community})

-----------------------------------------------------------------------------
\* The files.

Written(file, state, g) == [state |-> state, graph |-> g, mtime |-> file.mtime + 1]
CountWrites(n) == writes + n <= MaxWrites /\ writes' = writes + n

\* graph.json is written in place, the overlay is renamed into place.
BeginBase == /\ baseFile.state # "partial" /\ CountWrites(2)
             /\ baseFile' = Written(baseFile, "partial", NoGraph)
             /\ UNCHANGED <<overlayFile, addsNodes, loader, tab>>
EndBase(g) == /\ baseFile.state = "partial" /\ baseFile' = Written(baseFile, "whole", g)
              /\ UNCHANGED <<overlayFile, addsNodes, writes, loader, tab>>
WriteOverlay(g) == /\ CountWrites(1) /\ overlayFile' = Written(overlayFile, "whole", g)
                   /\ UNCHANGED <<baseFile, addsNodes, loader, tab>>

-----------------------------------------------------------------------------
\* spawn_watcher

Mtimes == <<baseFile.mtime, overlayFile.mtime>>

\* Mutant: only the base is watched.
NoticeBaseChange ==
  /\ loading = "none" /\ (lastMtimes # <<>> => lastMtimes[1] # Mtimes[1])
  /\ lastMtimes' = Mtimes /\ loading' = "base"
  /\ UNCHANGED <<files, baseRead, graph, error, tab>>

\* The time stamps are taken before the files are read; from here on the lock is held.
NoticeChange ==
  /\ loading = "none" /\ lastMtimes # Mtimes
  /\ lastMtimes' = Mtimes /\ loading' = "base"
  /\ UNCHANGED <<files, baseRead, graph, error, tab>>

ReadBase ==
  /\ loading = "base" /\ loading' = "overlay" /\ baseRead' = baseFile
  /\ UNCHANGED <<files, lastMtimes, graph, error, tab>>

\* load_sources: without a base the overlay may stand alone, if it may bring nodes at all.
OverlayCounts(base, overlay, adds) == overlay.state = "whole" /\ (adds \/ base.state = "whole")
Readable(base, overlay, adds) == base.state = "whole" \/ OverlayCounts(base, overlay, adds)

View(base, overlay, adds) ==
  IF OverlayCounts(base, overlay, adds)
  THEN MergeOverlay(base.graph, overlay.graph, IF adds THEN MaxAddedNodes ELSE 0)
  ELSE [NoView EXCEPT !.loaded = (base.state = "whole"), !.base = base.graph,
                      !.nodes = base.graph.nodes, !.edges = base.graph.edges]

\* What cannot be read leaves the graph as it was and is reported.
FinishLoad ==
  /\ loading = "overlay" /\ loading' = "none"
  /\ \E view \in {View(baseRead, overlayFile, addsNodes)} :
       graph' = (IF view.loaded THEN view ELSE graph) /\ error' = ~view.loaded
  /\ UNCHANGED <<files, lastMtimes, baseRead, tab>>

-----------------------------------------------------------------------------
\* A frame: what is out of range is let go, then the user's gesture is taken.

FocusFits == IF groupFocus > Cardinality(Groups(graph)) THEN 0 ELSE groupFocus
NodeFits == IF selectedNode > Len(graph.nodes) THEN 0 ELSE selectedNode

GraphFrame(group, node) ==
  /\ loading = "none" /\ shownGraph' = graph
  /\ IF graph.loaded THEN groupFocus' = group /\ selectedNode' = node
     ELSE UNCHANGED <<groupFocus, selectedNode>>
  /\ UNCHANGED <<files, loader>>

ShowGraph == GraphFrame(FocusFits, NodeFits)
DoubleClick == GraphFrame(0, NodeFits)
\* Escape and a click beside everything: first the node is let go, then the group.
StepBack == GraphFrame(IF NodeFits = 0 THEN 0 ELSE FocusFits, 0)
GoBack == FocusFits # 0 /\ GraphFrame(0, 0)
CloseDetail == NodeFits # 0 /\ GraphFrame(FocusFits, 0)
ClickGroup(g) == g # FocusFits /\ GraphFrame(g, 0)
ClickNode(n) == GroupOf(graph, n) = FocusFits /\ GraphFrame(FocusFits, n)

GraphTabNext ==
  \/ BeginBase \/ (\E g \in BaseGraphs : EndBase(g)) \/ (\E g \in Overlays : WriteOverlay(g))
  \/ NoticeChange \/ ReadBase \/ FinishLoad
  \/ ShowGraph \/ DoubleClick \/ StepBack \/ GoBack \/ CloseDetail
  \/ (\E g \in 1..Cardinality(Groups(graph)) : ClickGroup(g)) \/ (\E n \in DOMAIN graph.nodes : ClickNode(n))

\* Polls, reads and frames go on, and a write that was begun ends.  (The step that ends a load
\* is FinishLoad.)
GraphTabFairness ==
  /\ WF_graphTab(focus = "graph" /\ (NoticeChange \/ ReadBase))
  /\ WF_loading(focus = "graph" /\ loading = "overlay" /\ loading' = "none")
  /\ WF_graphTab(focus = "graph" /\ ShowGraph)
  /\ WF_graphTab(focus = "graph" /\ (\E g \in BaseGraphs : EndBase(g)))

-----------------------------------------------------------------------------
(* Properties                                                              *)

\* The merged graph keeps the base as it was; it has at most max_added_nodes more nodes, each
\* once, in groups of their own, none left out that has more edges than one taken; and no two
\* edges join a pair one of them was added to (merge_overlay).
MergeIsSound ==
  LET base == graph.base
      added == SubSeq(graph.nodes, Len(base.nodes) + 1, Len(graph.nodes))
      edges == graph.edges
      taken == {i \in Unmatched(base, graph.overlay) : graph.overlay.nodes[i].id \in Ids(added)}
  IN  /\ SubSeq(graph.nodes, 1, Len(base.nodes)) = base.nodes
      /\ SubSeq(edges, 1, Len(base.edges)) = base.edges
      /\ Len(added) <= (IF addsNodes THEN MaxAddedNodes ELSE 0)
      /\ Cardinality(Ids(added)) = Len(added) /\ Ids(added) \cap Ids(base.nodes) = {}
      /\ {added[i].community : i \in DOMAIN added}
           \cap {base.nodes[i].community : i \in DOMAIN base.nodes} = {}
      /\ \A i \in taken, j \in Unmatched(base, graph.overlay) \ taken :
           graph.overlay.nodes[j].id \in Ids(base.nodes) \/ DegreeOf(graph.overlay, i) >= DegreeOf(graph.overlay, j)
      /\ \A i \in Len(base.edges) + 1..Len(edges) :
           /\ Pair(edges[i]) \subseteq Ids(graph.nodes) /\ Cardinality(Pair(edges[i])) = 2
           /\ \A j \in DOMAIN edges \ {i} : Pair(edges[i]) # Pair(edges[j])

\* Once the files rest the tab shows what is in them, or reports that it cannot and keeps
\* what it had: no write is missed, in whichever moment of a load it came (spawn_watcher).
GraphFollows ==
  LET readable == Readable(baseFile, overlayFile, addsNodes)
      merged == OverlayCounts(baseFile, overlayFile, addsNodes)
  IN  <>[](/\ error = ~readable
           /\ readable => /\ shownGraph.base = baseFile.graph
                          /\ shownGraph.overlay = IF merged THEN overlayFile.graph ELSE NoGraph)
=============================================================================
