---------------------------- MODULE ProcessTree ----------------------------
(***************************************************************************)
(* What psvis shows of a process: the listing that the kernel module       *)
(* prints (project-1-shell/module/mymodule.c) and the picture that plot.py *)
(* draws of it.  The processes stand still meanwhile.  A tree is a record: *)
(* its root; for each process its threads other than the first and its     *)
(* start_time; and for each thread, the first of which has the number of   *)
(* its process, the children it has started; in the kernel's order.        *)
(***************************************************************************)
EXTENDS Integers, SequencesExt

Line(ppid, pid, start) == [ppid |-> ppid, pid |-> pid, start_time |-> start]

\* The threads come with the number and the start of their process.
Threads(t, p) == [i \in DOMAIN t.threads[p] |-> Line(p, t.threads[p][i], t.start[p])]

\* A child is listed under the parent of its parent.
ListingFault(t) ==
  LET dfs[p \in DOMAIN t.threads, ppid \in Int] ==
        <<Line(ppid, p, t.start[p])>>
          \o Threads(t, p)
          \o FlattenSeq([i \in DOMAIN t.children[p] |-> dfs[t.children[p][i], ppid]])
  IN dfs[t.root, -1]

\* dfs: the process, its threads, and the children of its first thread.  Those
\* that another thread has started are on a list that is not looked at.
Listing(t) ==
  LET dfs[p \in DOMAIN t.threads, ppid \in Int] ==
        <<Line(ppid, p, t.start[p])>>
          \o Threads(t, p)
          \o FlattenSeq([i \in DOMAIN t.children[p] |-> dfs[t.children[p][i], p]])
  IN dfs[t.root, -1]

\* The dictionary nodes: a line whose pid is one of the numbers already given
\* out is left out.
Nodes(lines) ==
  LET Number(nodes, line) ==
        IF \E p \in DOMAIN nodes : nodes[p] = line.pid THEN nodes
        ELSE [p \in DOMAIN nodes \cup {line.pid} |->
                IF p = line.pid THEN Cardinality(DOMAIN nodes) ELSE nodes[p]]
  IN FoldLeft(Number, [p \in {} |-> 0], lines)

\* Otherwise nodes_[i] raises KeyError for the last vertex.
Drawable(lines) == Cardinality(DOMAIN Nodes(lines)) = Len(lines)

\* eldest_childs, for the processes that have one: the first child in the
\* listing, unless a later one started before their parent.
Eldest(lines) ==
  LET start == [p \in {line.pid : line \in ToSet(lines)} |->
                  (CHOOSE line \in ToSet(lines) : line.pid = p).start_time]
      Older(eldest, line) ==
        IF \/ line.ppid = -1
           \/ line.ppid \in DOMAIN eldest /\ line.start_time >= start[line.ppid]
        THEN eldest
        ELSE [p \in DOMAIN eldest \cup {line.ppid} |->
                IF p = line.ppid THEN line.pid ELSE eldest[p]]
  IN FoldLeft(Older, [p \in {} |-> 0], lines)

\* The picture: the vertices by number with their labels, the edges between
\* numbers, and the vertices in orange.
Picture(lines) ==
  LET nodes == Nodes(lines)
      eldest == Eldest(lines)
  IN [label |-> [i \in 0 .. Len(lines) - 1 |-> CHOOSE p \in DOMAIN nodes : nodes[p] = i],
      edges |-> {<<nodes[line.ppid], nodes[line.pid]>> :
                   line \in {l \in ToSet(lines) : l.ppid # -1}},
      orange |-> {nodes[eldest[p]] : p \in DOMAIN eldest}]
-----------------------------------------------------------------------------
(***************************************************************************)
(* The same of the tree itself                                             *)
(***************************************************************************)
\* The processes that the first threads' lists of children lead to.
Reached(t) ==
  {p \in DOMAIN t.threads :
     \A S \in SUBSET DOMAIN t.threads :
       t.root \in S /\ (\A q \in S : ToSet(t.children[q]) \subseteq S) => p \in S}

\* What a process has started: its threads, then its first thread's children.
Kids(t, p) == t.threads[p] \o t.children[p]
Kin(t) == UNION {{<<p, kid>> : kid \in ToSet(Kids(t, p))} : p \in Reached(t)}

\* The picture has every reached process and thread once and the edges between.
ShowsTree(picture, t) ==
  LET Label(e) == <<picture.label[e[1]], picture.label[e[2]]>>
  IN /\ Range(picture.label) = {t.root} \cup {pair[2] : pair \in Kin(t)}
     /\ Cardinality(Range(picture.label)) = Cardinality(DOMAIN picture.label)
     /\ {Label(e) : e \in picture.edges} = Kin(t)

\* Of what each process has started one is orange: the child listed last that
\* is older than the process itself, or if there is none the first thread, or
\* else the first child.
ShowsOrange(picture, t) ==
  \A p \in Reached(t) :
    LET kids == Kids(t, p)
        older == {i \in Len(t.threads[p]) + 1 .. Len(kids) : t.start[kids[i]] < t.start[p]}
    IN kids # <<>> =>
         ToSet(kids) \cap {picture.label[i] : i \in picture.orange}
           = {kids[IF older = {} THEN 1 ELSE Max(older)]}
=============================================================================
