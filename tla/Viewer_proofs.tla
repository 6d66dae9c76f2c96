---------------------------- MODULE Viewer_proofs ----------------------------
(***************************************************************************)
(* Theorems about Viewer, for any nodes, kinds and texts, and any number   *)
(* of acts.                                                                *)
(***************************************************************************)
EXTENDS Viewer, SequenceTheorems, TLAPS

Ends == SUBSET [point : Points, at : Places]

TypeOK == /\ kind \in [ConfNode -> Kinds \cup {NULL}]
          /\ pos \in [Node -> Places]
          /\ selection \subseteq Node
          /\ point \in [Node -> Points \cup {NULL}]
          /\ conn \in [Points -> Node \cup {NULL}]
          /\ mate \in [Points -> Points \cup {NULL}]
          /\ line \in [Points -> Nat \cup {NULL}]
          /\ lines \in Seq(Ends)

\* What is selected: the points of the nodes they belong to, and a point of
\* every node that is selected and not by its title.
Selecting == /\ \A n \in Node : point[n] # NULL => Joined(point[n]) = n
             /\ \A n \in selection : point[n] = NULL => n \in titles

\* A line is that of the two points it was made for, and of no other.
Lined == /\ \A el \in Points : (mate[el] # NULL) <=> (conn[el] # NULL)
         /\ \A el \in Points : mate[el] # NULL => /\ line[el] \in 1 .. Len(lines)
                                                  /\ Joined(mate[el]) # Joined(el)
         /\ \A el \in Mutual : line[mate[el]] = line[el]
         /\ \A el \in Mutual, x \in Points :
              mate[x] # NULL /\ line[x] = line[el] => x \in {el, mate[el]}

\* The texts of nodes by their names.
Named(texts) == texts = [n \in ConfNode |-> [f \in DOMAIN texts[n] |-> texts[n][f]]]
Texted == text = typed /\ Named(text)

-----------------------------------------------------------------------------
(* What codegen has written, and has left to write *)

Name(field) == IF field = "apply" THEN "Child1" ELSE "Child2"

Plugins  == 0 .. Len(program.decl) - 1
CallSet  == [node : ConfNode, field : {"root", "apply", "failed"}, of : Nat]
DeclSet  == [p : Nat, kind : Kinds \cup {NULL}, conf : {Conf(text[n]) : n \in ConfNode}]
ChainSet == [p : Nat, field : {"apply", "failed"}, q : Nat]

\* The node that codegen meets first, if there is any.
IsFirst(n) == \E i \in DOMAIN LogpoolOrder :
                /\ n = ChildOf(Logpool, LogpoolOrder[i])
                /\ n # NULL
                /\ \A j \in 1 .. i - 1 : ChildOf(Logpool, LogpoolOrder[j]) = NULL

\* The plugins so far stand for nodes, and what hangs from such a node is in the
\* chain or is still to be called for, once.
Stands(node) ==
  /\ \A k \in 1 .. Len(program.decl) :
       program.decl[k] = [p |-> k - 1, kind |-> kind[node[k - 1]],
                          conf |-> Conf(text[node[k - 1]])]
  /\ \A k \in DOMAIN program.chain :
       LET c == program.chain[k]
       IN  c.p \in Plugins /\ c.q \in Plugins /\ node[c.q] = ChildOf(node[c.p], Name(c.field))
  /\ \A i \in DOMAIN calls :
       calls[i].field # "root" =>
         /\ calls[i].of \in Plugins
         /\ calls[i].node = ChildOf(node[calls[i].of], Name(calls[i].field))
  /\ \A p \in Plugins, field \in {"apply", "failed"} :
       ChildOf(node[p], Name(field)) # NULL =>
         \/ \E i \in DOMAIN calls : calls[i].of = p /\ calls[i].field = field
         \/ \E k \in DOMAIN program.chain : program.chain[k].p = p /\ program.chain[k].field = field
  /\ \A n : IsFirst(n) => IF program.decl = <<>> THEN calls # <<>> /\ calls[1].node = n
                          ELSE node[0] = n

\* Nothing is called for twice, and nothing hangs from two plugins.
Once ==
  /\ \A k, l \in DOMAIN program.chain :
       LET c == program.chain[k]
           d == program.chain[l]
       IN  c.q = d.q \/ (c.p = d.p /\ c.field = d.field) => k = l
  /\ \A i, j \in DOMAIN calls :
       calls[i].field # "root" /\ calls[i].field = calls[j].field /\ calls[i].of = calls[j].of
         => i = j
  /\ \A i \in DOMAIN calls, k \in DOMAIN program.chain :
       ~(calls[i].field = program.chain[k].field /\ calls[i].of = program.chain[k].p)

Shape == /\ program \in [decl : Seq(DeclSet), chain : Seq(ChainSet), idx : Int]
         /\ program.idx = Len(program.decl) - 1
         /\ calls \in Seq(CallSet)

Coded == /\ coding \in BOOLEAN
         /\ ~coding => /\ calls = <<>>
                       /\ program = [decl |-> <<>>, chain |-> <<>>, idx |-> -1]
         /\ coding => /\ Shape
                      /\ Once
                      /\ \E node \in [Plugins -> ConfNode] : Stands(node)

IInv == /\ TypeOK
        /\ Selecting
        /\ Lined
        /\ Texted
        /\ Coded
        /\ CrashOnly
        /\ LinesFollow

-----------------------------------------------------------------------------
(* Selections and crashes *)

LEMMA SelectingInit == Init => Selecting
BY DEF Init, Selecting

LEMMA PointParts ==
  /\ \A el \in Points : Joined(el) \in Node /\ el # NULL
  /\ NULL \notin Node
BY PointsAssumption, NodesAssumption DEF Points, Joined, Node

\* The steps that change what is selected.
LEMMA SelectingStep ==
  ASSUME TypeOK, Selecting, [Next]_vars
  PROVE  Selecting'
<1>1. CASE PointPress
  <2>1. PICK el \in Points : IF point[Joined(el)] = el
            THEN UNCHANGED <<selection, point, titles>>
            ELSE /\ selection' = selection \cup {Joined(el)}
                 /\ point' = [point EXCEPT ![Joined(el)] = el]
                 /\ titles' = titles \ {Joined(el)}
    BY <1>1 DEF PointPress
  <2>2. CASE point[Joined(el)] = el
    BY <2>1, <2>2 DEF Selecting
  <2>3. CASE point[Joined(el)] # el
    BY <2>1, <2>3, PointParts DEF Selecting, TypeOK
  <2> QED BY <2>2, <2>3
<1>2. CASE PointRelease
  <2>1. CASE UNCHANGED <<selection, point, titles>>
    BY <2>1 DEF Selecting
  <2>2. CASE ~UNCHANGED <<selection, point, titles>>
    <3>1. PICK n1 \in selection, n2 \in selection :
              /\ point' = [point EXCEPT ![n1] = NULL, ![n2] = NULL]
              /\ selection' = SelectionAfter
      BY <1>2, <2>2 DEF PointRelease
    <3> QED BY <3>1 DEF Selecting, TypeOK, SelectionAfter
  <2> QED BY <2>1, <2>2
<1>3. CASE TitleClick
  BY <1>3 DEF TitleClick, Selecting
<1>4. CASE BackgroundClick
  BY <1>4 DEF BackgroundClick, Selecting
<1>5. CASE AddNode \/ MoveNode \/ TextPress \/ Type \/ Codegen \/ NodeToCode \/ UNCHANGED vars
  <2>1. UNCHANGED <<click, titles>>
    BY <1>5 DEF AddNode, MoveNode, TextPress, Type, Codegen, NodeToCode, vars
  <2> QED BY <2>1 DEF Selecting, click
<1> QED BY <1>1, <1>2, <1>3, <1>4, <1>5 DEF Next

LEMMA CyclicKept ==
  ASSUME UNCHANGED conn
  PROVE  Cyclic' = Cyclic
<1>1. \A n, name : ChildOf(n, name)' = ChildOf(n, name)
  BY DEF ChildOf
<1>2. \A n : Children(n)' = Children(n)
  BY <1>1 DEF Children
<1>3. \A S : Closed(S)' = Closed(S)
  BY <1>2 DEF Closed
<1>4. \A from : Met(from)' = Met(from)
  BY <1>3 DEF Met
<1>5. {ChildOf(Logpool, name) : name \in Outputs}' = {ChildOf(Logpool, name) : name \in Outputs}
  BY <1>1
<1> QED BY <1>2, <1>4, <1>5 DEF Cyclic

LEMMA CrashStep ==
  ASSUME Selecting, Coded, CrashOnly, [Next]_vars
  PROVE  CrashOnly'
<1>1. CASE crashed
  <2>1. UNCHANGED vars
    BY <1>1 DEF Next, AddNode, PointPress, PointRelease, TitleClick, BackgroundClick, MoveNode,
                TextPress, Type, Codegen, NodeToCode, Free, Running
  <2>2. Cyclic' = Cyclic /\ UNCHANGED <<titles, selection, point, crashed>>
    BY <2>1, CyclicKept DEF vars, scene, click
  <2> QED BY <2>2 DEF CrashOnly
<1>2. CASE ~crashed
  <2>1. CASE ~crashed'
    BY <2>1 DEF CrashOnly
  <2>2. CASE crashed'
    <3>1. PointRelease \/ Codegen
      BY <1>2, <2>2 DEF Next, AddNode, PointPress, TitleClick, BackgroundClick, MoveNode,
                        TextPress, Type, NodeToCode, vars
    <3>2. CASE PointRelease
      <4>1. \E n \in selection : point[n] = NULL
        BY <1>2, <2>2, <3>2 DEF PointRelease
      <4>2. UNCHANGED <<selection, point, titles>>
        BY <3>2, <4>1 DEF PointRelease
      <4> QED BY <4>1, <4>2 DEF Selecting, CrashOnly
    <3>3. CASE Codegen
      <4>1. Cyclic /\ UNCHANGED conn
        BY <1>2, <2>2, <3>3 DEF Codegen, scene
      <4> QED BY <4>1, CyclicKept DEF CrashOnly
    <3> QED BY <3>1, <3>2, <3>3
  <2> QED BY <2>1, <2>2
<1> QED BY <1>1, <1>2

-----------------------------------------------------------------------------
(* Lines *)

\* What a release does that connects two points.
Connects(el1, el2) ==
  /\ el1 \in Points /\ el2 \in Points /\ Joined(el1) # Joined(el2)
  /\ conn' = Linked(el1, el2)
  /\ mate' = [mate EXCEPT ![el1] = el2, ![el2] = el1]
  /\ lines' = Append(lines, {End(el1, pos[Joined(el1)]), End(el2, pos[Joined(el2)])})
  /\ line' = [line EXCEPT ![el1] = Len(lines) + 1, ![el2] = Len(lines) + 1]
  /\ pos' = pos

LEMMA ReleaseConnects ==
  ASSUME TypeOK, Selecting, PointRelease
  PROVE  \/ UNCHANGED <<conn, mate, line, lines, pos>>
         \/ \E el1, el2 : Connects(el1, el2)
<1> SUFFICES ASSUME ~UNCHANGED <<conn, mate, line, lines, pos>>
             PROVE  \E el1, el2 : Connects(el1, el2)
  OBVIOUS
<1>1. /\ ~ \E n \in selection : point[n] = NULL
      /\ ~UNCHANGED scene
  BY DEF PointRelease, scene
<1>2. PICK n1 \in selection, n2 \in selection :
        /\ n1 # n2
        /\ conn' = Linked(point[n1], point[n2])
        /\ mate' = [mate EXCEPT ![point[n1]] = point[n2], ![point[n2]] = point[n1]]
        /\ lines' = Append(lines, {End(point[n1], pos[n1]), End(point[n2], pos[n2])})
        /\ line' = [line EXCEPT ![point[n1]] = Len(lines) + 1, ![point[n2]] = Len(lines) + 1]
        /\ UNCHANGED <<kind, pos>>
  BY <1>1 DEF PointRelease
<1>3. /\ point[n1] \in Points /\ Joined(point[n1]) = n1
      /\ point[n2] \in Points /\ Joined(point[n2]) = n2
  BY <1>1 DEF TypeOK, Selecting
<1> QED BY <1>2, <1>3 DEF Connects

LEMMA EndType ==
  ASSUME TypeOK, NEW el \in Points
  PROVE  End(el, pos[Joined(el)]) \in [point : Points, at : Places]
BY PointParts DEF TypeOK, End

\* A move, and the lines that are drawn anew.
Moves(n, to) ==
  /\ n \in Node /\ to \in Places
  /\ pos' = [pos EXCEPT ![n] = to]
  /\ lines' = IF n = Logpool THEN lines ELSE MovedLines(n, pos')
  /\ UNCHANGED <<conn, mate, line>>

LEMMA MoveMoves ==
  ASSUME MoveNode
  PROVE  \E n, to : Moves(n, to)
BY DEF MoveNode, Moves, Shown, Added, Node

LEMMA PosMoved ==
  ASSUME TypeOK, NEW n, NEW to, Moves(n, to)
  PROVE  /\ pos' \in [Node -> Places]
         /\ \A m \in Node : m # n => pos'[m] = pos[m]
BY DEF Moves, TypeOK

LEMMA MovedLinesType ==
  ASSUME TypeOK, Lined, NEW n, NEW to, Moves(n, to)
  PROVE  lines' \in Seq(Ends) /\ Len(lines') = Len(lines)
<1>1. CASE n = Logpool
  BY <1>1 DEF Moves, TypeOK
<1>2. CASE n # Logpool
  <2> DEFINE els(k) == {el \in Points : Joined(el) = n /\ conn[el] # NULL /\ line[el] = k}
             new(k) == IF els(k) = {} THEN lines[k] ELSE Redrawn(CHOOSE el \in els(k) : TRUE, pos')
  <2>1. lines' = [k \in 1 .. Len(lines) |-> new(k)]
    BY <1>2 DEF Moves, MovedLines, TypeOK
  <2>2. ASSUME NEW k \in 1 .. Len(lines)
        PROVE  new(k) \in Ends
    <3>1. CASE els(k) = {}
      BY <3>1 DEF TypeOK
    <3>2. CASE els(k) # {}
      <4>1. PICK el : el = CHOOSE x \in els(k) : TRUE
        OBVIOUS
      <4>2. el \in Points /\ conn[el] # NULL
        BY <3>2, <4>1
      <4>3. mate[el] \in Points
        BY <4>2 DEF Lined, TypeOK
      <4>4. Joined(el) \in Node /\ Joined(mate[el]) \in Node
        BY <4>2, <4>3, PointParts
      <4>5. pos'[Joined(el)] \in Places /\ pos'[Joined(mate[el])] \in Places
        BY <4>4, PosMoved
      <4>6. Redrawn(el, pos') \in Ends
        BY <4>2, <4>3, <4>5 DEF Redrawn, End, Ends
      <4> QED BY <3>2, <4>1, <4>6
    <3> QED BY <3>1, <3>2
  <2> HIDE DEF new
  <2>3. Len(lines) \in Nat
    BY DEF TypeOK
  <2>4. [k \in 1 .. Len(lines) |-> new(k)] \in [1 .. Len(lines) -> Ends]
    BY <2>2
  <2> QED BY <2>1, <2>3, <2>4
<1> QED BY <1>1, <1>2

LEMMA LinedKept ==
  ASSUME TypeOK, Lined, UNCHANGED <<conn, mate, line>>, Len(lines') = Len(lines)
  PROVE  Lined' /\ Mutual' = Mutual
<1>1. Mutual' = Mutual
  BY DEF Mutual
<1> QED BY <1>1 DEF Lined

LEMMA ConnectParts ==
  ASSUME TypeOK, NEW el1, NEW el2, Connects(el1, el2)
  PROVE  /\ conn' \in [Points -> Node \cup {NULL}]
         /\ mate' \in [Points -> Points \cup {NULL}]
         /\ line' \in [Points -> Nat \cup {NULL}]
         /\ lines' \in Seq(Ends) /\ Len(lines') = Len(lines) + 1
         /\ lines'[Len(lines) + 1] = {End(el1, pos[Joined(el1)]), End(el2, pos[Joined(el2)])}
         /\ \A k \in 1 .. Len(lines) : lines'[k] = lines[k]
         /\ el1 # el2 /\ mate'[el1] = el2 /\ mate'[el2] = el1
         /\ line'[el1] = Len(lines) + 1 /\ line'[el2] = Len(lines) + 1
         /\ conn'[el1] = Joined(el2) /\ conn'[el2] = Joined(el1)
         /\ \A x \in Points \ {el1, el2} :
              conn'[x] = conn[x] /\ mate'[x] = mate[x] /\ line'[x] = line[x]
<1>1. Joined(el1) \in Node /\ Joined(el2) \in Node /\ el1 # el2
  BY PointParts DEF Connects
<1>2. Len(lines) \in Nat
  BY DEF TypeOK
<1>3. /\ conn' \in [Points -> Node \cup {NULL}]
      /\ conn'[el1] = Joined(el2) /\ conn'[el2] = Joined(el1)
      /\ \A x \in Points \ {el1, el2} : conn'[x] = conn[x]
  BY <1>1 DEF Connects, Linked, TypeOK
<1>4. /\ mate' \in [Points -> Points \cup {NULL}]
      /\ mate'[el1] = el2 /\ mate'[el2] = el1
      /\ \A x \in Points \ {el1, el2} : mate'[x] = mate[x]
  BY <1>1 DEF Connects, TypeOK
<1>5. /\ line' \in [Points -> Nat \cup {NULL}]
      /\ line'[el1] = Len(lines) + 1 /\ line'[el2] = Len(lines) + 1
      /\ \A x \in Points \ {el1, el2} : line'[x] = line[x]
  BY <1>1, <1>2 DEF Connects, TypeOK
<1>6. PICK new : new = {End(el1, pos[Joined(el1)]), End(el2, pos[Joined(el2)])}
  OBVIOUS
<1>7. new \in Ends /\ lines' = Append(lines, new) /\ lines \in Seq(Ends)
  BY <1>6, EndType DEF Connects, Ends, TypeOK
<1>8. /\ lines' \in Seq(Ends) /\ Len(lines') = Len(lines) + 1
      /\ lines'[Len(lines) + 1] = new
      /\ \A k \in 1 .. Len(lines) : lines'[k] = lines[k]
  BY <1>7
<1> QED BY <1>1, <1>3, <1>4, <1>5, <1>6, <1>8

LEMMA MutualConnected ==
  ASSUME TypeOK, NEW el1, NEW el2, Connects(el1, el2), NEW el \in Mutual'
  PROVE  \/ el \in {el1, el2} /\ mate'[el] \in {el1, el2} /\ mate'[el] # el
         \/ /\ el \in Mutual /\ el \notin {el1, el2}
            /\ mate'[el] = mate[el] /\ mate[el] \notin {el1, el2}
<1>1. el \in Points /\ mate'[el] # NULL /\ mate'[mate'[el]] = el
  BY DEF Mutual
<1>2. CASE el \in {el1, el2}
  BY <1>2, ConnectParts
<1>3. CASE el \notin {el1, el2}
  <2>1. mate'[el] = mate[el] /\ mate[el] \in Points
    BY <1>1, <1>3, ConnectParts DEF TypeOK
  <2>2. mate[el] \notin {el1, el2}
    BY <1>1, <1>3, <2>1, ConnectParts
  <2>3. mate'[mate[el]] = mate[mate[el]]
    BY <2>1, <2>2, ConnectParts
  <2> QED BY <1>1, <1>3, <2>1, <2>2, <2>3 DEF Mutual
<1> QED BY <1>2, <1>3

LEMMA LinedConnected ==
  ASSUME TypeOK, Lined, NEW el1, NEW el2, Connects(el1, el2)
  PROVE  Lined'
<1>0. Len(lines) \in Nat /\ el1 \in Points /\ el2 \in Points /\ Joined(el1) # Joined(el2)
  BY DEF TypeOK, Connects
<1>1. ASSUME NEW el \in Points
      PROVE  (mate'[el] # NULL) <=> (conn'[el] # NULL)
  <2>1. CASE el \in {el1, el2}
    BY <1>0, <2>1, ConnectParts, PointParts
  <2>2. CASE el \notin {el1, el2}
    BY <2>2, ConnectParts DEF Lined
  <2> QED BY <2>1, <2>2
<1>2. ASSUME NEW el \in Points, mate'[el] # NULL
      PROVE  line'[el] \in 1 .. Len(lines') /\ Joined(mate'[el]) # Joined(el)
  <2>1. CASE el \in {el1, el2}
    BY <1>0, <2>1, ConnectParts
  <2>2. CASE el \notin {el1, el2}
    <3>1. mate'[el] = mate[el] /\ line'[el] = line[el]
      BY <2>2, ConnectParts
    <3>2. line[el] \in 1 .. Len(lines) /\ Joined(mate[el]) # Joined(el)
      BY <1>2, <3>1 DEF Lined
    <3>3. Len(lines') = Len(lines) + 1
      BY ConnectParts
    <3> QED BY <1>0, <3>1, <3>2, <3>3
  <2> QED BY <2>1, <2>2
<1>3. ASSUME NEW el \in Mutual'
      PROVE  /\ line'[mate'[el]] = line'[el]
             /\ \A x \in Points : mate'[x] # NULL /\ line'[x] = line'[el] => x \in {el, mate'[el]}
  <2>1. CASE el \in {el1, el2} /\ mate'[el] \in {el1, el2} /\ mate'[el] # el
    <3>1. line'[el] = Len(lines) + 1 /\ line'[mate'[el]] = Len(lines) + 1
      BY <2>1, ConnectParts
    <3>2. ASSUME NEW x \in Points, mate'[x] # NULL, x \notin {el1, el2}
          PROVE  line'[x] # Len(lines) + 1
      <4>1. mate[x] # NULL /\ line'[x] = line[x]
        BY <3>2, ConnectParts
      <4>2. line[x] \in 1 .. Len(lines)
        BY <4>1 DEF Lined
      <4> QED BY <1>0, <4>1, <4>2
    <3> QED BY <2>1, <3>1, <3>2
  <2>2. CASE /\ el \in Mutual /\ el \notin {el1, el2}
             /\ mate'[el] = mate[el] /\ mate[el] \notin {el1, el2}
    <3>1. el \in Points /\ mate[el] \in Points /\ mate[el] # NULL
      BY <2>2 DEF Mutual, TypeOK
    <3>2. line'[el] = line[el] /\ line'[mate[el]] = line[mate[el]]
      BY <2>2, <3>1, ConnectParts
    <3>3. line[el] \in 1 .. Len(lines) /\ line[mate[el]] = line[el]
      BY <2>2, <3>1 DEF Lined
    <3>4. ASSUME NEW x \in Points, mate'[x] # NULL, line'[x] = line'[el]
          PROVE  x \in {el, mate[el]}
      <4>1. x \notin {el1, el2}
        BY <1>0, <3>2, <3>3, <3>4, ConnectParts
      <4>2. mate[x] # NULL /\ line[x] = line[el]
        BY <3>2, <3>4, <4>1, ConnectParts
      <4> QED BY <2>2, <4>2 DEF Lined
    <3> QED BY <2>2, <3>2, <3>3, <3>4
  <2> QED BY <2>1, <2>2, MutualConnected
<1> QED BY <1>1, <1>2, <1>3 DEF Lined

LEMMA FollowConnected ==
  ASSUME TypeOK, Lined, LinesFollow, NEW el1, NEW el2, Connects(el1, el2)
  PROVE  LinesFollow'
<1> SUFFICES ASSUME NEW el \in Mutual'
             PROVE  /\ {e.point : e \in lines'[line'[el]]} = {el, mate'[el]}
                    /\ \A e \in lines'[line'[el]] :
                         Joined(e.point) # Logpool => e.at = pos'[Joined(e.point)]
  BY DEF LinesFollow
<1>0. pos' = pos
  BY DEF Connects
<1>1. CASE el \in {el1, el2} /\ mate'[el] \in {el1, el2} /\ mate'[el] # el
  <2>1. lines'[line'[el]] = {End(el1, pos[Joined(el1)]), End(el2, pos[Joined(el2)])}
    BY <1>1, ConnectParts
  <2>2. {el, mate'[el]} = {el1, el2}
    BY <1>1
  <2> QED BY <1>0, <2>1, <2>2 DEF End
<1>2. CASE /\ el \in Mutual /\ el \notin {el1, el2}
           /\ mate'[el] = mate[el] /\ mate[el] \notin {el1, el2}
  <2>1. el \in Points /\ mate[el] # NULL
    BY <1>2 DEF Mutual
  <2>2. line'[el] = line[el] /\ line[el] \in 1 .. Len(lines)
    BY <1>2, <2>1, ConnectParts DEF Lined
  <2>3. lines'[line'[el]] = lines[line[el]]
    BY <2>2, ConnectParts
  <2> QED BY <1>0, <1>2, <2>3 DEF LinesFollow
<1> QED BY <1>1, <1>2, MutualConnected

LEMMA FollowMoved ==
  ASSUME TypeOK, Lined, LinesFollow, NEW n, NEW to, Moves(n, to)
  PROVE  LinesFollow'
<1> SUFFICES ASSUME NEW el \in Mutual'
             PROVE  /\ {e.point : e \in lines'[line[el]]} = {el, mate[el]}
                    /\ \A e \in lines'[line[el]] :
                         Joined(e.point) # Logpool => e.at = pos'[Joined(e.point)]
  BY DEF LinesFollow, Moves
<1>1. el \in Mutual /\ el \in Points /\ mate[el] \in Points /\ mate[el] # NULL
  BY DEF Moves, Mutual, TypeOK
<1>2. /\ line[el] \in 1 .. Len(lines) /\ line[mate[el]] = line[el]
      /\ conn[el] # NULL /\ Joined(mate[el]) # Joined(el)
  BY <1>1 DEF Lined
<1>3. mate[mate[el]] = el /\ conn[mate[el]] # NULL
  BY <1>1, NodesAssumption, PointsAssumption DEF Mutual, Lined
<1>4. Joined(el) \in Node /\ Joined(mate[el]) \in Node
  BY <1>1, PointParts
<1>5. \A e \in lines[line[el]] : e.point \in {el, mate[el]}
  BY <1>1 DEF LinesFollow
<1>6. CASE lines'[line[el]] = lines[line[el]] /\ (n = Logpool \/ n \notin {Joined(el), Joined(mate[el])})
  <2>1. ASSUME NEW e \in lines[line[el]], Joined(e.point) # Logpool
        PROVE  e.at = pos'[Joined(e.point)]
    <3>1. e.point \in {el, mate[el]}
      BY <1>5, <2>1
    <3>2. Joined(e.point) \in Node /\ Joined(e.point) # n
      BY <1>4, <1>6, <2>1, <3>1
    <3>3. e.at = pos[Joined(e.point)]
      BY <1>1, <2>1 DEF LinesFollow
    <3> QED BY <3>2, <3>3, PosMoved
  <2> QED BY <1>1, <1>6, <2>1 DEF LinesFollow
<1>7. CASE n # Logpool
  <2> DEFINE els(k) == {x \in Points : Joined(x) = n /\ conn[x] # NULL /\ line[x] = k}
             k0 == line[el]
  <2>1. lines'[k0] = IF els(k0) = {} THEN lines[k0]
                     ELSE Redrawn(CHOOSE x \in els(k0) : TRUE, pos')
    <3> DEFINE new(k) == IF els(k) = {} THEN lines[k]
                         ELSE Redrawn(CHOOSE x \in els(k) : TRUE, pos')
    <3>1. lines' = [k \in DOMAIN lines |-> new(k)]
      BY <1>7 DEF Moves, MovedLines
    <3>2. k0 \in DOMAIN lines
      BY <1>2 DEF TypeOK
    <3> HIDE DEF new
    <3>3. lines'[k0] = new(k0)
      BY <3>1, <3>2
    <3> QED BY <3>3 DEF new
  <2>2. \A x \in els(k0) : x \in {el, mate[el]}
    BY <1>1 DEF Lined
  <2>3. CASE els(k0) = {}
    <3>1. n \notin {Joined(el), Joined(mate[el])}
      BY <1>1, <1>2, <1>3, <2>3
    <3> QED BY <1>6, <2>1, <2>3, <3>1
  <2>4. CASE els(k0) # {}
    <3>1. PICK x : x = CHOOSE y \in els(k0) : TRUE
      OBVIOUS
    <3>2. x \in els(k0)
      BY <2>4, <3>1
    <3>3. x \in {el, mate[el]}
      BY <2>2, <3>2
    <3>4. {x, mate[x]} = {el, mate[el]}
      BY <1>3, <3>3
    <3>5. lines'[k0] = {End(x, pos'[Joined(x)]), End(mate[x], pos'[Joined(mate[x])])}
      BY <2>1, <2>4, <3>1 DEF Redrawn
    <3> QED BY <3>4, <3>5 DEF End
  <2> QED BY <2>3, <2>4
<1>8. CASE n = Logpool
  <2>1. lines' = lines
    BY <1>8 DEF Moves
  <2> QED BY <1>6, <1>8, <2>1
<1> QED BY <1>7, <1>8

LEMMA TypeOKInit == Init => TypeOK
<1> SUFFICES ASSUME Init PROVE TypeOK
  OBVIOUS
<1>1. /\ kind = [n \in ConfNode |-> NULL] /\ pos = [n \in Node |-> Origin]
      /\ selection = {} /\ point = [n \in Node |-> NULL]
      /\ conn = [el \in Points |-> NULL] /\ mate = [el \in Points |-> NULL]
      /\ line = [el \in Points |-> NULL] /\ lines = <<>>
  BY DEF Init
<1> QED BY <1>1, OriginAssumption DEF TypeOK

LEMMA TypeOKStep ==
  ASSUME TypeOK, Selecting, Lined, [Next]_vars
  PROVE  TypeOK'
<1>1. CASE AddNode
  <2>1. UNCHANGED <<pos, conn, mate, line, lines, selection, point>>
    BY <1>1 DEF AddNode, click
  <2>2. kind' \in [ConfNode -> Kinds \cup {NULL}]
    BY <1>1 DEF AddNode, TypeOK
  <2> QED BY <2>1, <2>2 DEF TypeOK
<1>2. CASE PointPress
  <2>1. UNCHANGED scene
    BY <1>2 DEF PointPress
  <2>2. selection' \subseteq Node /\ point' \in [Node -> Points \cup {NULL}]
    BY <1>2, PointParts DEF PointPress, TypeOK
  <2> QED BY <2>1, <2>2 DEF TypeOK, scene
<1>3. CASE PointRelease
  <2>1. kind' = kind
    BY <1>3 DEF PointRelease, scene
  <2>2. selection' \subseteq Node /\ point' \in [Node -> Points \cup {NULL}]
    BY <1>3 DEF PointRelease, SelectionAfter, TypeOK
  <2>3. CASE UNCHANGED <<conn, mate, line, lines, pos>>
    BY <2>1, <2>2, <2>3 DEF TypeOK
  <2>4. CASE \E el1, el2 : Connects(el1, el2)
    <3>1. PICK el1, el2 : Connects(el1, el2)
      BY <2>4
    <3>2. pos' = pos
      BY <3>1 DEF Connects
    <3>3. /\ conn' \in [Points -> Node \cup {NULL}]
          /\ mate' \in [Points -> Points \cup {NULL}]
          /\ line' \in [Points -> Nat \cup {NULL}]
          /\ lines' \in Seq(Ends)
      BY <3>1, ConnectParts
    <3> QED BY <2>1, <2>2, <3>2, <3>3 DEF TypeOK
  <2> QED BY <1>3, <2>3, <2>4, ReleaseConnects
<1>4. CASE TitleClick
  <2>1. UNCHANGED <<scene, point>>
    BY <1>4 DEF TitleClick
  <2>2. selection' \subseteq Node
    BY <1>4 DEF TitleClick, Shown, Added, Node, TypeOK
  <2> QED BY <2>1, <2>2 DEF TypeOK, scene
<1>5. CASE BackgroundClick
  BY <1>5 DEF BackgroundClick, scene, TypeOK
<1>6. CASE MoveNode
  <2>1. PICK n, to : Moves(n, to)
    BY <1>6, MoveMoves
  <2>2. UNCHANGED <<kind, conn, mate, line, selection, point>>
    BY <1>6 DEF MoveNode, click
  <2>3. lines' \in Seq(Ends) /\ pos' \in [Node -> Places]
    BY <2>1, MovedLinesType, PosMoved
  <2> QED BY <2>2, <2>3 DEF TypeOK
<1>7. CASE TextPress \/ Type \/ Codegen \/ NodeToCode \/ UNCHANGED vars
  <2>1. UNCHANGED <<scene, click>>
    BY <1>7 DEF TextPress, Type, Codegen, NodeToCode, vars
  <2> QED BY <2>1 DEF TypeOK, scene, click
<1> QED BY <1>1, <1>2, <1>3, <1>4, <1>5, <1>6, <1>7 DEF Next

LEMMA LinedInit == Init => Lined /\ LinesFollow
BY DEF Init, Lined, LinesFollow, Mutual

LEMMA LinedStep ==
  ASSUME TypeOK, Selecting, Lined, LinesFollow, [Next]_vars
  PROVE  Lined' /\ LinesFollow'
<1>1. CASE UNCHANGED <<conn, mate, line, lines, pos>>
  <2>1. Lined' /\ Mutual' = Mutual
    BY <1>1, LinedKept
  <2> QED BY <1>1, <2>1 DEF LinesFollow
<1>2. CASE PointRelease
  <2>1. CASE \E el1, el2 : Connects(el1, el2)
    BY <2>1, LinedConnected, FollowConnected
  <2> QED BY <1>1, <1>2, <2>1, ReleaseConnects
<1>3. CASE MoveNode
  <2>1. PICK n, to : Moves(n, to)
    BY <1>3, MoveMoves
  <2>2. UNCHANGED <<conn, mate, line>>
    BY <2>1 DEF Moves
  <2> QED BY <2>1, <2>2, MovedLinesType, LinedKept, FollowMoved
<1>4. CASE AddNode \/ PointPress \/ TitleClick \/ BackgroundClick \/ TextPress \/ Type
             \/ Codegen \/ NodeToCode \/ UNCHANGED vars
  <2>1. UNCHANGED <<conn, mate, line, lines, pos>>
    BY <1>4 DEF AddNode, PointPress, TitleClick, BackgroundClick, TextPress, Type, Codegen,
                NodeToCode, vars, scene
  <2> QED BY <1>1, <2>1
<1> QED BY <1>2, <1>3, <1>4 DEF Next

-----------------------------------------------------------------------------
(* Texts *)

\* The texts that a node begins with have names.
LEMMA NodeTextsNamed ==
  \A k \in Kinds : NodeTexts[k] = [f \in DOMAIN NodeTexts[k] |-> NodeTexts[k][f]]
<1>1. NodeTexts = [k \in (DOMAIN FilterTexts) \cup (DOMAIN OutputTexts) |->
                     IF k \in DOMAIN FilterTexts THEN FilterTexts[k] ELSE OutputTexts[k]]
  BY DEF NodeTexts
<1>2. \A k \in DOMAIN FilterTexts :
        FilterTexts[k] = [f \in DOMAIN FilterTexts[k] |-> FilterTexts[k][f]]
  BY DEF FilterTexts
<1>3. \A k \in DOMAIN OutputTexts :
        OutputTexts[k] = [f \in DOMAIN OutputTexts[k] |-> OutputTexts[k][f]]
  BY DEF OutputTexts
<1>4. SUFFICES ASSUME NEW k \in Kinds
               PROVE  NodeTexts[k] = [f \in DOMAIN NodeTexts[k] |-> NodeTexts[k][f]]
  OBVIOUS
<1>5. k \in (DOMAIN FilterTexts) \cup (DOMAIN OutputTexts)
  BY <1>1, KindsAssumption
<1>6. CASE k \in DOMAIN FilterTexts
  <2>1. NodeTexts[k] = FilterTexts[k]
    BY <1>1, <1>5, <1>6
  <2> QED BY <1>2, <1>6, <2>1
<1>7. CASE k \notin DOMAIN FilterTexts
  <2>1. NodeTexts[k] = OutputTexts[k]
    BY <1>1, <1>5, <1>7
  <2> QED BY <1>3, <1>5, <1>7, <2>1
<1> QED BY <1>6, <1>7

LEMMA NamedSynced ==
  ASSUME NEW texts, Named(texts), NEW n, NEW f, NEW t
  PROVE  Named([texts EXCEPT ![n][f] = t])
<1>1. PICK new : new = [texts EXCEPT ![n][f] = t]
  OBVIOUS
<1>2. DOMAIN texts = ConfNode
  BY DEF Named
<1>3. new = [m \in ConfNode |-> IF m = n THEN [texts[n] EXCEPT ![f] = t] ELSE texts[m]]
  BY <1>1, <1>2
<1>4. \A m \in ConfNode : texts[m] = [g \in DOMAIN texts[m] |-> texts[m][g]]
  <2>1. PICK b : b = [m \in ConfNode |-> [g \in DOMAIN texts[m] |-> texts[m][g]]]
    OBVIOUS
  <2>2. texts = b
    BY <2>1 DEF Named
  <2> QED BY <2>1, <2>2
<1>5. \A m \in ConfNode : new[m] = [g \in DOMAIN new[m] |-> new[m][g]]
  BY <1>3, <1>4
<1>6. new = [m \in ConfNode |-> new[m]]
  BY <1>3
<1>7. new = [m \in ConfNode |-> [g \in DOMAIN new[m] |-> new[m][g]]]
  BY <1>5, <1>6
<1> QED BY <1>1, <1>7 DEF Named

\* Setting a text to what it is changes nothing.
LEMMA SyncedSame ==
  ASSUME Named(text), NEW n \in ConfNode, NEW f \in DOMAIN text[n]
  PROVE  [text EXCEPT ![n][f] = text[n][f]] = text
<1>1. \A m \in ConfNode : text[m] = [g \in DOMAIN text[m] |-> text[m][g]]
  <2>1. PICK b : b = [m \in ConfNode |-> [g \in DOMAIN text[m] |-> text[m][g]]]
    OBVIOUS
  <2>2. text = b
    BY <2>1 DEF Named
  <2> QED BY <2>1, <2>2
<1>2. text = [m \in ConfNode |-> text[m]]
  <2>1. \E b : text = [m \in ConfNode |-> b[m]]
    <3>1. PICK b : b = [m \in ConfNode |-> [g \in DOMAIN text[m] |-> text[m][g]]]
      OBVIOUS
    <3>2. text = b
      BY <3>1 DEF Named
    <3>3. text = [m \in ConfNode |-> b[m]]
      BY <3>1, <3>2
    <3> QED BY <3>3
  <2> QED BY <2>1
<1>3. [text[n] EXCEPT ![f] = text[n][f]] = text[n]
  BY <1>1
<1>4. [text EXCEPT ![n] = text[n]] = text
  BY <1>2
<1> QED BY <1>3, <1>4

LEMMA TextedInit == Init => Texted
<1> SUFFICES ASSUME Init PROVE Texted
  OBVIOUS
<1>1. text = typed /\ text = [n \in ConfNode |-> <<>>]
  BY DEF Init
<1>2. \A n \in ConfNode : [f \in DOMAIN text[n] |-> text[n][f]] = <<>>
  BY <1>1
<1> QED BY <1>1, <1>2 DEF Texted, Named

LEMMA TextedStep ==
  ASSUME Texted, [Next]_vars
  PROVE  Texted'
<1>1. CASE AddNode
  <2>1. PICK n \in ConfNode, k \in Kinds :
          /\ text' = [text EXCEPT ![n] = NodeTexts[k]]
          /\ typed' = [typed EXCEPT ![n] = NodeTexts[k]]
    BY <1>1 DEF AddNode
  <2>2. text' = typed'
    BY <2>1 DEF Texted
  <2>3. \A m \in ConfNode : text[m] = [g \in DOMAIN text[m] |-> text[m][g]]
    <3>1. PICK b : b = [m \in ConfNode |-> [g \in DOMAIN text[m] |-> text[m][g]]]
      OBVIOUS
    <3>2. text = b
      BY <3>1 DEF Texted, Named
    <3> QED BY <3>1, <3>2
  <2>4. DOMAIN text = ConfNode
    BY DEF Texted, Named
  <2>5. text' = [m \in ConfNode |-> IF m = n THEN NodeTexts[k] ELSE text[m]]
    BY <2>1, <2>4
  <2>6. \A m \in ConfNode : text'[m] = [g \in DOMAIN text'[m] |-> text'[m][g]]
    BY <2>3, <2>5, NodeTextsNamed
  <2>7. text' = [m \in ConfNode |-> text'[m]]
    BY <2>5
  <2>8. text' = [m \in ConfNode |-> [g \in DOMAIN text'[m] |-> text'[m][g]]]
    BY <2>6, <2>7
  <2> QED BY <2>2, <2>8 DEF Texted, Named
<1>2. CASE TextPress
  <2>1. PICK n \in ConfNode : \E f \in DOMAIN text[n] : text' = SyncedNew(n, f)
    BY <1>2 DEF TextPress, Added
  <2>2. text' = text
    BY <2>1, SyncedSame DEF SyncedNew, Synced, Texted
  <2>3. typed' = typed
    BY <1>2 DEF TextPress
  <2> QED BY <2>2, <2>3 DEF Texted
<1>3. CASE Type
  <2>1. PICK t \in Texts :
          /\ text' = Synced(editor.sync, t)
          /\ typed' = IF editor.sync = NULL THEN typed
                      ELSE [typed EXCEPT ![editor.sync[1]][editor.sync[2]] = t]
    BY <1>3 DEF Type
  <2>2. text' = typed'
    BY <2>1 DEF Synced, Texted
  <2>3. Named(text')
    BY <2>1, NamedSynced DEF Synced, Texted
  <2> QED BY <2>2, <2>3 DEF Texted, Named
<1>4. CASE PointPress \/ PointRelease \/ TitleClick \/ BackgroundClick \/ MoveNode \/ Codegen
             \/ NodeToCode \/ UNCHANGED vars
  <2>1. UNCHANGED edit
    BY <1>4 DEF PointPress, PointRelease, TitleClick, BackgroundClick, MoveNode, Codegen,
                NodeToCode, vars
  <2> QED BY <2>1 DEF Texted, Named, edit
<1> QED BY <1>1, <1>2, <1>3, <1>4 DEF Next

-----------------------------------------------------------------------------
(* Calls *)

LEMMA ChildType ==
  ASSUME NEW n, NEW name
  PROVE  ChildOf(n, name) # NULL => ChildOf(n, name) \in ConfNode
BY DEF ChildOf

LEMMA ChildKept ==
  ASSUME UNCHANGED conn
  PROVE  /\ \A n, name : ChildOf(n, name)' = ChildOf(n, name)
         /\ \A n : IsFirst(n)' <=> IsFirst(n)
<1>1. \A n, name : ChildOf(n, name)' = ChildOf(n, name)
  BY DEF ChildOf
<1> QED BY <1>1 DEF IsFirst

\* Calls that are made of Logpool's points.
Rooted(s) == s \in Seq(CallSet) /\ \A i \in DOMAIN s : s[i].field = "root"

LEMMA RootedShort ==
  /\ Rooted(<<>>)
  /\ \A c \in CallSet : c.field = "root" => Rooted(<<c>>)
<1>1. Rooted(<<>>)
  <2>1. <<>> \in Seq(CallSet) /\ DOMAIN <<>> = {}
    OBVIOUS
  <2> QED BY <2>1 DEF Rooted
<1>2. ASSUME NEW c \in CallSet, c.field = "root"
      PROVE  Rooted(<<c>>)
  <2>1. <<c>> \in Seq(CallSet) /\ DOMAIN <<c>> = {1} /\ <<c>>[1] = c
    OBVIOUS
  <2>2. PICK s : s = <<c>>
    OBVIOUS
  <2>3. \A i \in DOMAIN s : s[i].field = "root"
    BY <1>2, <2>1, <2>2
  <2> QED BY <2>1, <2>2, <2>3 DEF Rooted
<1> QED BY <1>1, <1>2

LEMMA RootedHanging ==
  ASSUME NEW name, NEW h, h = Hanging(Logpool, name, "root", 0)
  PROVE  /\ Rooted(h)
         /\ ChildOf(Logpool, name) = NULL => h = <<>>
         /\ ChildOf(Logpool, name) # NULL => h # <<>> /\ h[1].node = ChildOf(Logpool, name)
<1>1. CASE ChildOf(Logpool, name) = NULL
  <2>1. h = <<>>
    BY <1>1 DEF Hanging
  <2> QED BY <1>1, <2>1, RootedShort
<1>2. CASE ChildOf(Logpool, name) # NULL
  <2>1. PICK c : c = [node |-> ChildOf(Logpool, name), field |-> "root", of |-> 0]
    OBVIOUS
  <2>2. c \in CallSet /\ c.field = "root"
    BY <1>2, <2>1, ChildType DEF CallSet
  <2>3. h = <<c>>
    BY <1>2, <2>1 DEF Hanging, Call
  <2>4. Rooted(h)
    BY <2>2, <2>3, RootedShort
  <2>5. h # <<>> /\ h[1] = c
    BY <2>3
  <2> QED BY <1>2, <2>1, <2>4, <2>5
<1> QED BY <1>1, <1>2

LEMMA RootedCat ==
  ASSUME NEW s, NEW t, Rooted(s), Rooted(t)
  PROVE  /\ Rooted(s \o t)
         /\ s = <<>> => s \o t = t
         /\ s # <<>> => s \o t # <<>> /\ (s \o t)[1] = s[1]
<1>1. s \in Seq(CallSet) /\ t \in Seq(CallSet)
  BY DEF Rooted
<1>2. s \o t \in Seq(CallSet) /\ Len(s \o t) = Len(s) + Len(t)
  BY <1>1
<1>3. \A i \in 1 .. Len(s) + Len(t) :
        (s \o t)[i] = IF i <= Len(s) THEN s[i] ELSE t[i - Len(s)]
  BY <1>1
<1>4. \A i \in DOMAIN (s \o t) : (s \o t)[i].field = "root"
  BY <1>1, <1>2, <1>3 DEF Rooted
<1>5. s = <<>> => s \o t = t
  BY <1>1
<1>6. s # <<>> => s \o t # <<>> /\ (s \o t)[1] = s[1]
  BY <1>1, <1>2, <1>3
<1> QED BY <1>2, <1>4, <1>5, <1>6 DEF Rooted

\* The calls of codegen are of Logpool's points, the first of them first.
LEMMA RootCalls ==
  /\ Rooted(CallsAtRoot)
  /\ \A n : IsFirst(n) => CallsAtRoot # <<>> /\ CallsAtRoot[1].node = n
<1> DEFINE H(i) == Hanging(Logpool, LogpoolOrder[i], "root", 0)
           At(i) == ChildOf(Logpool, LogpoolOrder[i])
           s2 == H(1) \o H(2)
           s3 == s2 \o H(3)
           s4 == s3 \o H(4)
           s5 == s4 \o H(5)
<1>1. CallsAtRoot = s5
  BY DEF CallsAtRoot, LogpoolOrder
<1>2. \A i \in 1 .. 5 : /\ Rooted(H(i))
                        /\ At(i) = NULL => H(i) = <<>>
                        /\ At(i) # NULL => H(i) # <<>> /\ H(i)[1].node = At(i)
  BY RootedHanging
<1> HIDE DEF H, At
<1>3. Rooted(s2) /\ (H(1) = <<>> => s2 = H(2))
                 /\ (H(1) # <<>> => s2 # <<>> /\ s2[1] = H(1)[1])
  BY <1>2, RootedCat
<1> HIDE DEF s2
<1>4. Rooted(s3) /\ (s2 = <<>> => s3 = H(3)) /\ (s2 # <<>> => s3 # <<>> /\ s3[1] = s2[1])
  BY <1>2, <1>3, RootedCat
<1> HIDE DEF s3
<1>5. Rooted(s4) /\ (s3 = <<>> => s4 = H(4)) /\ (s3 # <<>> => s4 # <<>> /\ s4[1] = s3[1])
  BY <1>2, <1>4, RootedCat
<1> HIDE DEF s4
<1>6. Rooted(s5) /\ (s4 = <<>> => s5 = H(5)) /\ (s4 # <<>> => s5 # <<>> /\ s5[1] = s4[1])
  <2>1. Rooted(s4) /\ Rooted(H(5))
    BY <1>2, <1>5
  <2> QED BY <2>1, RootedCat
<1> HIDE DEF s5
<1>7. ASSUME NEW n, IsFirst(n)
      PROVE  s5 # <<>> /\ s5[1].node = n
  <2>1. PICK i \in 1 .. 5 : n = At(i) /\ n # NULL /\ \A j \in 1 .. i - 1 : At(j) = NULL
    BY <1>7 DEF IsFirst, LogpoolOrder, At
  <2>2. H(i) # <<>> /\ H(i)[1].node = n
    BY <1>2, <2>1
  <2>3. \A j \in 1 .. i - 1 : H(j) = <<>>
    BY <1>2, <2>1
  <2>4. CASE i = 1
    BY <1>3, <1>4, <1>5, <1>6, <2>2, <2>4
  <2>5. CASE i = 2
    <3>1. H(1) = <<>>
      BY <2>3, <2>5
    <3> QED BY <1>3, <1>4, <1>5, <1>6, <2>2, <2>5, <3>1
  <2>6. CASE i = 3
    <3>1. H(1) = <<>> /\ H(2) = <<>>
      BY <2>3, <2>6
    <3> QED BY <1>3, <1>4, <1>5, <1>6, <2>2, <2>6, <3>1
  <2>7. CASE i = 4
    <3>1. H(1) = <<>> /\ H(2) = <<>> /\ H(3) = <<>>
      BY <2>3, <2>7
    <3> QED BY <1>3, <1>4, <1>5, <1>6, <2>2, <2>7, <3>1
  <2>8. CASE i = 5
    <3>1. H(1) = <<>> /\ H(2) = <<>> /\ H(3) = <<>> /\ H(4) = <<>>
      BY <2>3, <2>8
    <3> QED BY <1>3, <1>4, <1>5, <1>6, <2>2, <2>8, <3>1
  <2> QED BY <2>4, <2>5, <2>6, <2>7, <2>8
<1> QED BY <1>1, <1>6, <1>7

\* The calls that are made of a node: of what hangs from it, of each once.
IsBelow(s, n, base) ==
  /\ s \in Seq(CallSet)
  /\ \A i \in DOMAIN s : /\ s[i].of = base
                         /\ s[i].field \in {"apply", "failed"}
                         /\ s[i].node = ChildOf(n, Name(s[i].field))
  /\ \A i, j \in DOMAIN s : s[i].field = s[j].field => i = j
  /\ \A field \in {"apply", "failed"} :
       ChildOf(n, Name(field)) # NULL => \E i \in DOMAIN s : s[i].field = field

LEMMA NewCalls ==
  ASSUME NEW n \in ConfNode, NEW base \in Nat
  PROVE  IsBelow(CallsBelow(n, base), n, base)
<1>0. PICK s : s = CallsBelow(n, base)
  OBVIOUS
<1>s. SUFFICES IsBelow(s, n, base)
  BY <1>0
<1> USE DEF IsBelow
<1> DEFINE n1 == ChildOf(n, "Child1")
           n2 == ChildOf(n, "Child2")
           c1 == [node |-> n1, field |-> "apply", of |-> base]
           c2 == [node |-> n2, field |-> "failed", of |-> base]
<1>1. Name("apply") = "Child1" /\ Name("failed") = "Child2"
  BY DEF Name
<1>2. (n1 # NULL => c1 \in CallSet) /\ (n2 # NULL => c2 \in CallSet)
  BY ChildType DEF CallSet
<1>3. CASE n1 = NULL /\ n2 = NULL
  <2>1. s = <<>>
    BY <1>0, <1>3 DEF CallsBelow, Hanging
  <2> QED BY <1>1, <1>3, <2>1
<1>4. CASE n1 # NULL /\ n2 = NULL
  <2>1. s = <<c1>>
    BY <1>0, <1>4 DEF CallsBelow, Hanging, Call
  <2> QED BY <1>1, <1>2, <1>4, <2>1
<1>5. CASE n1 = NULL /\ n2 # NULL
  <2>1. s = <<c2>>
    BY <1>0, <1>5 DEF CallsBelow, Hanging, Call
  <2> QED BY <1>1, <1>2, <1>5, <2>1
<1>6. CASE n1 # NULL /\ n2 # NULL
  <2>1. s = <<c1>> \o <<c2>>
    BY <1>0, <1>6 DEF CallsBelow, Hanging, Call
  <2>2. <<c1>> \in Seq(CallSet) /\ <<c2>> \in Seq(CallSet)
    BY <1>2, <1>6
  <2>3. s \in Seq(CallSet) /\ DOMAIN s = {1, 2} /\ s[1] = c1 /\ s[2] = c2
    BY <2>1, <2>2
  <2>4. \A i \in DOMAIN s : s[i] \in {c1, c2}
    BY <2>3
  <2> QED BY <1>1, <1>6, <2>3, <2>4
<1> QED BY <1>3, <1>4, <1>5, <1>6

-----------------------------------------------------------------------------
(* What is written *)

LEMMA CodedInit == Init => Coded
BY DEF Init, Coded

\* Nothing is written before codegen is called.
LEMMA CodedIdle ==
  ASSUME Coded, ~coding, UNCHANGED code
  PROVE  Coded'
BY DEF Coded, code

LEMMA CodedKept ==
  ASSUME Coded, UNCHANGED vars
  PROVE  Coded'
<1>1. CASE ~coding
  BY <1>1, CodedIdle DEF vars
<1>2. CASE coding
  <2>1. UNCHANGED <<kind, text, conn, coding, program, calls>>
    BY DEF vars, scene, edit, code
  <2>2. \A n, name : ChildOf(n, name)' = ChildOf(n, name)
    BY <2>1, ChildKept
  <2>3. \A n : IsFirst(n)' <=> IsFirst(n)
    BY <2>1, ChildKept
  <2>4. Shape' /\ Once' /\ coding'
    BY <1>2, <2>1 DEF Coded, Shape, Once, DeclSet
  <2>5. \A node : Stands(node) => Stands(node)'
    BY <2>1, <2>2, <2>3 DEF Stands, Plugins
  <2>6. \E node \in [Plugins -> ConfNode]' : Stands(node)'
    BY <1>2, <2>1, <2>5 DEF Coded, Plugins
  <2> QED BY <2>4, <2>6 DEF Coded
<1> QED BY <1>1, <1>2

LEMMA CodedCodegen ==
  ASSUME Coded, Codegen
  PROVE  Coded'
<1>1. ~coding
  BY DEF Codegen, Free, Running
<1>2. CASE Cyclic
  <2>1. UNCHANGED code
    BY <1>2 DEF Codegen
  <2> QED BY <1>1, <2>1, CodedIdle
<1>3. CASE ~Cyclic
  <2>1. /\ program' = program /\ coding' = TRUE /\ calls' = CallsAtRoot
        /\ UNCHANGED <<kind, text, conn>>
    BY <1>3 DEF Codegen, scene, edit
  <2>2. program = [decl |-> <<>>, chain |-> <<>>, idx |-> -1]
    BY <1>1 DEF Coded
  <2>3. /\ program.decl = <<>> /\ program.chain = <<>> /\ program.idx = -1
        /\ Len(program.decl) = 0 /\ DOMAIN program.chain = {} /\ Plugins = {}
    BY <2>2 DEF Plugins
  <2>4. Plugins' = {}
    BY <2>1, <2>3 DEF Plugins
  <2>5. calls' \in Seq(CallSet) /\ \A i \in DOMAIN calls' : calls'[i].field = "root"
    BY <2>1, RootCalls DEF Rooted
  <2>6. \A n : IsFirst(n)' => calls' # <<>> /\ calls'[1].node = n
    BY <2>1, RootCalls, ChildKept
  <2>7. Shape'
    <3>1. program' \in [decl : Seq(DeclSet)', chain : Seq(ChainSet), idx : Int]
      BY <2>1, <2>2
    <3> QED BY <2>1, <2>3, <2>5, <3>1 DEF Shape
  <2>8. Once'
    BY <2>1, <2>3, <2>5 DEF Once
  <2>9. PICK node : node = [p \in Plugins' |-> Logpool]
    OBVIOUS
  <2>10. node \in [Plugins' -> ConfNode]
    BY <2>4, <2>9
  <2>11. Stands(node)'
    <3>1. \A k \in 1 .. Len(program'.decl) :
            program'.decl[k] = [p |-> k - 1, kind |-> kind'[node[k - 1]],
                                conf |-> Conf(text'[node[k - 1]])]
      BY <2>1, <2>3
    <3>2. DOMAIN program'.chain = {}
      BY <2>1, <2>3
    <3>3. program'.decl = <<>>
      BY <2>1, <2>3
    <3> QED BY <2>4, <2>5, <2>6, <3>1, <3>2, <3>3 DEF Stands
  <2> QED BY <2>1, <2>7, <2>8, <2>10, <2>11 DEF Coded
<1> QED BY <1>2, <1>3

\* What a call does to what is written and to what is left to call.
Calls(new, call, base) ==
  /\ calls # <<>>
  /\ call = calls[1]
  /\ base = Len(program.decl)
  /\ new = CallsBelow(call.node, base)
  /\ program'.decl = Append(program.decl, [p |-> base, kind |-> kind[call.node],
                                           conf |-> Conf(text[call.node])])
  /\ program'.chain = IF call.field = "root" THEN program.chain
                      ELSE Append(program.chain, [p |-> call.of, field |-> call.field, q |-> base])
  /\ program' = [decl |-> program'.decl, chain |-> program'.chain, idx |-> base]
  /\ calls' = new \o Tail(calls)
  /\ UNCHANGED <<kind, text, conn, coding>>

LEMMA NodeToCodeCalls ==
  ASSUME Shape, NodeToCode
  PROVE  \E new, call, base : Calls(new, call, base)
<1>1. program.idx + 1 = Len(program.decl)
  BY DEF Shape
<1>2. Head(calls) = calls[1]
  BY DEF NodeToCode, Shape
<1>3. UNCHANGED <<kind, text, conn, coding>>
  BY DEF NodeToCode, scene, edit
<1>4. PICK base : base = Len(program.decl)
  OBVIOUS
<1>5. PICK call : call = calls[1]
  OBVIOUS
<1>6. PICK new : new = CallsBelow(call.node, base)
  OBVIOUS
<1>7. PICK decl : decl = Append(program.decl, [p |-> base, kind |-> kind[call.node],
                                               conf |-> Conf(text[call.node])])
  OBVIOUS
<1>8. PICK chain : chain = IF call.field = "root" THEN program.chain
                           ELSE Append(program.chain, [p |-> call.of, field |-> call.field,
                                                       q |-> base])
  OBVIOUS
<1>9. program' = [decl |-> decl, chain |-> chain, idx |-> base] /\ calls' = new \o Tail(calls)
  BY <1>1, <1>2, <1>4, <1>5, <1>6, <1>7, <1>8 DEF NodeToCode, Own
<1>10. program'.decl = decl /\ program'.chain = chain
  BY <1>9
<1>11. calls # <<>>
  BY DEF NodeToCode
<1>12. Calls(new, call, base)
  BY <1>3, <1>4, <1>5, <1>6, <1>7, <1>8, <1>9, <1>10, <1>11 DEF Calls
<1> QED BY <1>12

LEMMA CatParts ==
  ASSUME NEW S, NEW s \in Seq(S), NEW t \in Seq(S)
  PROVE  /\ s \o t \in Seq(S) /\ Len(s \o t) = Len(s) + Len(t)
         /\ \A i \in 1 .. Len(s) + Len(t) :
              (s \o t)[i] = IF i <= Len(s) THEN s[i] ELSE t[i - Len(s)]
OBVIOUS

LEMMA CallParts ==
  ASSUME Shape, NEW new, NEW call, NEW base, Calls(new, call, base)
  PROVE  /\ base \in Nat /\ call \in CallSet /\ 1 \in DOMAIN calls
         /\ Plugins = 0 .. base - 1 /\ Plugins' = 0 .. base
         /\ new \in Seq(CallSet)
         /\ calls' \in Seq(CallSet)
         /\ Len(calls') = Len(new) + Len(calls) - 1
         /\ \A i \in 1 .. Len(new) : i \in DOMAIN calls' /\ calls'[i] = new[i]
         /\ \A i \in DOMAIN calls' : i > Len(new) => /\ i - Len(new) + 1 \in DOMAIN calls
                                                     /\ i - Len(new) + 1 # 1
                                                     /\ calls'[i] = calls[i - Len(new) + 1]
         /\ \A j \in DOMAIN calls : j # 1 => /\ j + Len(new) - 1 \in DOMAIN calls'
                                             /\ calls'[j + Len(new) - 1] = calls[j]
<1>1. calls \in Seq(CallSet) /\ calls # <<>> /\ call = calls[1]
  BY DEF Shape, Calls
<1>2. call \in CallSet /\ 1 \in DOMAIN calls /\ Len(calls) \in Nat /\ Len(calls) # 0
  BY <1>1
<1>3. program.decl \in Seq(DeclSet) /\ base = Len(program.decl)
  BY DEF Shape, Calls
<1>4. base \in Nat /\ Len(program'.decl) = base + 1
  BY <1>3 DEF Calls
<1>5. Plugins = 0 .. base - 1 /\ Plugins' = 0 .. base
  BY <1>3, <1>4 DEF Plugins
<1>6. call.node \in ConfNode
  BY <1>2 DEF CallSet
<1>7. new \in Seq(CallSet)
  BY <1>4, <1>6, NewCalls DEF Calls, IsBelow
<1>8. PICK rest : rest = Tail(calls)
  OBVIOUS
<1>9. rest \in Seq(CallSet) /\ Len(rest) = Len(calls) - 1
      /\ \A j \in 1 .. Len(rest) : rest[j] = calls[j + 1]
  BY <1>1, <1>2, <1>8
<1>10. calls' = new \o rest
  BY <1>8 DEF Calls
<1>11. calls' \in Seq(CallSet) /\ Len(calls') = Len(new) + Len(rest)
       /\ \A i \in 1 .. Len(new) + Len(rest) :
            calls'[i] = IF i <= Len(new) THEN new[i] ELSE rest[i - Len(new)]
  <2>1. rest \in Seq(CallSet)
    BY <1>9
  <2> QED BY <1>7, <1>10, <2>1, CatParts
<1>12. Len(new) \in Nat /\ Len(rest) \in Nat
  BY <1>7, <1>9
<1>13. DOMAIN calls' = 1 .. Len(new) + Len(rest) /\ DOMAIN calls = 1 .. Len(rest) + 1
  BY <1>1, <1>9, <1>11, <1>2
<1>14. \A i \in 1 .. Len(new) : i \in DOMAIN calls' /\ calls'[i] = new[i]
  BY <1>11, <1>12, <1>13
<1>15. ASSUME NEW i \in DOMAIN calls', i > Len(new)
       PROVE  /\ i - Len(new) + 1 \in DOMAIN calls
              /\ i - Len(new) + 1 # 1
              /\ calls'[i] = calls[i - Len(new) + 1]
  <2>1. i - Len(new) \in 1 .. Len(rest)
    BY <1>12, <1>13, <1>15
  <2>2. i \in 1 .. Len(new) + Len(rest) /\ ~(i <= Len(new))
    BY <1>12, <1>13, <1>15
  <2>3. calls'[i] = rest[i - Len(new)]
    BY <1>11, <2>2
  <2>4. rest[i - Len(new)] = calls[(i - Len(new)) + 1]
    BY <1>9, <2>1
  <2>5. i - Len(new) + 1 \in 1 .. Len(rest) + 1 /\ i - Len(new) + 1 # 1
    BY <1>12, <2>1, <2>2
  <2> QED BY <1>13, <2>3, <2>4, <2>5
<1>16. ASSUME NEW j \in DOMAIN calls, j # 1
       PROVE  j + Len(new) - 1 \in DOMAIN calls' /\ calls'[j + Len(new) - 1] = calls[j]
  <2>1. j - 1 \in 1 .. Len(rest) /\ j \in Int
    BY <1>12, <1>13, <1>16
  <2>2. j + Len(new) - 1 \in 1 .. Len(new) + Len(rest) /\ ~(j + Len(new) - 1 <= Len(new))
        /\ (j + Len(new) - 1) - Len(new) = j - 1
    BY <1>12, <2>1
  <2>3. calls'[j + Len(new) - 1] = rest[j - 1]
    BY <1>11, <2>2
  <2>4. rest[j - 1] = calls[j]
    <3>1. rest[j - 1] = calls[(j - 1) + 1]
      BY <1>9, <2>1
    <3>2. (j - 1) + 1 = j
      BY <2>1
    <3> QED BY <3>1, <3>2
  <2> QED BY <1>13, <2>2, <2>3, <2>4
<1> QED BY <1>2, <1>4, <1>5, <1>7, <1>9, <1>11, <1>14, <1>15, <1>16

\* What a call does to what is written: a plugin, and a line of the chain unless
\* it is of Logpool's points.
Written(call, base) ==
  /\ Len(program'.decl) = base + 1 /\ program'.decl # <<>>
  /\ \A k \in 1 .. base : program'.decl[k] = program.decl[k]
  /\ program'.decl[base + 1] = [p |-> base, kind |-> kind[call.node],
                                conf |-> Conf(text[call.node])]
  /\ call.field = "root" => program'.chain = program.chain
  /\ call.field # "root" =>
       /\ DOMAIN program'.chain = DOMAIN program.chain \cup {Len(program.chain) + 1}
       /\ Len(program.chain) + 1 \notin DOMAIN program.chain
       /\ program'.chain[Len(program.chain) + 1] =
            [p |-> call.of, field |-> call.field, q |-> base]
       /\ \A k \in DOMAIN program.chain : program'.chain[k] = program.chain[k]

LEMMA WrittenParts ==
  ASSUME Shape, NEW new, NEW call, NEW base, Calls(new, call, base)
  PROVE  Written(call, base)
<1>1. program.decl \in Seq(DeclSet) /\ program.chain \in Seq(ChainSet) /\ base = Len(program.decl)
  BY DEF Shape, Calls
<1>2. PICK d : d = [p |-> base, kind |-> kind[call.node], conf |-> Conf(text[call.node])]
  OBVIOUS
<1>3. PICK c : c = [p |-> call.of, field |-> call.field, q |-> base]
  OBVIOUS
<1>4. /\ Len(program'.decl) = base + 1
      /\ \A k \in 1 .. base : program'.decl[k] = program.decl[k]
      /\ program'.decl[base + 1] = d
  <2>1. program'.decl = Append(program.decl, d)
    BY <1>2 DEF Calls
  <2> QED BY <1>1, <2>1
<1>5. program'.decl # <<>>
  BY <1>1, <1>4
<1>6. call.field = "root" => program'.chain = program.chain
  BY DEF Calls
<1>7. ASSUME call.field # "root"
      PROVE  /\ DOMAIN program'.chain = DOMAIN program.chain \cup {Len(program.chain) + 1}
             /\ Len(program.chain) + 1 \notin DOMAIN program.chain
             /\ program'.chain[Len(program.chain) + 1] = c
             /\ \A k \in DOMAIN program.chain : program'.chain[k] = program.chain[k]
  <2>1. program'.chain = Append(program.chain, c)
    BY <1>3, <1>7 DEF Calls
  <2>2. Len(program.chain) \in Nat /\ DOMAIN program.chain = 1 .. Len(program.chain)
    BY <1>1
  <2> QED BY <1>1, <2>1, <2>2
<1> QED BY <1>2, <1>3, <1>4, <1>5, <1>6, <1>7 DEF Written

LEMMA ShapeCalled ==
  ASSUME TypeOK, Shape, NEW new, NEW call, NEW base, Calls(new, call, base)
  PROVE  Shape'
<1>1. program.decl \in Seq(DeclSet) /\ program.chain \in Seq(ChainSet) /\ base = Len(program.decl)
  BY DEF Shape, Calls
<1>2. base \in Nat /\ call \in CallSet
  BY CallParts
<1>3. DeclSet' = DeclSet
  BY DEF Calls, DeclSet
<1>4. [p |-> base, kind |-> kind[call.node], conf |-> Conf(text[call.node])] \in DeclSet
  BY <1>2 DEF DeclSet, CallSet, TypeOK
<1>5. program'.decl \in Seq(DeclSet)
  <2>1. PICK d : d = [p |-> base, kind |-> kind[call.node], conf |-> Conf(text[call.node])]
    OBVIOUS
  <2>2. d \in DeclSet /\ program'.decl = Append(program.decl, d)
    BY <1>4, <2>1 DEF Calls
  <2> QED BY <1>1, <2>2
<1>6. program'.chain \in Seq(ChainSet)
  <2>1. CASE call.field = "root"
    BY <1>1, <2>1 DEF Calls
  <2>2. CASE call.field # "root"
    <3>1. PICK c : c = [p |-> call.of, field |-> call.field, q |-> base]
      OBVIOUS
    <3>2. c \in ChainSet
      BY <1>2, <2>2, <3>1 DEF CallSet, ChainSet
    <3>3. program'.chain = Append(program.chain, c)
      BY <2>2, <3>1 DEF Calls
    <3> QED BY <1>1, <3>2, <3>3
  <2> QED BY <2>1, <2>2
<1>7. program'.idx = base /\ program' = [decl |-> program'.decl, chain |-> program'.chain, idx |-> base]
  BY DEF Calls
<1>8. program' \in [decl : Seq(DeclSet)', chain : Seq(ChainSet), idx : Int]
  BY <1>2, <1>3, <1>5, <1>6, <1>7
<1>9. program'.idx = Len(program'.decl) - 1
  <2>1. Len(program'.decl) = base + 1
    BY WrittenParts DEF Written
  <2> QED BY <1>2, <1>7, <2>1
<1> QED BY <1>8, <1>9, CallParts DEF Shape

\* Where a call that is left was before.
LEMMA CallCases ==
  ASSUME Shape, NEW new, NEW call, NEW base, Calls(new, call, base), NEW i \in DOMAIN calls'
  PROVE  \/ i \in DOMAIN new /\ i \in 1 .. Len(new) /\ calls'[i] = new[i]
         \/ \E j \in DOMAIN calls : j # 1 /\ j = i - Len(new) + 1 /\ calls'[i] = calls[j]
<1>1. calls' \in Seq(CallSet) /\ new \in Seq(CallSet)
  BY CallParts
<1>2. i \in Int /\ i >= 1 /\ Len(new) \in Nat /\ DOMAIN new = 1 .. Len(new)
  BY <1>1
<1>3. CASE i > Len(new)
  BY <1>3, CallParts
<1>4. CASE ~(i > Len(new))
  <2>1. i \in 1 .. Len(new)
    BY <1>2, <1>4
  <2> QED BY <1>2, <2>1, CallParts
<1> QED BY <1>3, <1>4

LEMMA NewParts ==
  ASSUME Shape, NEW new, NEW call, NEW base, Calls(new, call, base)
  PROVE  IsBelow(new, call.node, base)
<1>1. call \in CallSet /\ base \in Nat
  BY CallParts
<1>2. call.node \in ConfNode
  BY <1>1 DEF CallSet
<1>3. new = CallsBelow(call.node, base)
  BY DEF Calls
<1> QED BY <1>1, <1>2, <1>3, NewCalls

LEMMA OnceCalled ==
  ASSUME Shape, Once, NEW node, Stands(node),
         NEW new, NEW call, NEW base, Calls(new, call, base)
  PROVE  Once'
<1>0. /\ base \in Nat /\ Plugins = 0 .. base - 1 /\ base \notin Plugins
      /\ call = calls[1] /\ 1 \in DOMAIN calls
  <2>1. base \in Nat /\ Plugins = 0 .. base - 1 /\ 1 \in DOMAIN calls
    BY CallParts
  <2>2. call = calls[1]
    BY DEF Calls
  <2>3. base \notin 0 .. base - 1
    BY <2>1
  <2> QED BY <2>1, <2>2, <2>3
<1>1. \A k \in DOMAIN program.chain : program.chain[k].p \in Plugins /\ program.chain[k].q \in Plugins
  BY DEF Stands
<1>2. \A i \in DOMAIN calls : calls[i].field # "root" => calls[i].of \in Plugins
  BY DEF Stands
<1>3. ASSUME NEW k \in DOMAIN program'.chain, k \notin DOMAIN program.chain
      PROVE  /\ call.field # "root" /\ k = Len(program.chain) + 1
             /\ program'.chain[k].p = call.of /\ program'.chain[k].field = call.field
             /\ program'.chain[k].q = base
  <2>1. call.field # "root"
    BY <1>3, WrittenParts DEF Written
  <2>2. k = Len(program.chain) + 1
    BY <1>3, <2>1, WrittenParts DEF Written
  <2>3. program'.chain[k] = [p |-> call.of, field |-> call.field, q |-> base]
    BY <2>1, <2>2, WrittenParts DEF Written
  <2> QED BY <2>1, <2>2, <2>3
<1>4. \A k \in DOMAIN program'.chain : k \in DOMAIN program.chain =>
        program'.chain[k] = program.chain[k]
  BY WrittenParts DEF Written
<1>5. ASSUME NEW k \in DOMAIN program'.chain, NEW l \in DOMAIN program'.chain,
             \/ program'.chain[k].q = program'.chain[l].q
             \/ /\ program'.chain[k].p = program'.chain[l].p
                /\ program'.chain[k].field = program'.chain[l].field
      PROVE  k = l
  <2>1. CASE k \in DOMAIN program.chain /\ l \in DOMAIN program.chain
    BY <1>4, <1>5, <2>1 DEF Once
  <2>2. CASE k \notin DOMAIN program.chain /\ l \notin DOMAIN program.chain
    BY <1>3, <2>2
  <2>3. ASSUME NEW x \in DOMAIN program'.chain, NEW y \in DOMAIN program'.chain,
               x \in DOMAIN program.chain, y \notin DOMAIN program.chain
        PROVE  /\ program'.chain[x].q # program'.chain[y].q
               /\ ~ /\ program'.chain[x].p = program'.chain[y].p
                    /\ program'.chain[x].field = program'.chain[y].field
    <3>1. program'.chain[x] = program.chain[x] /\ program.chain[x].q # base
      BY <1>0, <1>1, <1>4, <2>3
    <3>2. ~(call.field = program.chain[x].field /\ call.of = program.chain[x].p)
      BY <1>0, <2>3 DEF Once
    <3> QED BY <1>3, <2>3, <3>1, <3>2
  <2> QED BY <1>5, <2>1, <2>2, <2>3
<1>6. ASSUME NEW i \in DOMAIN calls', NEW j \in DOMAIN calls', calls'[i].field # "root",
             calls'[i].field = calls'[j].field, calls'[i].of = calls'[j].of
      PROVE  i = j
  <2>0. Len(new) \in Nat /\ i \in Int /\ j \in Int
    BY CallParts
  <2>1. CASE i \in DOMAIN new /\ calls'[i] = new[i] /\ j \in DOMAIN new /\ calls'[j] = new[j]
    BY <1>6, <2>1, NewParts DEF IsBelow
  <2>2. ASSUME NEW x \in DOMAIN calls', NEW y \in DOMAIN calls', NEW z \in DOMAIN calls,
               x \in DOMAIN new, calls'[x] = new[x], calls'[y] = calls[z],
               calls'[y].field # "root"
        PROVE  calls'[x].of # calls'[y].of
    <3>1. calls'[x].of = base
      BY <2>2, NewParts DEF IsBelow
    <3>2. calls'[y].of \in Plugins
      BY <1>2, <2>2
    <3> QED BY <1>0, <3>1, <3>2
  <2>3. ASSUME NEW x \in DOMAIN calls, NEW y \in DOMAIN calls,
               x = i - Len(new) + 1, calls'[i] = calls[x],
               y = j - Len(new) + 1, calls'[j] = calls[y]
        PROVE  i = j
    <3>1. x = y
      BY <1>6, <2>3 DEF Once
    <3> QED BY <2>0, <2>3, <3>1
  <2> QED BY <1>6, <2>1, <2>2, <2>3, CallCases
<1>7. ASSUME NEW i \in DOMAIN calls', NEW k \in DOMAIN program'.chain
      PROVE  ~(calls'[i].field = program'.chain[k].field /\ calls'[i].of = program'.chain[k].p)
  <2>1. CASE i \in DOMAIN new /\ calls'[i] = new[i]
    <3>1. calls'[i].of = base
      BY <2>1, NewParts DEF IsBelow
    <3>2. program'.chain[k].p \in Plugins
      BY <1>0, <1>1, <1>2, <1>3, <1>4
    <3> QED BY <1>0, <3>1, <3>2
  <2>2. ASSUME NEW j \in DOMAIN calls, j # 1, calls'[i] = calls[j]
        PROVE  ~(calls'[i].field = program'.chain[k].field /\ calls'[i].of = program'.chain[k].p)
    <3>1. CASE k \in DOMAIN program.chain
      BY <1>4, <2>2, <3>1 DEF Once
    <3>2. CASE k \notin DOMAIN program.chain
      <4>1. call.field # "root" /\ program'.chain[k].p = call.of /\ program'.chain[k].field = call.field
        BY <1>3, <3>2
      <4>2. ~(calls[1].field = calls[j].field /\ calls[1].of = calls[j].of)
        BY <1>0, <2>2, <4>1 DEF Once
      <4> QED BY <1>0, <2>2, <4>1, <4>2
    <3> QED BY <3>1, <3>2
  <2> QED BY <2>1, <2>2, CallCases
<1> QED BY <1>5, <1>6, <1>7 DEF Once

\* The plugins stand for the nodes they stood for, the new one for the node of
\* the call.
LEMMA StandsCalled ==
  ASSUME Shape, NEW node \in [Plugins -> ConfNode], Stands(node),
         NEW new, NEW call, NEW base, Calls(new, call, base)
  PROVE  \E node2 \in [Plugins' -> ConfNode] : Stands(node2)'
<1>0. /\ base \in Nat /\ Plugins = 0 .. base - 1 /\ base \notin Plugins
      /\ Plugins' = Plugins \cup {base}
      /\ call = calls[1] /\ 1 \in DOMAIN calls /\ call.node \in ConfNode
  <2>1. base \in Nat /\ Plugins = 0 .. base - 1 /\ Plugins' = 0 .. base /\ 1 \in DOMAIN calls
    BY CallParts
  <2>2. call \in CallSet
    BY CallParts
  <2>3. call = calls[1]
    BY DEF Calls
  <2>4. call.node \in ConfNode
    BY <2>2 DEF CallSet
  <2>5. base \notin 0 .. base - 1 /\ 0 .. base = (0 .. base - 1) \cup {base}
    BY <2>1
  <2> QED BY <2>1, <2>3, <2>4, <2>5
<1>1. PICK node2 : node2 = [p \in Plugins' |-> IF p = base THEN call.node ELSE node[p]]
  OBVIOUS
<1>2. /\ node2 \in [Plugins' -> ConfNode]
      /\ node2[base] = call.node
      /\ \A p \in Plugins : node2[p] = node[p]
  BY <1>0, <1>1
<1>3. /\ kind' = kind /\ text' = text /\ UNCHANGED conn
      /\ Len(program.decl) = base
  BY DEF Calls
<1>4. \A n, name : ChildOf(n, name)' = ChildOf(n, name)
  BY <1>3, ChildKept
<1>5. \A n : IsFirst(n)' <=> IsFirst(n)
  BY <1>3, ChildKept
<1>6. ASSUME NEW k \in 1 .. Len(program'.decl)
      PROVE  program'.decl[k] = [p |-> k - 1, kind |-> kind[node2[k - 1]],
                                 conf |-> Conf(text[node2[k - 1]])]
  <2>1. Len(program'.decl) = base + 1
    BY WrittenParts DEF Written
  <2>2. CASE k = base + 1
    <3>1. program'.decl[base + 1] = [p |-> base, kind |-> kind[call.node],
                                     conf |-> Conf(text[call.node])]
      <4>1. Written(call, base)
        BY WrittenParts
      <4> QED BY <4>1 DEF Written
    <3>2. k - 1 = base
      BY <1>0, <2>2
    <3> QED BY <1>2, <2>2, <3>1, <3>2
  <2>3. CASE k # base + 1
    <3>1. k \in 1 .. base /\ k - 1 \in Plugins
      BY <1>0, <2>1, <2>3
    <3>2. program'.decl[k] = program.decl[k]
      BY <3>1, WrittenParts DEF Written
    <3>3. program.decl[k] = [p |-> k - 1, kind |-> kind[node[k - 1]],
                             conf |-> Conf(text[node[k - 1]])]
      BY <1>3, <3>1 DEF Stands
    <3> QED BY <1>2, <3>1, <3>2, <3>3
  <2> QED BY <2>2, <2>3
<1>7. ASSUME NEW k \in DOMAIN program'.chain
      PROVE  /\ program'.chain[k].p \in Plugins' /\ program'.chain[k].q \in Plugins'
             /\ node2[program'.chain[k].q] =
                  ChildOf(node2[program'.chain[k].p], Name(program'.chain[k].field))
  <2>1. CASE k \in DOMAIN program.chain
    <3>1. program'.chain[k] = program.chain[k]
      BY <2>1, WrittenParts DEF Written
    <3>2. /\ program.chain[k].p \in Plugins /\ program.chain[k].q \in Plugins
          /\ node[program.chain[k].q] = ChildOf(node[program.chain[k].p], Name(program.chain[k].field))
      BY <2>1 DEF Stands
    <3> QED BY <1>0, <1>2, <3>1, <3>2
  <2>2. CASE k \notin DOMAIN program.chain
    <3>1. call.field # "root"
      BY <2>2, WrittenParts DEF Written
    <3>2. k = Len(program.chain) + 1
      <4>1. DOMAIN program'.chain = DOMAIN program.chain \cup {Len(program.chain) + 1}
        BY <3>1, WrittenParts DEF Written
      <4> QED BY <2>2, <4>1
    <3>3. program'.chain[k] = [p |-> call.of, field |-> call.field, q |-> base]
      BY <3>1, <3>2, WrittenParts DEF Written
    <3>4. call.of \in Plugins /\ call.node = ChildOf(node[call.of], Name(call.field))
      BY <1>0, <3>1 DEF Stands
    <3> QED BY <1>0, <1>2, <3>3, <3>4
  <2> QED BY <2>1, <2>2
<1>8. ASSUME NEW i \in DOMAIN calls', calls'[i].field # "root"
      PROVE  /\ calls'[i].of \in Plugins'
             /\ calls'[i].node = ChildOf(node2[calls'[i].of], Name(calls'[i].field))
  <2>1. CASE i \in DOMAIN new /\ calls'[i] = new[i]
    BY <1>0, <1>2, <2>1, NewParts DEF IsBelow
  <2>2. ASSUME NEW j \in DOMAIN calls, calls'[i] = calls[j]
        PROVE  /\ calls'[i].of \in Plugins'
               /\ calls'[i].node = ChildOf(node2[calls'[i].of], Name(calls'[i].field))
    <3>1. calls[j].of \in Plugins /\ calls[j].node = ChildOf(node[calls[j].of], Name(calls[j].field))
      BY <1>8, <2>2 DEF Stands
    <3> QED BY <1>0, <1>2, <2>2, <3>1
  <2> QED BY <2>1, <2>2, CallCases
<1>9. ASSUME NEW p \in Plugins', NEW field \in {"apply", "failed"},
             ChildOf(node2[p], Name(field)) # NULL
      PROVE  \/ \E i \in DOMAIN calls' : calls'[i].of = p /\ calls'[i].field = field
             \/ \E k \in DOMAIN program'.chain :
                  program'.chain[k].p = p /\ program'.chain[k].field = field
  <2>1. CASE p = base
    <3>1. PICK i \in DOMAIN new : new[i].field = field /\ new[i].of = base
      BY <1>2, <1>9, <2>1, NewParts DEF IsBelow
    <3>2. new \in Seq(CallSet)
      BY NewParts DEF IsBelow
    <3>3. i \in 1 .. Len(new)
      BY <3>2
    <3>4. i \in DOMAIN calls' /\ calls'[i] = new[i]
      BY <3>3, CallParts
    <3> QED BY <2>1, <3>1, <3>4
  <2>2. CASE p # base
    <3>1. p \in Plugins /\ ChildOf(node[p], Name(field)) # NULL
      BY <1>0, <1>2, <1>9, <2>2
    <3>2. CASE \E k \in DOMAIN program.chain : program.chain[k].p = p /\ program.chain[k].field = field
      <4>1. PICK k \in DOMAIN program.chain : program.chain[k].p = p /\ program.chain[k].field = field
        BY <3>2
      <4>2. k \in DOMAIN program'.chain /\ program'.chain[k] = program.chain[k]
        BY WrittenParts DEF Written
      <4> QED BY <4>1, <4>2
    <3>3. CASE \E i \in DOMAIN calls : calls[i].of = p /\ calls[i].field = field
      <4>1. PICK i \in DOMAIN calls : calls[i].of = p /\ calls[i].field = field
        BY <3>3
      <4>2. CASE i = 1
        <5>1. call.field # "root" /\ call.of = p /\ call.field = field
          BY <1>0, <4>1, <4>2
        <5>2. /\ Len(program.chain) + 1 \in DOMAIN program'.chain
              /\ program'.chain[Len(program.chain) + 1] =
                   [p |-> call.of, field |-> call.field, q |-> base]
          BY <5>1, WrittenParts DEF Written
        <5> QED BY <5>1, <5>2
      <4>3. CASE i # 1
        <5>1. i + Len(new) - 1 \in DOMAIN calls' /\ calls'[i + Len(new) - 1] = calls[i]
          BY <4>3, CallParts
        <5> QED BY <4>1, <5>1
      <4> QED BY <4>2, <4>3
    <3> QED BY <3>1, <3>2, <3>3 DEF Stands
  <2> QED BY <2>1, <2>2
<1>10. ASSUME NEW n, IsFirst(n)
       PROVE  node2[0] = n /\ program'.decl # <<>>
  <2>1. program'.decl # <<>>
    BY WrittenParts DEF Written
  <2>2. CASE program.decl = <<>>
    <3>1. base = 0
      BY <1>3, <2>2
    <3>2. calls[1].node = n
      BY <1>10, <2>2 DEF Stands
    <3> QED BY <1>0, <1>2, <2>1, <3>1, <3>2
  <2>3. CASE program.decl # <<>>
    <3>1. program.decl \in Seq(DeclSet)
      BY DEF Shape
    <3>2. base # 0
      BY <1>3, <2>3, <3>1
    <3>3. 0 \in Plugins
      BY <1>0, <3>2
    <3>4. node[0] = n
      BY <1>10, <2>3 DEF Stands
    <3> QED BY <1>2, <2>1, <3>3, <3>4
  <2> QED BY <2>2, <2>3
<1>11. Stands(node2)'
  <2>1. \A k \in 1 .. Len(program'.decl) :
          program'.decl[k] = [p |-> k - 1, kind |-> kind'[node2[k - 1]],
                              conf |-> Conf(text'[node2[k - 1]])]
    BY <1>3, <1>6
  <2>2. \A k \in DOMAIN program'.chain :
          /\ program'.chain[k].p \in Plugins' /\ program'.chain[k].q \in Plugins'
          /\ node2[program'.chain[k].q] =
               ChildOf(node2[program.chain[k].p], Name(program.chain[k].field))'
    BY <1>4, <1>7
  <2>3. \A i \in DOMAIN calls' : calls'[i].field # "root" =>
          /\ calls'[i].of \in Plugins'
          /\ calls'[i].node = ChildOf(node2[calls[i].of], Name(calls[i].field))'
    BY <1>4, <1>8
  <2>4. \A p \in Plugins', field \in {"apply", "failed"} :
          ChildOf(node2[p], Name(field))' # NULL =>
             \/ \E i \in DOMAIN calls' : calls'[i].of = p /\ calls'[i].field = field
             \/ \E k \in DOMAIN program'.chain :
                  program'.chain[k].p = p /\ program'.chain[k].field = field
    BY <1>4, <1>9
  <2>5. \A n : IsFirst(n)' => IF program'.decl = <<>> THEN calls' # <<>> /\ calls'[1].node = n
                              ELSE node2[0] = n
    BY <1>5, <1>10
  <2> QED BY <2>1, <2>2, <2>3, <2>4, <2>5 DEF Stands
<1> QED BY <1>2, <1>11

LEMMA CodedStep ==
  ASSUME TypeOK, Coded, [Next]_vars
  PROVE  Coded'
<1>1. CASE NodeToCode
  <2>1. coding
    BY <1>1 DEF NodeToCode, Coded
  <2>2. Shape /\ Once
    BY <2>1 DEF Coded
  <2>3. PICK node \in [Plugins -> ConfNode] : Stands(node)
    BY <2>1 DEF Coded
  <2>4. PICK new, call, base : Calls(new, call, base)
    BY <1>1, <2>2, NodeToCodeCalls
  <2>5. Shape' /\ Once'
    BY <2>2, <2>3, <2>4, ShapeCalled, OnceCalled
  <2>6. \E node2 \in [Plugins' -> ConfNode] : Stands(node2)'
    BY <2>2, <2>3, <2>4, StandsCalled
  <2>7. coding'
    BY <2>1, <2>4 DEF Calls
  <2> QED BY <2>5, <2>6, <2>7 DEF Coded
<1>2. CASE Codegen
  BY <1>2, CodedCodegen
<1>3. CASE AddNode \/ PointPress \/ PointRelease \/ TitleClick \/ BackgroundClick \/ MoveNode
             \/ TextPress \/ Type
  <2>1. ~coding /\ UNCHANGED code
    BY <1>3 DEF AddNode, PointPress, PointRelease, TitleClick, BackgroundClick, MoveNode,
                TextPress, Type, Free, Running
  <2> QED BY <2>1, CodedIdle
<1>4. CASE UNCHANGED vars
  BY <1>4, CodedKept
<1> QED BY <1>1, <1>2, <1>3, <1>4 DEF Next

-----------------------------------------------------------------------------
(* The invariant *)

LEMMA IInvHolds == Spec => []IInv
<1>1. Init => IInv
  <2>1. Init => CrashOnly
    BY DEF Init, CrashOnly
  <2> QED BY <2>1, TypeOKInit, SelectingInit, LinedInit, TextedInit, CodedInit DEF IInv
<1>2. IInv /\ [Next]_vars => IInv'
  <2> SUFFICES ASSUME IInv, [Next]_vars
               PROVE  IInv'
    OBVIOUS
  <2>1. TypeOK' /\ Selecting' /\ Lined' /\ LinesFollow'
    BY TypeOKStep, SelectingStep, LinedStep DEF IInv
  <2>2. Texted' /\ Coded' /\ CrashOnly'
    BY TextedStep, CodedStep, CrashStep DEF IInv
  <2> QED BY <2>1, <2>2 DEF IInv
<1> QED BY <1>1, <1>2, PTL DEF Spec

(* Type correctness: of what is in the scene and, in Coded, of what codegen  *)
(* has written and has left to call.                                         *)
THEOREM TypeCorrect == Spec => [](TypeOK /\ Coded)
<1>1. IInv => TypeOK /\ Coded
  BY DEF IInv
<1> QED BY <1>1, IInvHolds, PTL

(* OGraphicsEllipseItem::mouseReleaseEvent and codegen, whatever is clicked   *)
(* on in whatever order: connect is called with a null pointer only after a  *)
(* title was clicked on, nodeToCode does not return only in a circle.        *)
THEOREM CrashesOnly == Spec => []CrashOnly
<1>1. IInv => CrashOnly
  BY DEF IInv
<1> QED BY <1>1, IInvHolds, PTL

(* connect and moveLine, whatever is connected, connected again and moved:   *)
(* a connection that is one has its line, and the line its ends.             *)
THEOREM LinesAlwaysFollow == Spec => []LinesFollow
<1>1. IInv => LinesFollow
  BY DEF IInv
<1> QED BY <1>1, IInvHolds, PTL

(* The one editor for all texts, which writes when it is set: no text is     *)
(* written into another's item.                                              *)
THEOREM TextsAlwaysOwn == Spec => []TextsOwn
<1>1. IInv => TextsOwn
  BY DEF IInv, Texted, TextsOwn
<1> QED BY <1>1, IInvHolds, PTL

LEMMA StandsDecl ==
  ASSUME Shape, NEW node, Stands(node), NEW k \in DOMAIN program.decl
  PROVE  /\ program.decl[k] = [p |-> k - 1, kind |-> kind[node[k - 1]],
                               conf |-> Conf(text[node[k - 1]])]
         /\ program.decl[k].p = k - 1
<1>1. k \in 1 .. Len(program.decl)
  BY DEF Shape
<1>2. program.decl[k] = [p |-> k - 1, kind |-> kind[node[k - 1]],
                         conf |-> Conf(text[node[k - 1]])]
  BY <1>1 DEF Stands
<1> QED BY <1>2

LEMMA StandsChain ==
  ASSUME NEW node, Stands(node)
  PROVE  \A k \in DOMAIN program.chain :
           /\ program.chain[k].p \in Plugins /\ program.chain[k].q \in Plugins
           /\ node[program.chain[k].q] =
                ChildOf(node[program.chain[k].p], Name(program.chain[k].field))
BY DEF Stands

\* What has been written when nothing is left to call.
LEMMA WrittenRight ==
  ASSUME Texted, Coded, coding, calls = <<>>
  PROVE  LET plugins == {program.decl[k].p : k \in DOMAIN program.decl}
         IN  /\ plugins = 0 .. Len(program.decl) - 1
             /\ \A k \in DOMAIN program.chain :
                  program.chain[k].p \in plugins /\ program.chain[k].q \in plugins
             /\ \A k, l \in DOMAIN program.chain :
                  LET c == program.chain[k]
                      d == program.chain[l]
                  IN  c.q = d.q \/ (c.p = d.p /\ c.field = d.field) => k = l
<1>1. Shape /\ Once
  BY DEF Coded
<1>2. PICK node \in [Plugins -> ConfNode] : Stands(node)
  BY DEF Coded
<1>3. Len(program.decl) \in Nat /\ DOMAIN program.decl = 1 .. Len(program.decl)
  BY <1>1 DEF Shape
<1>4. \A k \in 1 .. Len(program.decl) : program.decl[k].p = k - 1
  BY <1>1, <1>2, <1>3, StandsDecl
<1>5. {program.decl[k].p : k \in DOMAIN program.decl} = Plugins
  <2>1. \A k \in DOMAIN program.decl : program.decl[k].p \in Plugins
    BY <1>3, <1>4 DEF Plugins
  <2>2. ASSUME NEW p \in Plugins
        PROVE  \E k \in DOMAIN program.decl : program.decl[k].p = p
    <3>1. p + 1 \in 1 .. Len(program.decl) /\ (p + 1) - 1 = p
      BY <1>3 DEF Plugins
    <3>2. program.decl[p + 1].p = p
      BY <1>4, <3>1
    <3> QED BY <1>3, <3>1, <3>2
  <2> QED BY <2>1, <2>2
<1>6. \A k \in DOMAIN program.chain : program.chain[k].p \in Plugins /\ program.chain[k].q \in Plugins
  BY <1>2, StandsChain
<1> QED BY <1>1, <1>5, <1>6 DEF Once, Plugins

LEMMA DeclOf ==
  ASSUME Shape, NEW node, Stands(node), NEW p \in Plugins
  PROVE  Decl(p) = {[p |-> p, kind |-> kind[node[p]], conf |-> Conf(text[node[p]])]}
<1>1. Len(program.decl) \in Nat /\ DOMAIN program.decl = 1 .. Len(program.decl)
  BY DEF Shape
<1>2. \A k \in 1 .. Len(program.decl) :
        /\ program.decl[k] = [p |-> k - 1, kind |-> kind[node[k - 1]],
                              conf |-> Conf(text[node[k - 1]])]
        /\ program.decl[k].p = k - 1
  BY <1>1, StandsDecl
<1>3. PICK d : d = [p |-> p, kind |-> kind[node[p]], conf |-> Conf(text[node[p]])]
  OBVIOUS
<1>4. p + 1 \in 1 .. Len(program.decl) /\ (p + 1) - 1 = p
  BY <1>1 DEF Plugins
<1>5. program.decl[p + 1] = d /\ d.p = p
  BY <1>2, <1>3, <1>4
<1>6. ASSUME NEW k \in DOMAIN program.decl, program.decl[k].p = p
      PROVE  program.decl[k] = d
  <2>1. k \in 1 .. Len(program.decl)
    BY <1>1
  <2>2. program.decl[k].p = k - 1
    BY <1>2, <2>1
  <2>3. k = p + 1
    BY <1>1, <1>6, <2>1, <2>2
  <2> QED BY <1>5, <2>3
<1>7. \A x : x \in Decl(p) <=> x = d
  BY <1>1, <1>4, <1>5, <1>6 DEF Decl
<1> QED BY <1>3, <1>7

LEMMA ChainedOf ==
  ASSUME NEW node \in [Plugins -> ConfNode], Stands(node), calls = <<>>,
         NEW p \in Plugins, NEW field \in {"apply", "failed"}
  PROVE  {node[q] : q \in Chained(p, field)} = {ChildOf(node[p], Name(field))} \ {NULL}
<1>1. ASSUME NEW q \in Chained(p, field)
      PROVE  node[q] = ChildOf(node[p], Name(field)) /\ node[q] # NULL
  <2>1. PICK k \in DOMAIN program.chain :
          program.chain[k].p = p /\ program.chain[k].field = field /\ program.chain[k].q = q
    BY DEF Chained
  <2>2. q \in Plugins /\ node[q] = ChildOf(node[p], Name(field))
    BY <2>1, StandsChain
  <2> QED BY <2>2, NodesAssumption
<1>2. ASSUME ChildOf(node[p], Name(field)) # NULL
      PROVE  \E q \in Chained(p, field) : node[q] = ChildOf(node[p], Name(field))
  <2>1. \/ \E i \in DOMAIN calls : calls[i].of = p /\ calls[i].field = field
        \/ \E k \in DOMAIN program.chain : program.chain[k].p = p /\ program.chain[k].field = field
    BY <1>2 DEF Stands
  <2>2. DOMAIN calls = {}
    OBVIOUS
  <2>3. PICK k \in DOMAIN program.chain : program.chain[k].p = p /\ program.chain[k].field = field
    BY <2>1, <2>2
  <2>4. program.chain[k].q \in Chained(p, field)
    BY <2>3 DEF Chained
  <2> QED BY <2>3, <2>4, StandsChain
<1> QED BY <1>1, <1>2

LEMMA FirstOf ==
  ASSUME NEW node, Stands(node), Shape, calls = <<>>, NEW n, IsFirst(n)
  PROVE  0 \in Plugins /\ node[0] = n
<1>1. program.decl # <<>> /\ node[0] = n
  BY DEF Stands
<1>2. Len(program.decl) \in Nat /\ Len(program.decl) # 0
  BY <1>1 DEF Shape
<1> QED BY <1>1, <1>2 DEF Plugins

LEMMA CodedGenerated ==
  ASSUME Texted, Coded
  PROVE  Generated
<1> SUFFICES ASSUME coding, calls = <<>>
             PROVE  Generated
  BY DEF Generated
<1> DEFINE plugins == {program.decl[k].p : k \in DOMAIN program.decl}
<1>1. Shape /\ typed = text
  BY DEF Coded, Texted
<1>2. PICK node \in [Plugins -> ConfNode] : Stands(node)
  BY DEF Coded
<1>3. plugins = Plugins
  BY WrittenRight DEF Plugins
<1>4. ASSUME NEW p \in Plugins
      PROVE  /\ Decl(p) = {[p |-> p, kind |-> kind[node[p]], conf |-> Conf(typed[node[p]])]}
             /\ \A c \in {<<"apply", "Child1">>, <<"failed", "Child2">>} :
                  {node[q] : q \in Chained(p, c[1])} = {ChildOf(node[p], c[2])} \ {NULL}
  <2>1. Decl(p) = {[p |-> p, kind |-> kind[node[p]], conf |-> Conf(typed[node[p]])]}
    BY <1>1, <1>2, DeclOf
  <2>2. {node[q] : q \in Chained(p, "apply")} = {ChildOf(node[p], "Child1")} \ {NULL}
    BY <1>2, ChainedOf DEF Name
  <2>3. {node[q] : q \in Chained(p, "failed")} = {ChildOf(node[p], "Child2")} \ {NULL}
    BY <1>2, ChainedOf DEF Name
  <2>4. ASSUME NEW c \in {<<"apply", "Child1">>, <<"failed", "Child2">>}
        PROVE  {node[q] : q \in Chained(p, c[1])} = {ChildOf(node[p], c[2])} \ {NULL}
    <3>1. (c[1] = "apply" /\ c[2] = "Child1") \/ (c[1] = "failed" /\ c[2] = "Child2")
      OBVIOUS
    <3> QED BY <2>2, <2>3, <3>1
  <2> QED BY <2>1, <2>4
<1>5. ASSUME NEW i \in DOMAIN LogpoolOrder, ChildOf(Logpool, LogpoolOrder[i]) # NULL,
             \A j \in 1 .. i - 1 : ChildOf(Logpool, LogpoolOrder[j]) = NULL
      PROVE  0 \in Plugins /\ node[0] = ChildOf(Logpool, LogpoolOrder[i])
  <2>1. IsFirst(ChildOf(Logpool, LogpoolOrder[i]))
    BY <1>5 DEF IsFirst
  <2> QED BY <1>1, <1>2, <2>1, FirstOf
<1>6. node \in [plugins -> ConfNode] /\ \A p \in plugins : p \in Plugins
  BY <1>3
<1>7. \E m \in [plugins -> ConfNode] :
        /\ \A p \in plugins :
             /\ Decl(p) = {[p |-> p, kind |-> kind[m[p]], conf |-> Conf(typed[m[p]])]}
             /\ \A c \in {<<"apply", "Child1">>, <<"failed", "Child2">>} :
                  {m[q] : q \in Chained(p, c[1])} = {ChildOf(m[p], c[2])} \ {NULL}
        /\ \A i \in DOMAIN LogpoolOrder :
             ChildOf(Logpool, LogpoolOrder[i]) # NULL
               /\ (\A j \in 1 .. i - 1 : ChildOf(Logpool, LogpoolOrder[j]) = NULL) =>
                 0 \in plugins /\ m[0] = ChildOf(Logpool, LogpoolOrder[i])
  <2> HIDE DEF plugins
  <2>1. \A p \in plugins :
          /\ Decl(p) = {[p |-> p, kind |-> kind[node[p]], conf |-> Conf(typed[node[p]])]}
          /\ \A c \in {<<"apply", "Child1">>, <<"failed", "Child2">>} :
               {node[q] : q \in Chained(p, c[1])} = {ChildOf(node[p], c[2])} \ {NULL}
    BY <1>4, <1>6
  <2> QED BY <1>3, <1>5, <1>6, <2>1
<1> QED BY <1>7, WrittenRight DEF Generated

(* codegen and nodeToCode, whatever was connected and typed before: what is  *)
(* written is what is drawn, from the first connected point of Logpool down. *)
THEOREM GeneratedRight == Spec => []Generated
<1>1. IInv => Generated
  BY CodedGenerated DEF IInv
<1> QED BY <1>1, IInvHolds, PTL
=============================================================================
