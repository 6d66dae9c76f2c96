------------------------------- MODULE Viewer -------------------------------
(***************************************************************************)
(* logpool-viewer: a window in which a pool procedure is drawn.  A node    *)
(* has points; two points of two nodes are connected by clicking one after *)
(* the other.  A node has texts, which are edited in one editor beside the *)
(* scene.  codegen writes a C module of what hangs from the points of the  *)
(* Logpool node.                                                           *)
(*                                                                         *)
(* What Qt does is taken from how the code uses it: an item whose          *)
(* sceneEvent is not overridden (the title of a node) selects its group as *)
(* Qt does, a click on nothing clears the selection, the editor emits      *)
(* textChanged when its text is set.                                       *)
(***************************************************************************)
EXTENDS Integers, Sequences, FiniteSets

CONSTANTS ConfNode,  \* the nodes that may be added
          Logpool,   \* the node that is always there
          Kinds,     \* the entries of node_select_box that are used
          Outputs,   \* the points of the Logpool node that are used
          Texts,     \* what is typed: the parts of it between colons
          Places,    \* positions of nodes
          Origin,    \* where they are put first
          NULL,
          MaxActs    \* bound: connections, moves, texts and other clicks

\* A text is the sequence of its parts between colons.  A label is first its
\* name and a colon, and is shown; a script is kept in the `data` of its item.
Label   == <<"label", "">>
Script  == <<"script">>
Scripts == {"fcmp", "finit", "function", "fexit"}

\* The texts of a node, by the title of its kind, and what they are first.
FilterTexts ==
    [Copy      |-> <<>>,
     KeyFilter |-> [key |-> Label],
     ValFilter |-> [key |-> Label, val |-> Label, fcmp |-> Script],
     React     |-> [traceID |-> Label, key |-> Label]]

OutputTexts ==
    [TimeWindow |-> [timer |-> Label],
     Static     |-> [timer |-> Label, finit |-> Script,
                     function |-> Script, fexit |-> Script],
     Response   |-> [server |-> Label]]

NodeTexts ==
    [k \in DOMAIN FilterTexts \cup DOMAIN OutputTexts |->
       IF k \in DOMAIN FilterTexts THEN FilterTexts[k] ELSE OutputTexts[k]]

\* ClassInfo::Name of the points of a plugin's node, and of Logpool's.  The
\* sixth of Logpool is an index behind the end of connected_nodes: what
\* connecting it does is undefined, and left out.
ConfPoints   == {"Parent", "Child1", "Child2"}
LogpoolOrder == <<"Child1", "Child2", "Child3", "Child4", "Child5">>

ASSUME NodesAssumption   == Logpool \notin ConfNode /\ NULL \notin ConfNode \cup {Logpool}
ASSUME KindsAssumption   == Kinds \subseteq DOMAIN NodeTexts
ASSUME TextsAssumption   == <<>> \notin Texts
ASSUME OriginAssumption  == Origin \in Places
ASSUME OutputsAssumption == Outputs \subseteq {LogpoolOrder[i] : i \in DOMAIN LogpoolOrder}

Node   == ConfNode \cup {Logpool}
Points == {<<n, name>> : n \in ConfNode, name \in ConfPoints}
            \cup {<<Logpool, name>> : name \in Outputs}

ASSUME PointsAssumption == NULL \notin Points

VARIABLES kind,      \* the title of each node, NULL: not added yet
          pos,       \* where each node is
          selection, \* the nodes that are selected in the scene
          point,     \* selected_point of each node
          grab,      \* the point the mouse button is held on
          conn,      \* connected_nodes, by point
          mate,      \* connected, by point
          line,      \* the line of each point
          lines,     \* the lines in the scene: their two ends, [point, at]
          text,      \* the texts of each node
          editor,    \* [sync, shown]
          coding,    \* codegen was called
          program,   \* what codegen has written so far
          calls,     \* the calls it has left to make, the next one first
          crashed,   \* the viewer has crashed
          typed,     \* history: what was typed into each text
          titles,    \* history: the nodes that are selected by their title
          acts       \* history: how much was done, for MaxActs

scene == <<kind, pos, conn, mate, line, lines>>
click == <<selection, point, grab>>
edit  == <<text, editor, typed>>
code  == <<coding, program, calls>>
vars  == <<scene, click, edit, code, crashed, titles, acts>>

\* OAbstractNode, OConfNode, OLogpoolNode, OGraphicsScene and Viewer
Init == /\ kind = [n \in ConfNode |-> NULL]
        /\ pos = [n \in Node |-> Origin]
        /\ selection = {}
        /\ point = [n \in Node |-> NULL]
        /\ grab = NULL
        /\ conn = [el \in Points |-> NULL]
        /\ mate = [el \in Points |-> NULL]
        /\ line = [el \in Points |-> NULL]
        /\ lines = <<>>
        /\ text = [n \in ConfNode |-> <<>>]
        /\ editor = [sync |-> NULL, shown |-> <<"">>]
        /\ coding = FALSE
        /\ program = [decl |-> <<>>, chain |-> <<>>, idx |-> -1]
        /\ calls = <<>>
        /\ crashed = FALSE
        /\ typed = [n \in ConfNode |-> <<>>]
        /\ titles = {}
        /\ acts = 0

\* A session is looked at until it crashes or generates: codegen changes
\* nothing but its file.  While the button is held there is no other event.
Running == ~crashed /\ ~coding
Free    == Running /\ grab = NULL

Act == acts < MaxActs /\ acts' = acts + 1

Added == {n \in ConfNode : kind[n] # NULL}
Shown == {Logpool} \cup Added

AddNode == /\ Free
           /\ \E n \in ConfNode, k \in Kinds :
                /\ kind[n] = NULL
                /\ kind' = [kind EXCEPT ![n] = k]
                /\ text' = [text EXCEPT ![n] = NodeTexts[k]]
                /\ typed' = [typed EXCEPT ![n] = NodeTexts[k]]
           /\ UNCHANGED <<pos, conn, mate, line, lines, click, editor, code,
                          crashed, titles, acts>>

-----------------------------------------------------------------------------
\* Points.

Joined(el) == el[1]

\* OGraphicsEllipseItem::mousePressEvent
PointPress ==
    /\ Free
    /\ acts < MaxActs
    /\ \E el \in Points :
         /\ Joined(el) \in Shown
         /\ grab' = el
         /\ IF point[Joined(el)] = el
            THEN UNCHANGED <<selection, point, titles>>
            ELSE /\ selection' = selection \cup {Joined(el)}
                 /\ point' = [point EXCEPT ![Joined(el)] = el]
                 /\ titles' = titles \ {Joined(el)}
    /\ UNCHANGED <<scene, edit, code, crashed, acts>>

End(el, at) == [point |-> el, at |-> at]

\* OAbstractNode::connect
Linked(el1, el2) == [conn EXCEPT ![el1] = Joined(el2), ![el2] = Joined(el1)]

\* Mutation: the selection is not cleared.
SelectionKept == selection

\* s->clearSelection()
SelectionAfter == {}

\* OGraphicsEllipseItem::mouseReleaseEvent.  A selected node that has no
\* selected point is a null pointer to connect.
PointRelease ==
    /\ Running
    /\ grab # NULL
    /\ grab' = NULL
    /\ IF Cardinality(selection) # 2
       THEN UNCHANGED <<scene, selection, point, crashed, titles, acts>>
       ELSE IF \E n \in selection : point[n] = NULL
       THEN crashed' = TRUE /\ UNCHANGED <<scene, selection, point, titles, acts>>
       ELSE \E n1, n2 \in selection :
         LET el1 == point[n1]
             el2 == point[n2]
         IN  /\ n1 # n2
             /\ Act
             /\ conn' = Linked(el1, el2)
             /\ mate' = [mate EXCEPT ![el1] = el2, ![el2] = el1]
             /\ lines' = Append(lines, {End(el1, pos[n1]), End(el2, pos[n2])})
             /\ line' = [line EXCEPT ![el1] = Len(lines) + 1, ![el2] = Len(lines) + 1]
             /\ point' = [point EXCEPT ![n1] = NULL, ![n2] = NULL]
             /\ selection' = SelectionAfter
             /\ titles' = {}
             /\ UNCHANGED <<kind, pos, crashed>>
    /\ UNCHANGED <<edit, code>>

\* A click on the title selects the node, and nothing else; with the control
\* key the node is selected or no longer, beside the others that are.  It
\* selects no point.
TitleClick ==
    /\ Free
    /\ Act
    /\ \E n \in Shown :
         \/ selection' = {n} /\ titles' = {n}
         \/ n \notin selection /\ selection' = selection \cup {n} /\ titles' = titles \cup {n}
         \/ n \in selection /\ selection' = selection \ {n} /\ titles' = titles \ {n}
    /\ UNCHANGED <<scene, point, grab, edit, code, crashed>>

\* A click on nothing: the points stay selected.
BackgroundClick ==
    /\ Free
    /\ Act
    /\ selection # {}
    /\ selection' = {}
    /\ titles' = {}
    /\ UNCHANGED <<scene, point, grab, edit, code, crashed>>

-----------------------------------------------------------------------------
\* Moves.

\* Mutation: the line is drawn before the node is moved.
RedrawnFirst(el, at) == {End(el, pos[Joined(el)]), End(mate[el], pos[Joined(mate[el])])}

\* What moveLine draws for one point.
Redrawn(el, at) == {End(el, at[Joined(el)]), End(mate[el], at[Joined(mate[el])])}

\* OConfNode::moveLine: the lines of all its points, when it is at at[n].
MovedLines(n, at) ==
    [k \in DOMAIN lines |->
       LET els == {el \in Points : Joined(el) = n /\ conn[el] # NULL /\ line[el] = k}
       IN  IF els = {} THEN lines[k] ELSE Redrawn(CHOOSE el \in els : TRUE, at)]

\* OGraphicsRectItem::mouseMoveEvent; the Logpool node draws no line anew.
MoveNode ==
    /\ Free
    /\ Act
    /\ \E n \in Shown, to \in Places :
         /\ to # pos[n]
         /\ pos' = [pos EXCEPT ![n] = to]
         /\ lines' = IF n = Logpool THEN lines ELSE MovedLines(n, pos')
    /\ UNCHANGED <<kind, conn, mate, line, click, edit, code, crashed, titles>>

-----------------------------------------------------------------------------
\* Texts.  Setting the text of the editor runs textSync.

\* The texts when the editor, synchronized with f of n, shows t.
Synced(sync, t) ==
    IF sync = NULL THEN text ELSE [text EXCEPT ![sync[1]][sync[2]] = t]

\* Mutation: the text is shown before the editor is set to its item.
SyncedOld(n, f) == Synced(editor.sync, text[n][f])

\* OGraphicsTextItem::mousePressEvent: sync is set before the text is.
SyncedNew(n, f) == Synced(<<n, f>>, text[n][f])

TextPress ==
    /\ Free
    /\ Act
    /\ \E n \in Added :
         \E f \in DOMAIN text[n] :
           /\ text' = SyncedNew(n, f)
           /\ editor' = [sync |-> <<n, f>>, shown |-> text[n][f]]
    /\ UNCHANGED <<scene, click, typed, code, crashed, titles>>

\* OTextEdit::textSync
Type ==
    /\ Free
    /\ Act
    /\ \E t \in Texts :
         /\ editor' = [editor EXCEPT !.shown = t]
         /\ text' = Synced(editor.sync, t)
         /\ typed' = IF editor.sync = NULL THEN typed
                     ELSE [typed EXCEPT ![editor.sync[1]][editor.sync[2]] = t]
    /\ UNCHANGED <<scene, click, code, crashed, titles>>

-----------------------------------------------------------------------------
\* codegen.

\* iterator::toChild1, toChild2: of a node that is a plugin's.
ChildOf(n, name) ==
    IF <<n, name>> \in Points /\ conn[<<n, name>>] \in ConfNode THEN conn[<<n, name>>] ELSE NULL

\* RM_LABEL takes away all of a text that is up to its last colon.
WithoutLabel(t) == <<t[Len(t)]>>

\* makeConf
Conf(texts) ==
    [f \in DOMAIN texts |-> IF f \in Scripts THEN texts[f] ELSE WithoutLabel(texts[f])]

\* A call of nodeToCode: its plugin is to be the field of p<of>, or hangs from
\* Logpool.
Call(n, field, of) == [node |-> n, field |-> field, of |-> of]

\* What is called for what hangs from n at a point, n's plugin being p<base>.
Hanging(n, name, field, base) ==
    IF ChildOf(n, name) = NULL THEN <<>> ELSE <<Call(ChildOf(n, name), field, base)>>

CallsBelow(n, base) == Hanging(n, "Child1", "apply", base)
                         \o Hanging(n, "Child2", "failed", base)

\* The loop of OGraphicsScene::codegen
CallsAtRoot == Hanging(Logpool, "Child1", "root", 0) \o Hanging(Logpool, "Child2", "root", 0)
                 \o Hanging(Logpool, "Child3", "root", 0) \o Hanging(Logpool, "Child4", "root", 0)
                 \o Hanging(Logpool, "Child5", "root", 0)

\* Mutation: the chain names the plugin numbered last, not the one it is of.
OwnLast(call, idx) == idx

Own(call, idx) == call.of

\* OGraphicsScene::nodeToCode, up to its calls of itself, which are the next to
\* be made.  Plugins are numbered as they are met; *index is that of the one met
\* last, and -1 before the first.
NodeToCode ==
    /\ ~crashed
    /\ calls # <<>>
    /\ LET call == Head(calls)
           base == program.idx + 1
           n    == call.node
       IN  /\ program' =
                [decl  |-> Append(program.decl, [p |-> base, kind |-> kind[n],
                                                 conf |-> Conf(text[n])]),
                 chain |-> IF call.field = "root" THEN program.chain
                           ELSE Append(program.chain, [p |-> Own(call, program.idx),
                                                       field |-> call.field, q |-> base]),
                 idx   |-> base]
           /\ calls' = CallsBelow(n, base) \o Tail(calls)
    /\ UNCHANGED <<scene, click, edit, coding, crashed, titles, acts>>

Children(n) == {ChildOf(n, "Child1"), ChildOf(n, "Child2")} \ {NULL}

\* What a recursion gets to that begins with the nodes in `from`.
Closed(S)  == \A n \in S : Children(n) \subseteq S
Met(from) == {n \in ConfNode :
                \A S \in SUBSET ConfNode : from \subseteq S /\ Closed(S) => n \in S}

\* codegen meets a node below which it meets it again.
Cyclic == \E n \in Met({ChildOf(Logpool, name) : name \in Outputs} \ {NULL}) :
            n \in Met(Children(n))

\* OGraphicsScene::codegen, up to its calls.  In a circle nodeToCode calls itself
\* without end.
Codegen ==
    /\ Free
    /\ IF Cyclic THEN crashed' = TRUE /\ UNCHANGED code
       ELSE /\ UNCHANGED program
            /\ coding' = TRUE
            /\ calls' = CallsAtRoot
            /\ UNCHANGED crashed
    /\ UNCHANGED <<scene, click, edit, titles, acts>>

Next == \/ AddNode \/ PointPress \/ PointRelease \/ TitleClick \/ BackgroundClick
        \/ MoveNode \/ TextPress \/ Type \/ Codegen \/ NodeToCode

Spec == Init /\ [][Next]_vars

-----------------------------------------------------------------------------
\* Properties.

(* The viewer crashes on nothing but a node that is selected by its title    *)
(* and has no selected point, and a circle that is to be generated: a node   *)
(* that is selected in any other way, though its title was clicked on        *)
(* before, has a selected point when connect takes it.                       *)
CrashOnly ==
    crashed => Cyclic \/ \E n \in titles : n \in selection /\ point[n] = NULL

Mutual == {el \in Points : mate[el] # NULL /\ mate[mate[el]] = el}

(* Every connection that is still one has its line, from point to point, and *)
(* its ends at plugins' nodes are where these nodes are, whichever of them   *)
(* was moved and however often its points were connected before.             *)
LinesFollow ==
    \A el \in Mutual :
      LET ends == lines[line[el]]
      IN  /\ {e.point : e \in ends} = {el, mate[el]}
          /\ \A e \in ends : Joined(e.point) # Logpool => e.at = pos[Joined(e.point)]

(* A text changes by what is typed into it, and by nothing else.             *)
TextsOwn == text = typed

\* What the program says of p<i>.
Decl(i)   == {d \in {program.decl[k] : k \in DOMAIN program.decl} : d.p = i}
Chained(i, field) == {c.q : c \in {c \in {program.chain[k] : k \in DOMAIN program.chain} :
                                   c.p = i /\ c.field = field}}

(* In the generated program a plugin stands for a node, with its kind and    *)
(* what was typed into it, of a label what is behind the last colon, and     *)
(* what it has as apply and failed stands for the nodes at its points Child1 *)
(* and Child2; p0, which the procedure returns, stands for the node at the   *)
(* first connected point of Logpool.  No plugin hangs from two, as one node  *)
(* may.                                                                      *)
Generated ==
    coding /\ calls = <<>> =>
      LET plugins == {program.decl[k].p : k \in DOMAIN program.decl}
      IN  /\ plugins = 0 .. Len(program.decl) - 1
          /\ \A k \in DOMAIN program.chain :
               program.chain[k].p \in plugins /\ program.chain[k].q \in plugins
          /\ \A k, l \in DOMAIN program.chain :
               LET c == program.chain[k]
                   d == program.chain[l]
               IN  c.q = d.q \/ (c.p = d.p /\ c.field = d.field) => k = l
          /\ \E node \in [plugins -> ConfNode] :
               /\ \A p \in plugins :
                    /\ Decl(p) = {[p |-> p, kind |-> kind[node[p]], conf |-> Conf(typed[node[p]])]}
                    /\ \A c \in {<<"apply", "Child1">>, <<"failed", "Child2">>} :
                         {node[q] : q \in Chained(p, c[1])} = {ChildOf(node[p], c[2])} \ {NULL}
               /\ \A i \in DOMAIN LogpoolOrder :
                    LET At(j) == ChildOf(Logpool, LogpoolOrder[j])
                    IN  At(i) # NULL /\ (\A j \in 1 .. i - 1 : At(j) = NULL) =>
                          0 \in plugins /\ node[0] = At(i)
=============================================================================
