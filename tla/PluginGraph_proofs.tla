-------------------------- MODULE PluginGraph_proofs --------------------------
(***************************************************************************)
(* Theorems about PluginGraph, for any plugins and any procedures.         *)
(***************************************************************************)
EXTENDS PluginGraph, SequenceTheorems, TLAPS

Functions == {"init", "created", "apply", "failed", "dispose", "free"}
Links     == Plugins \cup {NULL, Nop}
Frame     == [f : Functions, p : Links, e : SUBSET Features, s : Nat]
Struct    == [kind : Kinds \cup {"none"}, inited : BOOLEAN, apply : Links, failed : Links,
              flag : Flag, mem : {"unused", "live", "freed"}]

TypeOK == /\ script \in [api : {"c", "konoha"}, ops : Seq(Operation)]
          /\ plugin \in [Plugins -> Struct]
          /\ root \in Plugins \cup {NULL}
          /\ stack \in Seq(Frame)
          /\ window \in [Plugins -> Seq(SUBSET Features)]
          /\ context \in [Plugins -> {"none", "open", "closed"}]
          /\ bev \in [Plugins -> {"live", "freed", "quit", "joined"}]
          /\ phase \in {"build", "run", "dispose", "crashed"}
          /\ count \in Nat
          /\ made \in [Plugins -> Nat]
          /\ misused \subseteq Plugins
          /\ stale \in BOOLEAN

\* A call of f of p is still to be made.
Pending(f, p) == \E i \in DOMAIN stack : stack[i].f = f /\ stack[i].p = p

\* A plugin has a kind when it is cloned, and nothing is created before the
\* procedure returns.
Linked ==
  /\ \A p \in Plugins : plugin[p].kind = "none" => plugin[p].mem = "unused"
  /\ \A p \in Plugins : plugin[p].mem = "unused" => plugin[p].kind = "none"
  /\ phase = "build" => /\ root = NULL /\ stack = <<>> /\ misused = {}
                        /\ \A p \in Plugins : /\ made[p] = 0 /\ ~plugin[p].inited
                                              /\ context[p] = "none"
  /\ phase # "build" => root \in Plugins

\* The calls of an initialisation, of a log and of a disposal are never mixed,
\* and are of plugins that hang from the root.
Creates  == \A i \in DOMAIN stack : stack[i].f \in {"init", "created"}
Handles  == \A i \in DOMAIN stack : stack[i].f \in {"apply", "failed"}
Disposes == \A i \in DOMAIN stack : stack[i].f \in {"dispose", "free"}

Grouped ==
  /\ \A i \in DOMAIN stack : stack[i].p \in Plugins => stack[i].p \in Reachable
  /\ phase = "run" => \/ Handles
                      \/ Creates /\ misused = {} /\ \A p \in Plugins : context[p] = "none"
  /\ phase = "dispose" => Disposes
  /\ phase = "crashed" => stack = <<>>
  /\ phase \in {"build", "run"} => ~stale /\ \A p \in Plugins : plugin[p].mem # "freed"

\* What hangs from p, without p.
Below(p) == {q \in Plugins :
               \A S \in SUBSET Plugins :
                 (\A c \in Plugins : Child(p, c) => c \in S) /\ Closed(S) => q \in S}

\* Children are created before the plugin that they hang from: of any plugins
\* that are created, one was the first.
Ordered ==
  \A S \in SUBSET Plugins :
    S # {} /\ (\A p \in S : plugin[p].inited) => \E p \in S : \A q \in S : ~Child(p, q)

\* A Create waits for children that are called before it, or are created, and
\* none waits twice.
Waiting ==
  /\ \A p, q \in Plugins : \A j \in DOMAIN stack :
       stack[j].f = "created" /\ stack[j].p = p /\ Child(p, q) =>
         plugin[q].inited \/ \E i \in DOMAIN stack : i < j /\ stack[i].p = q
  /\ \A i, j \in DOMAIN stack :
       stack[i].f = "created" /\ stack[j].f = "created" /\ stack[i].p = stack[j].p => i = j

\* A plugin that pool_plugin_init has met is created, with its children, or its
\* Create waits for them.
Creating ==
  /\ \A p \in Plugins : /\ made[p] <= 1
                        /\ plugin[p].inited \/ Pending("created", p) => made[p] = 1
                        /\ ~(plugin[p].inited /\ Pending("created", p))
                        /\ phase = "run" /\ made[p] = 1 =>
                             plugin[p].inited \/ Pending("created", p)
  /\ \A p, q \in Plugins : plugin[p].inited /\ Child(p, q) => plugin[q].inited
  /\ phase = "run" => \/ plugin[root].inited
                      \/ Pending("init", root) \/ Pending("created", root)
  /\ phase = "dispose" => plugin[root].inited
  /\ Ordered
  /\ Waiting

\* L are the plugins through which a Timer calls the Statics p.
Leads(L, p) ==
  /\ p \in L /\ L \subseteq Reachable /\ root \notin L
  /\ \A r \in L : r # p => plugin[r].kind \in {"print", "response"} /\ plugin[r].apply \in L
  /\ \A q \in L : Keeps(q, L, Reachable)

\* A call c on the way to the Statics, that begins or goes on with a window,
\* or goes on or ends it.
Leading(L, c) == c.f = "apply" /\ c.p \in L
GoesOn(L, c)  == Leading(L, c) /\ c.s \in {0, 1}
Follows(L, c) == Leading(L, c) /\ c.s \in {1, 2}

\* The same of the call in place i of the stack.
FollowsAt(L, i) == i \in DOMAIN stack /\ Follows(L, stack[i])

\* Calls that lead to a Statics come in unbroken windows, and its context is
\* open while one of them has begun.
Windowed(L, p) ==
  /\ p \notin misused
  /\ context[p] = "open" <=> FollowsAt(L, 1)
  /\ \A i \in DOMAIN stack : Leading(L, stack[i]) => stack[i].s \in {0, 1, 2}
  /\ \A i \in DOMAIN stack : GoesOn(L, stack[i]) <=> FollowsAt(L, i + 1)

Bracketing ==
  script.api = "c" /\ phase # "build" =>
    \A p \in Plugins, L \in SUBSET Plugins :
      plugin[p].kind = "statics" /\ Leads(L, p) =>
        p \notin misused /\ (phase # "crashed" => Windowed(L, p))

\* Disposal has met what is freed or waits for its children.
Met(p) == plugin[p].mem = "freed" \/ Pending("free", p)

Disposing ==
  /\ stale => Shared
  /\ phase = "dispose" =>
       /\ \A p \in Plugins : Met(p) => p \in Reachable
       /\ Met(root) \/ Pending("dispose", root)
       /\ \A p, q \in Plugins : Met(p) /\ Child(p, q) => Met(q) \/ Pending("dispose", q)
       /\ ~Shared =>
            /\ \A i, j \in DOMAIN stack :
                 stack[i].f = "dispose" /\ stack[j].f = "dispose"
                   /\ stack[i].p \in Plugins /\ stack[i].p = stack[j].p => i = j
            /\ \A p \in Plugins : Pending("dispose", p) => ~Met(p)
            /\ \A p \in Plugins : Met(p) \/ Pending("dispose", p) =>
                 p = root \/ \E y \in Reachable : Child(y, p) /\ Met(y)

IInv == TypeOK /\ Linked /\ Grouped /\ Creating /\ Bracketing /\ Disposing

-----------------------------------------------------------------------------
(* The calls *)

\* How the stack changes: its first call is replaced by the calls cs.
Pushes(cs) ==
  /\ stack # <<>> /\ stack \in Seq(Frame)
  /\ cs \in Seq(Frame)
  /\ stack' \in Seq(Frame)
  /\ Len(stack') = Len(cs) + Len(stack) - 1
  /\ \A i \in 1 .. Len(cs) : stack'[i] = cs[i]
  /\ \A i \in Len(cs) + 1 .. Len(stack') :
       i - Len(cs) + 1 \in 2 .. Len(stack) /\ stack'[i] = stack[i - Len(cs) + 1]

LEMMA MakesPushes ==
  ASSUME TypeOK, stack # <<>>, NEW cs \in Seq(Frame), Makes(cs)
  PROVE  Pushes(cs)
<1>1. PICK st \in Seq(Frame) : st = stack
  BY DEF TypeOK
<1>2. PICK tl : tl = Tail(st)
  OBVIOUS
<1>3. /\ tl \in Seq(Frame) /\ Len(tl) = Len(st) - 1 /\ Len(st) \in Nat \ {0}
      /\ \A i \in 1 .. Len(tl) : tl[i] = st[i + 1]
  BY <1>1, <1>2
<1>4. PICK s : s = stack'
  OBVIOUS
<1>5. s = cs \o tl
  BY <1>1, <1>2, <1>4 DEF Makes
<1>6. /\ s \in Seq(Frame) /\ Len(s) = Len(cs) + Len(tl)
      /\ \A i \in 1 .. Len(cs) + Len(tl) :
           s[i] = IF i <= Len(cs) THEN cs[i] ELSE tl[i - Len(cs)]
  <2>1. tl \in Seq(Frame)
    BY <1>3
  <2>2. /\ cs \o tl \in Seq(Frame) /\ Len(cs \o tl) = Len(cs) + Len(tl)
        /\ \A i \in 1 .. Len(cs) + Len(tl) :
             (cs \o tl)[i] = IF i <= Len(cs) THEN cs[i] ELSE tl[i - Len(cs)]
    BY <2>1, ConcatProperties, Zenon
  <2> QED BY <1>5, <2>2, Zenon
<1>7. PICK n \in Nat : n = Len(cs)
  OBVIOUS
<1>8. PICK m \in Nat : m = Len(tl)
  BY <1>3
<1>9. ASSUME NEW i \in n + 1 .. n + m
      PROVE  i - n + 1 \in 2 .. Len(st) /\ s[i] = st[i - n + 1]
  <2>1. i - n \in 1 .. m /\ i - n + 1 \in 2 .. m + 1
    OBVIOUS
  <2>2. Len(st) = m + 1
    BY <1>3, <1>8
  <2>3. s[i] = tl[i - n]
    BY <1>6, <1>7, <1>8
  <2>4. tl[i - n] = st[i - n + 1]
    BY <1>3, <1>8, <2>1
  <2> QED BY <2>1, <2>2, <2>3, <2>4
<1>10. Len(s) = n + Len(st) - 1 /\ Len(s) = n + m
  BY <1>3, <1>6, <1>7, <1>8
<1>11. /\ st # <<>> /\ s \in Seq(Frame)
       /\ \A i \in 1 .. Len(cs) : s[i] = cs[i]
  BY <1>3, <1>6, <1>7, <1>8
<1> QED BY <1>1, <1>4, <1>7, <1>9, <1>10, <1>11 DEF Pushes

-----------------------------------------------------------------------------
(* The graph *)

LEMMA ClosedChild ==
  ASSUME NEW S \in SUBSET Plugins
  PROVE  Closed(S) <=> \A p \in S, q \in Plugins : Child(p, q) => q \in S
BY DEF Closed, Child

LEMMA ReachableLeast ==
  /\ Reachable \subseteq Plugins
  /\ root \in Plugins => root \in Reachable
  /\ \A p \in Reachable, q \in Plugins : Child(p, q) => q \in Reachable
  /\ \A S \in SUBSET Plugins : root \in S /\ Closed(S) => Reachable \subseteq S
<1>1. Reachable \subseteq Plugins
  BY DEF Reachable
<1>2. root \in Plugins => root \in Reachable
  BY DEF Reachable
<1>3. ASSUME NEW p \in Reachable, NEW q \in Plugins, Child(p, q)
      PROVE  q \in Reachable
  <2> SUFFICES ASSUME NEW S \in SUBSET Plugins, {root} \cap Plugins \subseteq S, Closed(S)
               PROVE  q \in S
    BY DEF Reachable
  <2>1. p \in S
    BY DEF Reachable
  <2> QED BY <1>3, <2>1, ClosedChild
<1>4. ASSUME NEW S \in SUBSET Plugins, root \in S, Closed(S) PROVE Reachable \subseteq S
  BY <1>4 DEF Reachable
<1> QED BY <1>1, <1>2, <1>3, <1>4

LEMMA BelowLeast ==
  ASSUME NEW p \in Plugins
  PROVE  /\ Below(p) \subseteq Plugins
         /\ \A q \in Plugins : Child(p, q) => q \in Below(p)
         /\ \A x \in Below(p), q \in Plugins : Child(x, q) => q \in Below(p)
<1>1. \A q \in Plugins : Child(p, q) => q \in Below(p)
  BY DEF Below
<1>2. ASSUME NEW x \in Below(p), NEW q \in Plugins, Child(x, q)
      PROVE  q \in Below(p)
  <2> SUFFICES ASSUME NEW S \in SUBSET Plugins, Closed(S),
                      \A c \in Plugins : Child(p, c) => c \in S
               PROVE  q \in S
    BY DEF Below
  <2>1. x \in S
    BY DEF Below
  <2> QED BY <1>2, <2>1, ClosedChild
<1> QED BY <1>1, <1>2 DEF Below

\* What hangs below x hangs below a child of x, or is one.
LEMMA BelowChild ==
  ASSUME NEW x \in Plugins, NEW p \in Below(x)
  PROVE  \E c \in Plugins : Child(x, c) /\ (p = c \/ p \in Below(c))
<1> DEFINE S == {y \in Plugins : \E c \in Plugins : Child(x, c) /\ (y = c \/ y \in Below(c))}
<1>1. \A c \in Plugins : Child(x, c) => c \in S
  OBVIOUS
<1>2. Closed(S)
  <2>1. ASSUME NEW y \in S, NEW q \in Plugins, Child(y, q) PROVE q \in S
    <3>1. PICK c \in Plugins : Child(x, c) /\ (y = c \/ y \in Below(c))
      OBVIOUS
    <3>2. q \in Below(c)
      BY <2>1, <3>1, BelowLeast
    <3> QED BY <3>1, <3>2
  <2>2. S \in SUBSET Plugins
    OBVIOUS
  <2> HIDE DEF S
  <2> QED BY <2>1, <2>2, ClosedChild
<1>3. p \in S
  <2>1. S \in SUBSET Plugins
    OBVIOUS
  <2> HIDE DEF S
  <2> QED BY <1>1, <1>2, <2>1 DEF Below
<1> QED BY <1>3

\* All that hangs from a root that is created is created.
LEMMA AllCreated ==
  ASSUME Creating, root \in Plugins, plugin[root].inited
  PROVE  \A p \in Reachable : plugin[p].inited
<1> DEFINE S == {q \in Plugins : plugin[q].inited}
<1>1. \A x \in S, q \in Plugins : Child(x, q) => q \in S
  BY DEF Creating
<1>2. S \in SUBSET Plugins /\ root \in S
  OBVIOUS
<1>3. Reachable \subseteq S
  <2> HIDE DEF S
  <2> QED BY <1>1, <1>2, ClosedChild, ReachableLeast
<1> QED BY <1>3

\* No plugin that is created hangs below itself.
LEMMA NotBelow ==
  ASSUME Ordered, \A x \in Reachable : plugin[x].inited, NEW p \in Reachable
  PROVE  p \notin Below(p)
<1> SUFFICES ASSUME p \in Below(p) PROVE FALSE
  OBVIOUS
<1> DEFINE S == {x \in Plugins : x \in Below(p) /\ p \in Below(x)}
<1>1. p \in Plugins /\ Below(p) \subseteq Reachable
  <2>1. p \in Plugins /\ Reachable \in SUBSET Plugins
    BY ReachableLeast
  <2>2. \A c \in Plugins : Child(p, c) => c \in Reachable
    BY ReachableLeast
  <2>3. Closed(Reachable)
    BY <2>1, ClosedChild, ReachableLeast
  <2> QED BY <2>1, <2>2, <2>3 DEF Below
<1>2. S \in SUBSET Plugins /\ p \in S /\ \A x \in S : plugin[x].inited
  BY <1>1
<1>3. PICK x \in S : \A q \in S : ~Child(x, q)
  <2> HIDE DEF S
  <2> QED BY <1>2 DEF Ordered
<1>4. PICK c \in Plugins : Child(x, c) /\ (p = c \/ p \in Below(c))
  BY BelowChild
<1>5. c \in Below(p)
  BY <1>1, <1>4, BelowLeast
<1>6. c \in S
  BY <1>4, <1>5
<1> QED BY <1>3, <1>4, <1>6

\* A step that leaves the links, the kinds and the flags alone.
SameLinks ==
  /\ root' = root
  /\ \A p \in Plugins : \A q \in Plugins : Child(p, q)' <=> Child(p, q)

SamePlugins ==
  /\ SameLinks
  /\ \A p \in Plugins :
       /\ plugin'[p].kind = plugin[p].kind
       /\ plugin'[p].flag = plugin[p].flag
       /\ \A q \in Plugins : /\ plugin'[p].apply = q <=> plugin[p].apply = q
                             /\ plugin'[p].failed = q <=> plugin[p].failed = q

LEMMA SameReachable ==
  ASSUME SameLinks
  PROVE  Reachable' = Reachable
<1>1. ASSUME NEW S \in SUBSET Plugins PROVE Closed(S)' <=> Closed(S)
  <2>1. Closed(S) <=> \A p \in S, q \in Plugins : Child(p, q) => q \in S
    BY ClosedChild
  <2>2. Closed(S)' <=> \A p \in S, q \in Plugins : Child(p, q)' => q \in S
    BY DEF Closed, Child
  <2> QED BY <2>1, <2>2 DEF SameLinks
<1> QED BY <1>1 DEF Reachable, SameLinks

LEMMA SameLeads ==
  ASSUME SamePlugins, NEW p \in Plugins, NEW L \in SUBSET Plugins, Leads(L, p)'
  PROVE  Leads(L, p)
<1>1. Reachable' = Reachable /\ Reachable \subseteq Plugins
  BY SameReachable, ReachableLeast DEF SamePlugins
<1>2. p \in L /\ L \subseteq Reachable /\ root \notin L
  BY <1>1 DEF Leads, SamePlugins, SameLinks
<1>3. ASSUME NEW r \in L, r # p
      PROVE  plugin[r].kind \in {"print", "response"} /\ plugin[r].apply \in L
  <2>1. plugin'[r].kind \in {"print", "response"} /\ plugin'[r].apply \in L
    BY <1>3 DEF Leads
  <2> QED BY <2>1 DEF SamePlugins
<1>4. ASSUME NEW q \in L, NEW r \in Reachable
      PROVE  /\ plugin[r].kind \in {"statics", "response"} => plugin[r].failed # q
             /\ plugin[r].apply = q =>
                  \/ plugin[r].kind = "timer" /\ plugin[r].flag = <<0, 1, 2>>
                  \/ plugin[r].kind \in {"print", "response"} /\ r \in L
  <2>1. /\ plugin'[r].kind \in {"statics", "response"} => plugin'[r].failed # q
        /\ plugin'[r].apply = q =>
             \/ plugin'[r].kind = "timer" /\ plugin'[r].flag = <<0, 1, 2>>
             \/ plugin'[r].kind \in {"print", "response"} /\ r \in L
    BY <1>1 DEF Leads, Keeps
  <2> QED BY <1>1, <2>1 DEF SamePlugins
<1> QED BY <1>2, <1>3, <1>4 DEF Leads, Keeps

-----------------------------------------------------------------------------
(* A log is handed on *)

HandsOn == \/ CopyApply \/ PrintApply \/ KeyApply \/ ValApply \/ ReactApply
           \/ TimerApply \/ TimerFailed
           \/ StaticsStart \/ StaticsLog \/ StaticsFinish \/ StaticsError
           \/ CreateApply \/ ResponseApply \/ ResponseFailed
           \/ CloseApply \/ StreamApply \/ OtherFailed

\* The function that is called calls children of its plugin.
Hands == \E cs \in Seq(Frame) :
           /\ Pushes(cs)
           /\ \A i \in DOMAIN cs : /\ cs[i].f \in {"apply", "failed"}
                                   /\ cs[i].p \in {This.apply, This.failed}

LEMMA TopType ==
  ASSUME TypeOK, stack # <<>>
  PROVE  /\ Top = stack[1] /\ Len(stack) \in Nat \ {0} /\ 1 \in DOMAIN stack
         /\ Top \in Frame
         /\ Top.f \in Functions /\ Top.p \in Links /\ Top.e \in SUBSET Features /\ Top.s \in Nat
         /\ Top.p \in Plugins =>
              /\ This \in Struct /\ This.apply \in Links /\ This.failed \in Links
              /\ This.kind \in Kinds \cup {"none"} /\ This.flag \in Flag
<1>1. stack \in Seq(Frame) /\ plugin \in [Plugins -> Struct]
  BY DEF TypeOK
<1>2. Top = stack[1] /\ Len(stack) \in Nat \ {0} /\ 1 \in DOMAIN stack
  BY <1>1 DEF Top
<1>3. Top \in Frame
  <2>1. 1 \in 1 .. Len(stack)
    BY <1>2
  <2> QED BY <1>1, <1>2, <2>1, ElementOfSeq
<1>4. Top.f \in Functions /\ Top.p \in Links /\ Top.e \in SUBSET Features /\ Top.s \in Nat
  BY <1>3 DEF Frame
<1>5. ASSUME Top.p \in Plugins
      PROVE  /\ This \in Struct /\ This.apply \in Links /\ This.failed \in Links
             /\ This.kind \in Kinds \cup {"none"} /\ This.flag \in Flag
  <2>1. This \in Struct
    BY <1>1, <1>5 DEF This
  <2> QED BY <2>1 DEF Struct
<1> QED BY <1>2, <1>3, <1>4, <1>5

LEMMA CallType ==
  ASSUME NEW f \in Functions, NEW p \in Links, NEW e \in SUBSET Features, NEW s \in Nat
  PROVE  /\ Call(f, p, e, s) \in Frame
         /\ Call(f, p, e, s).f = f /\ Call(f, p, e, s).p = p /\ Call(f, p, e, s).s = s
BY DEF Call, Frame

LEMMA HandsNothing ==
  ASSUME TypeOK, stack # <<>>, Makes(<<>>)
  PROVE  Hands
<1>1. <<>> \in Seq(Frame) /\ DOMAIN <<>> = {}
  OBVIOUS
<1>2. Pushes(<<>>)
  BY <1>1, MakesPushes
<1> QED BY <1>1, <1>2 DEF Hands

LEMMA HandsOne ==
  ASSUME TypeOK, stack # <<>>, NEW f \in {"apply", "failed"}, NEW p \in {This.apply, This.failed},
         p \in Links, NEW e \in SUBSET Features, NEW s \in Nat, Makes(<<Call(f, p, e, s)>>)
  PROVE  Hands
<1>1. PICK c \in Frame : c = Call(f, p, e, s) /\ c.f = f /\ c.p = p
  <2>1. f \in Functions
    BY DEF Functions
  <2> QED BY <2>1, CallType
<1>2. <<c>> \in Seq(Frame) /\ DOMAIN <<c>> = {1} /\ <<c>>[1] = c
  OBVIOUS
<1>3. Pushes(<<c>>)
  <2>1. Makes(<<c>>)
    BY <1>1, Zenon
  <2> QED BY <1>2, <2>1, MakesPushes
<1> QED BY <1>1, <1>2, <1>3 DEF Hands

\* LogList_append leaves a list of logs.
LEMMA AppendedType ==
  ASSUME TypeOK, NEW p \in Plugins, NEW e \in SUBSET Features, NEW l \in Appended(p, e)
  PROVE  l \in Seq(SUBSET Features)
<1>1. PICK w \in Seq(SUBSET Features) : w = window[p]
  BY DEF TypeOK
<1>2. PICK k \in 1 .. Len(w) + 1 : l = Append(SubSeq(w, k, Len(w)), e)
  BY <1>1 DEF Appended
<1>3. SubSeq(w, k, Len(w)) \in Seq(SUBSET Features)
  BY SubSeqProperties
<1> QED BY <1>2, <1>3

\* A Timer calls its apply for the log, for all in the list, and once more.
LEMMA TimerCalls ==
  ASSUME TypeOK, TimerApply
  PROVE  \E cs \in Seq(Frame), n \in Nat :
           /\ Pushes(cs) /\ Len(cs) = n + 2
           /\ \A i \in 1 .. n + 2 : cs[i].f = "apply" /\ cs[i].p = This.apply
           /\ cs[1].s = This.flag[1] /\ cs[n + 2].s = This.flag[3]
           /\ \A i \in 2 .. n + 1 : cs[i].s = This.flag[2]
<1>1. stack # <<>> /\ Top.p \in Plugins
  BY Zenon DEF TimerApply, Calls
<1>2. /\ Top.e \in SUBSET Features /\ This.apply \in Links
      /\ This.flag[1] \in Nat /\ This.flag[2] \in Nat /\ This.flag[3] \in Nat
  <2>1. This.flag \in Flag /\ Top.e \in SUBSET Features /\ This.apply \in Links
    BY <1>1, TopType
  <2> QED BY <2>1 DEF Flag
<1>3. PICK l \in Appended(Top.p, Top.e) :
        Makes(<<Apply(This.flag[1])>>
                \o [i \in DOMAIN l |-> Call("apply", This.apply, l[i], This.flag[2])]
                \o <<Apply(This.flag[3])>>)
  BY Zenon DEF TimerApply
<1>4. l \in Seq(SUBSET Features)
  BY <1>1, <1>2, AppendedType, Zenon
<1>n. PICK n \in Nat : n = Len(l) /\ DOMAIN l = 1 .. n
  BY <1>4
<1>5. PICK a : a = <<Apply(This.flag[1])>>
  OBVIOUS
<1>6. PICK b : b = [i \in DOMAIN l |-> Call("apply", This.apply, l[i], This.flag[2])]
  OBVIOUS
<1>7. PICK c : c = <<Apply(This.flag[3])>>
  OBVIOUS
<1>f. "apply" \in Functions
  BY DEF Functions
<1>8. \A s \in Nat : /\ Apply(s) \in Frame /\ Apply(s).f = "apply"
                     /\ Apply(s).p = This.apply /\ Apply(s).s = s
  BY <1>2, <1>f DEF Apply, Call, Frame, Links
<1>9. /\ a \in Seq(Frame) /\ Len(a) = 1
      /\ a[1].f = "apply" /\ a[1].p = This.apply /\ a[1].s = This.flag[1]
  <2>1. PICK x \in Frame : /\ x = Apply(This.flag[1]) /\ x.f = "apply"
                           /\ x.p = This.apply /\ x.s = This.flag[1]
    BY <1>2, <1>8, Zenon
  <2>2. a = <<x>>
    BY <1>5, <2>1, Zenon
  <2>3. <<x>> \in Seq(Frame) /\ Len(<<x>>) = 1 /\ <<x>>[1] = x
    OBVIOUS
  <2> QED BY <2>1, <2>2, <2>3, Zenon
<1>10. /\ c \in Seq(Frame) /\ Len(c) = 1
       /\ c[1].f = "apply" /\ c[1].p = This.apply /\ c[1].s = This.flag[3]
  <2>1. PICK x \in Frame : /\ x = Apply(This.flag[3]) /\ x.f = "apply"
                           /\ x.p = This.apply /\ x.s = This.flag[3]
    BY <1>2, <1>8, Zenon
  <2>2. c = <<x>>
    BY <1>7, <2>1, Zenon
  <2>3. <<x>> \in Seq(Frame) /\ Len(<<x>>) = 1 /\ <<x>>[1] = x
    OBVIOUS
  <2> QED BY <2>1, <2>2, <2>3, Zenon
<1>11. /\ b \in Seq(Frame) /\ Len(b) = n
       /\ \A i \in 1 .. n : b[i].f = "apply" /\ b[i].p = This.apply /\ b[i].s = This.flag[2]
  <2>1. ASSUME NEW i \in 1 .. n
        PROVE  /\ b[i] \in Frame
               /\ b[i].f = "apply" /\ b[i].p = This.apply /\ b[i].s = This.flag[2]
    <3>1. l[i] \in SUBSET Features
      BY <1>4, <1>n, ElementOfSeq
    <3>2. b[i] = Call("apply", This.apply, l[i], This.flag[2])
      BY <1>6, <1>n
    <3> QED BY <1>2, <1>f, <3>1, <3>2 DEF Call, Frame, Links
  <2>2. DOMAIN b = 1 .. n /\ b = [i \in DOMAIN b |-> b[i]]
    BY <1>6, <1>n
  <2>3. b \in [1 .. n -> Frame]
    BY <2>1, <2>2
  <2> QED BY <2>1, <2>3
<1>12. Makes(a \o b \o c)
  BY <1>3, <1>5, <1>6, <1>7, Zenon
<1>13. PICK ab : ab = a \o b
  OBVIOUS
<1>14. /\ ab \in Seq(Frame) /\ Len(ab) = Len(a) + Len(b)
       /\ \A i \in 1 .. Len(a) + Len(b) :
            ab[i] = IF i <= Len(a) THEN a[i] ELSE b[i - Len(a)]
  <2>1. a \in Seq(Frame)
    BY <1>9
  <2>2. b \in Seq(Frame)
    BY <1>11
  <2>3. /\ a \o b \in Seq(Frame) /\ Len(a \o b) = Len(a) + Len(b)
        /\ \A i \in 1 .. Len(a) + Len(b) :
             (a \o b)[i] = IF i <= Len(a) THEN a[i] ELSE b[i - Len(a)]
    BY <2>1, <2>2, ConcatProperties, Zenon
  <2> QED BY <1>13, <2>3, Zenon
<1>15. PICK cs : cs = ab \o c
  OBVIOUS
<1>16. /\ cs \in Seq(Frame) /\ Len(cs) = Len(ab) + Len(c)
       /\ \A i \in 1 .. Len(ab) + Len(c) :
            cs[i] = IF i <= Len(ab) THEN ab[i] ELSE c[i - Len(ab)]
  <2>1. ab \in Seq(Frame)
    BY <1>14
  <2>2. c \in Seq(Frame)
    BY <1>10
  <2>3. /\ ab \o c \in Seq(Frame) /\ Len(ab \o c) = Len(ab) + Len(c)
        /\ \A i \in 1 .. Len(ab) + Len(c) :
             (ab \o c)[i] = IF i <= Len(ab) THEN ab[i] ELSE c[i - Len(ab)]
    BY <2>1, <2>2, ConcatProperties, Zenon
  <2> QED BY <1>15, <2>3, Zenon
<1>17. Pushes(cs)
  <2>1. Makes(cs)
    BY <1>12, <1>13, <1>15, Zenon
  <2> QED BY <1>1, <1>16, <2>1, MakesPushes
<1>18. Len(a) = 1 /\ Len(b) = n /\ Len(ab) = n + 1 /\ Len(c) = 1 /\ Len(cs) = n + 2
  BY <1>9, <1>10, <1>11, <1>14, <1>16
<1>19. cs[1] = a[1] /\ cs[n + 2] = c[1] /\ \A i \in 2 .. n + 1 : cs[i] = b[i - 1]
  <2>1. cs[1] = ab[1] /\ ab[1] = a[1]
    BY <1>14, <1>16, <1>18
  <2>2. cs[n + 2] = c[n + 2 - (n + 1)] /\ n + 2 - (n + 1) = 1
    BY <1>16, <1>18
  <2>3. ASSUME NEW i \in 2 .. n + 1 PROVE cs[i] = b[i - 1]
    <3>1. cs[i] = ab[i] /\ ab[i] = b[i - 1]
      BY <1>14, <1>16, <1>18
    <3> QED BY <3>1
  <2> QED BY <2>1, <2>2, <2>3
<1>20. \A i \in 2 .. n + 1 : i - 1 \in 1 .. n
  OBVIOUS
<1>21. \A i \in 1 .. n + 2 : i = 1 \/ i = n + 2 \/ i \in 2 .. n + 1
  OBVIOUS
<1>22. \A i \in 2 .. n + 1 : /\ cs[i].f = "apply" /\ cs[i].p = This.apply
                             /\ cs[i].s = This.flag[2]
  BY <1>11, <1>19, <1>20
<1>23. /\ \A i \in 1 .. n + 2 : cs[i].f = "apply" /\ cs[i].p = This.apply
       /\ cs[1].s = This.flag[1] /\ cs[n + 2].s = This.flag[3]
  BY <1>9, <1>10, <1>19, <1>21, <1>22, Zenon
<1> QED BY <1>16, <1>17, <1>18, <1>22, <1>23

LEMMA HandsOnTop ==
  ASSUME TypeOK, HandsOn
  PROVE  /\ phase # "crashed" /\ stack # <<>> /\ Top.p \in Plugins
         /\ Top.f \in {"apply", "failed"}
BY Zenon DEF HandsOn, Calls, CopyApply, PrintApply, KeyApply, ValApply, ReactApply,
   TimerApply, TimerFailed, StaticsStart, StaticsLog, StaticsFinish, StaticsError,
   CreateApply, ResponseApply, ResponseFailed, CloseApply, StreamApply, OtherFailed

\* No function changes the graph.
LEMMA HandsOnGraph ==
  ASSUME HandsOn
  PROVE  /\ script' = script /\ plugin' = plugin /\ root' = root /\ made' = made
         /\ count' = count /\ stale' = stale
BY DEF HandsOn, graph, data, CopyApply, PrintApply, KeyApply, ValApply, ReactApply,
   TimerApply, TimerFailed, StaticsStart, StaticsLog, StaticsFinish, StaticsError,
   CreateApply, ResponseApply, ResponseFailed, CloseApply, StreamApply, OtherFailed

\* A function calls children of its plugin, or the process ends.
LEMMA HandsOnCalls ==
  ASSUME TypeOK, HandsOn
  PROVE  \/ Hands /\ phase' = phase
         \/ /\ stack' = <<>> /\ phase' = "crashed"
            /\ script.api = "konoha" \/ misused' = misused
<1>1. stack # <<>> /\ Top.p \in Plugins /\ Top.e \in SUBSET Features /\ Top.s \in Nat
  BY HandsOnTop, TopType
<1>2. This.apply \in Links /\ This.failed \in Links /\ This.flag \in Flag
  BY <1>1, TopType
<1>3. \A s \in Nat : Makes(<<Apply(s)>>) => Hands
  BY <1>1, <1>2, HandsOne, Zenon DEF Apply
<1>4. \A e \in SUBSET Features, s \in Nat : Makes(<<Call("apply", This.apply, e, s)>>) => Hands
  BY <1>1, <1>2, HandsOne, Zenon
<1>5. \A s \in Nat, f \in {"apply", "failed"} :
        Makes(<<Call(f, This.failed, Top.e, s)>>) => Hands
  BY <1>1, <1>2, HandsOne, Zenon
<1>6. Makes(<<>>) => Hands
  BY <1>1, HandsNothing
<1>z. 0 \in Nat /\ 1 \in Nat
  OBVIOUS
<1>7. CASE CopyApply
  BY <1>3, <1>7, <1>z, Zenon DEF CopyApply
<1>8. CASE PrintApply
  BY <1>1, <1>3, <1>8, Zenon DEF PrintApply, PrintState
<1>9. CASE KeyApply
  BY <1>3, <1>6, <1>9, <1>z, Zenon DEF KeyApply
<1>10. CASE ValApply
  BY <1>3, <1>6, <1>10, <1>z, Zenon DEF ValApply
<1>11. CASE ReactApply
  BY <1>3, <1>5, <1>6, <1>11, <1>z, Zenon DEF ReactApply
<1>12. CASE TimerFailed
  BY <1>6, <1>12, Zenon DEF TimerFailed
<1>13. CASE StaticsStart
  BY <1>6, <1>13, Zenon DEF StaticsStart
<1>14. CASE StaticsLog
  BY <1>6, <1>14, Zenon DEF StaticsLog, Crash, FromMalloc
<1>15. CASE StaticsFinish
  <2>1. \A d \in Data : d \in Nat
    BY DataAssumption
  <2> QED BY <1>3, <1>5, <1>15, <1>z, <2>1, Zenon DEF StaticsFinish, Crash, FromMalloc
<1>16. CASE StaticsError
  BY <1>5, <1>16, <1>z, Zenon DEF StaticsError
<1>17. CASE CreateApply
  <2>1. \A e \in Logs : e \in SUBSET Features
    BY LogsAssumption
  <2> QED BY <1>4, <1>17, <1>z, <2>1, Zenon DEF CreateApply
<1>18. CASE ResponseApply
  BY <1>1, <1>3, <1>18, Zenon DEF ResponseApply
<1>19. CASE ResponseFailed
  BY <1>1, <1>5, <1>19, Zenon DEF ResponseFailed
<1>20. CASE CloseApply \/ StreamApply
  <2>1. misused' = misused /\ ((Makes(<<>>) /\ phase' = phase) \/ MayCrash)
    BY <1>20, Zenon DEF CloseApply, StreamApply, data
  <2> QED BY <1>6, <2>1, Zenon DEF MayCrash, Crash
<1>22. CASE OtherFailed
  BY <1>6, <1>22, Zenon DEF OtherFailed
<1>21. CASE TimerApply
  <2>1. PICK cs \in Seq(Frame), n \in Nat :
          /\ Pushes(cs) /\ Len(cs) = n + 2
          /\ \A i \in 1 .. n + 2 : cs[i].f = "apply" /\ cs[i].p = This.apply
    BY <1>21, TimerCalls
  <2>2. DOMAIN cs = 1 .. n + 2
    BY <2>1
  <2>3. Hands
    BY <2>1, <2>2 DEF Hands
  <2> QED BY <1>21, <2>3 DEF TimerApply
<1> QED BY <1>7, <1>8, <1>9, <1>10, <1>11, <1>12, <1>13, <1>14, <1>15, <1>16, <1>17, <1>18,
           <1>19, <1>20, <1>21, <1>22 DEF HandsOn

LEMMA HandsOnData ==
  ASSUME TypeOK, HandsOn
  PROVE  /\ window' \in [Plugins -> Seq(SUBSET Features)]
         /\ context' \in [Plugins -> {"none", "open", "closed"}]
         /\ bev' \in [Plugins -> {"live", "freed", "quit", "joined"}]
         /\ misused' \subseteq Plugins
<1>1. Top.p \in Plugins /\ Top.e \in SUBSET Features
  BY HandsOnTop, TopType
<1>2. /\ window \in [Plugins -> Seq(SUBSET Features)]
      /\ context \in [Plugins -> {"none", "open", "closed"}]
      /\ bev \in [Plugins -> {"live", "freed", "quit", "joined"}]
      /\ misused \subseteq Plugins
  BY DEF TypeOK
<1>b. bev' = bev \/ bev' = [bev EXCEPT ![Top.p] = "freed"]
  BY Zenon DEF HandsOn, data, CopyApply, PrintApply, KeyApply, ValApply, ReactApply,
     TimerApply, TimerFailed, StaticsStart, StaticsLog, StaticsFinish, StaticsError,
     CreateApply, ResponseApply, ResponseFailed, CloseApply, StreamApply, OtherFailed
<1>3. window' = window \/ \E l \in Appended(Top.p, Top.e) : window' = [window EXCEPT ![Top.p] = l]
  BY Zenon DEF HandsOn, data, CopyApply, PrintApply, KeyApply, ValApply, ReactApply,
     TimerApply, TimerFailed, StaticsStart, StaticsLog, StaticsFinish, StaticsError,
     CreateApply, ResponseApply, ResponseFailed, CloseApply, StreamApply, OtherFailed
<1>4. \/ context' = context
      \/ context' = [context EXCEPT ![Top.p] = "open"]
      \/ context' = [context EXCEPT ![Top.p] = "closed"]
  BY Zenon DEF HandsOn, data, CopyApply, PrintApply, KeyApply, ValApply, ReactApply,
     TimerApply, TimerFailed, StaticsStart, StaticsLog, StaticsFinish, StaticsError,
     CreateApply, ResponseApply, ResponseFailed, CloseApply, StreamApply, OtherFailed
<1>5. misused' = misused \/ misused' = misused \cup {Top.p}
  BY Zenon DEF HandsOn, data, Misuse, CopyApply, PrintApply, KeyApply, ValApply, ReactApply,
     TimerApply, TimerFailed, StaticsStart, StaticsLog, StaticsFinish, StaticsError,
     CreateApply, ResponseApply, ResponseFailed, CloseApply, StreamApply, OtherFailed
<1>6. window' \in [Plugins -> Seq(SUBSET Features)]
  <2>1. ASSUME NEW l \in Appended(Top.p, Top.e), window' = [window EXCEPT ![Top.p] = l]
        PROVE  window' \in [Plugins -> Seq(SUBSET Features)]
    <3>1. l \in Seq(SUBSET Features)
      BY <1>1, AppendedType, Zenon
    <3> QED BY <1>2, <2>1, <3>1
  <2> QED BY <1>2, <1>3, <2>1
<1>7. context' \in [Plugins -> {"none", "open", "closed"}]
  BY <1>2, <1>4
<1>8. bev' \in [Plugins -> {"live", "freed", "quit", "joined"}]
  BY <1>2, <1>b
<1> QED BY <1>1, <1>2, <1>5, <1>6, <1>7, <1>8

LEMMA HandsOnType ==
  ASSUME TypeOK, HandsOn
  PROVE  TypeOK'
<1>1. /\ script' = script /\ plugin' = plugin /\ root' = root /\ made' = made
      /\ count' = count /\ stale' = stale
  BY HandsOnGraph
<1>2. stack' \in Seq(Frame) /\ phase' \in {"build", "run", "dispose", "crashed"}
  <2>1. CASE Hands /\ phase' = phase
    BY <2>1 DEF Hands, Pushes, TypeOK
  <2>2. CASE stack' = <<>> /\ phase' = "crashed"
    BY <2>2
  <2> QED BY <2>1, <2>2, HandsOnCalls
<1>3. /\ window' \in [Plugins -> Seq(SUBSET Features)]
      /\ context' \in [Plugins -> {"none", "open", "closed"}]
      /\ bev' \in [Plugins -> {"live", "freed", "quit", "joined"}]
      /\ misused' \subseteq Plugins
  BY HandsOnData
<1> QED BY <1>1, <1>2, <1>3 DEF TypeOK

-----------------------------------------------------------------------------
(* The procedure has returned, and its plugins stay linked *)

\* A step that neither hangs plugins nor clones them.
Quiet ==
  /\ SamePlugins
  /\ phase # "build" /\ phase' # "build"
  /\ \A p \in Plugins : plugin'[p].mem = "unused" <=> plugin[p].mem = "unused"

LEMMA QuietLinked ==
  ASSUME Linked, Quiet
  PROVE  Linked'
<1>1. \A p \in Plugins : /\ plugin'[p].kind = plugin[p].kind
                         /\ plugin'[p].mem = "unused" <=> plugin[p].mem = "unused"
  BY DEF Quiet, SamePlugins
<1>3. root' \in Plugins /\ phase' # "build"
  BY DEF Linked, Quiet, SamePlugins, SameLinks
<1>4. \A p \in Plugins : /\ plugin[p].kind = "none" => plugin[p].mem = "unused"
                         /\ plugin[p].mem = "unused" => plugin[p].kind = "none"
  BY DEF Linked
<1> QED BY <1>1, <1>3, <1>4 DEF Linked

LEMMA Unchanged ==
  ASSUME plugin' = plugin, root' = root
  PROVE  /\ SamePlugins
         /\ \A p \in Plugins : plugin'[p].mem = "unused" <=> plugin[p].mem = "unused"
         /\ Reachable' = Reachable
         /\ Shared' <=> Shared
<1>1. SamePlugins
  BY DEF SamePlugins, SameLinks, Child
<1>2. Reachable' = Reachable
  BY <1>1, SameReachable DEF SamePlugins
<1>3. Shared' <=> Shared
  BY <1>2 DEF Shared, Child
<1> QED BY <1>1, <1>2, <1>3

LEMMA HandsOnQuiet ==
  ASSUME TypeOK, Linked, Grouped, HandsOn
  PROVE  /\ Quiet /\ phase = "run" /\ Handles
         /\ Reachable' = Reachable
         /\ Shared' <=> Shared
<1>1. /\ phase # "crashed" /\ stack # <<>> /\ Top.f \in {"apply", "failed"}
      /\ 1 \in DOMAIN stack /\ Top = stack[1]
  BY HandsOnTop, TopType
<1>2. phase = "run" /\ Handles
  <2>1. phase # "build"
    BY <1>1 DEF Linked
  <2>2. ~Disposes /\ ~Creates
    BY <1>1 DEF Disposes, Creates
  <2>3. phase \in {"build", "run", "dispose", "crashed"}
    BY DEF TypeOK
  <2> QED BY <1>1, <2>1, <2>2, <2>3 DEF Grouped
<1>3. plugin' = plugin /\ root' = root
  BY HandsOnGraph
<1>4. phase' # "build"
  BY <1>2, HandsOnCalls
<1> QED BY <1>2, <1>3, <1>4, Unchanged DEF Quiet

\* The calls after a function that hands a log on are calls that were there
\* and calls of children.
LEMMA HandsCalls ==
  ASSUME TypeOK, Top.p \in Plugins, Hands, NEW i \in DOMAIN stack'
  PROVE  \/ /\ stack'[i].f \in {"apply", "failed"}
            /\ stack'[i].p \in {This.apply, This.failed}
         \/ \E j \in 2 .. Len(stack) : j \in DOMAIN stack /\ stack'[i] = stack[j]
<1>1. PICK cs \in Seq(Frame) :
        /\ Pushes(cs)
        /\ \A k \in DOMAIN cs : /\ cs[k].f \in {"apply", "failed"}
                                /\ cs[k].p \in {This.apply, This.failed}
  BY DEF Hands
<1>2. PICK n \in Nat : n = Len(cs) /\ DOMAIN cs = 1 .. n
  OBVIOUS
<1>3. PICK m \in Nat : m = Len(stack') /\ DOMAIN stack' = 1 .. m
  BY <1>1 DEF Pushes
<1>4. CASE i \in 1 .. n
  BY <1>1, <1>2, <1>4 DEF Pushes
<1>5. CASE i \in n + 1 .. m
  <2>1. i - n + 1 \in 2 .. Len(stack) /\ stack'[i] = stack[i - n + 1]
    BY <1>1, <1>2, <1>3, <1>5 DEF Pushes
  <2>2. \A j \in 2 .. Len(stack) : j \in DOMAIN stack
    BY DEF TypeOK
  <2> QED BY <2>1, <2>2
<1>6. i \in 1 .. n \/ i \in n + 1 .. m
  BY <1>3
<1> QED BY <1>4, <1>5, <1>6

LEMMA HandsOnGrouped ==
  ASSUME TypeOK, Linked, Grouped, HandsOn
  PROVE  Grouped' /\ (phase' = "run" => Handles')
<1>1. /\ phase = "run" /\ Handles /\ Reachable' = Reachable /\ Top.p \in Plugins
      /\ plugin' = plugin /\ stale' = stale /\ Top = stack[1] /\ 1 \in DOMAIN stack
  BY HandsOnQuiet, HandsOnTop, HandsOnGraph, TopType
<1>2. CASE Hands /\ phase' = phase
  <2>1. ASSUME NEW i \in DOMAIN stack'
        PROVE  /\ stack'[i].f \in {"apply", "failed"}
               /\ stack'[i].p \in Plugins => stack'[i].p \in Reachable
    <3>1. CASE \E j \in 2 .. Len(stack) : j \in DOMAIN stack /\ stack'[i] = stack[j]
      BY <1>1, <3>1 DEF Handles, Grouped
    <3>2. CASE /\ stack'[i].f \in {"apply", "failed"}
               /\ stack'[i].p \in {This.apply, This.failed}
      <4>1. Top.p \in Reachable
        BY <1>1 DEF Grouped
      <4>2. Child(Top.p, stack'[i].p)
        BY <3>2 DEF Child, This
      <4> QED BY <3>2, <4>1, <4>2, ReachableLeast
    <3> QED BY <1>1, <1>2, <3>1, <3>2, HandsCalls
  <2>2. ~stale' /\ \A p \in Plugins : plugin'[p].mem # "freed"
    BY <1>1 DEF Grouped
  <2> QED BY <1>1, <1>2, <2>1, <2>2 DEF Grouped, Handles
<1>3. CASE stack' = <<>> /\ phase' = "crashed"
  BY <1>3 DEF Grouped
<1> QED BY <1>2, <1>3, HandsOnCalls

\* Where nothing is created, it stays as it is.
LEMMA NoCreation ==
  ASSUME TypeOK, Creating, SameLinks, made' = made,
         \A p \in Plugins : plugin'[p].inited = plugin[p].inited,
         \A i \in DOMAIN stack : stack[i].f \notin {"init", "created"},
         \A i \in DOMAIN stack' : stack'[i].f \notin {"init", "created"},
         phase' \in {"run", "dispose"} => phase \in {"run", phase'} /\ root \in Plugins
  PROVE  Creating'
<1>1. \A p : /\ ~Pending("created", p) /\ ~Pending("init", p)
             /\ ~Pending("created", p)' /\ ~Pending("init", p)'
  BY DEF Pending
<1>2. /\ root' = root
      /\ \A p, q \in Plugins : Child(p, q)' <=> Child(p, q)
  BY DEF SameLinks
<1>3. \A p \in Plugins : /\ made'[p] <= 1 /\ (plugin'[p].inited => made'[p] = 1)
                        /\ phase' = "run" /\ made'[p] = 1 => plugin'[p].inited
  BY <1>1 DEF Creating
<1>4. \A p, q \in Plugins : plugin'[p].inited /\ Child(p, q)' => plugin'[q].inited
  BY <1>2 DEF Creating
<1>5. phase' \in {"run", "dispose"} => plugin'[root'].inited
  BY <1>1, <1>2 DEF Creating
<1>6. Ordered'
  BY <1>2 DEF Creating, Ordered
<1>7. Waiting'
  BY DEF Waiting
<1> QED BY <1>1, <1>3, <1>4, <1>5, <1>6, <1>7 DEF Creating

LEMMA HandsOnCreating ==
  ASSUME TypeOK, Linked, Grouped, Creating, HandsOn
  PROVE  Creating'
<1>1. /\ SameLinks /\ made' = made /\ plugin' = plugin /\ phase = "run" /\ Handles
      /\ root \in Plugins
  BY HandsOnQuiet, HandsOnGraph DEF Quiet, SamePlugins, Linked
<1>2. /\ phase' # "dispose"
      /\ \A i \in DOMAIN stack' : stack'[i].f \in {"apply", "failed"}
  <2>1. CASE Hands /\ phase' = phase
    BY <1>1, <2>1, HandsOnGrouped DEF Handles
  <2>2. CASE stack' = <<>> /\ phase' = "crashed"
    BY <2>2
  <2> QED BY <2>1, <2>2, HandsOnCalls
<1>3. \A i \in DOMAIN stack : stack[i].f \in {"apply", "failed"}
  BY <1>1 DEF Handles
<1>4. /\ \A i \in DOMAIN stack : stack[i].f \notin {"init", "created"}
      /\ \A i \in DOMAIN stack' : stack'[i].f \notin {"init", "created"}
  BY <1>2, <1>3
<1> QED BY <1>1, <1>2, <1>4, NoCreation

LEMMA HandsOnDisposing ==
  ASSUME TypeOK, Linked, Grouped, Disposing, HandsOn
  PROVE  Disposing'
<1>1. phase' # "dispose" /\ (Shared' <=> Shared) /\ stale' = stale
  BY HandsOnQuiet, HandsOnGraph, HandsOnCalls
<1> QED BY <1>1 DEF Disposing

-----------------------------------------------------------------------------
(* A Statics is called in windows *)

\* The windows stay whole if the calls that replace the first one do.
LEMMA WindowedPush ==
  ASSUME TypeOK, NEW L, NEW p, Windowed(L, p), NEW cs \in Seq(Frame), Pushes(cs),
         NEW n \in Nat \ {0}, n = Len(cs), p \notin misused',
         \A i \in 1 .. n : Leading(L, cs[i]) => cs[i].s \in {0, 1, 2},
         \A i \in 1 .. n - 1 : GoesOn(L, cs[i]) <=> Follows(L, cs[i + 1]),
         GoesOn(L, cs[n]) <=> GoesOn(L, stack[1]),
         context'[p] = "open" <=> Follows(L, cs[1])
  PROVE  Windowed(L, p)'
<1>0. stack # <<>> /\ stack \in Seq(Frame)
  BY Zenon DEF Pushes
<1>1. PICK m \in Nat : m = Len(stack) - 1 /\ DOMAIN stack = 1 .. m + 1
  <2>1. Len(stack) \in Nat \ {0} /\ DOMAIN stack = 1 .. Len(stack)
    BY <1>0
  <2>2. \A l \in Nat \ {0} : l - 1 \in Nat /\ l = l - 1 + 1
    OBVIOUS
  <2> QED BY <2>1, <2>2
<1>2. /\ DOMAIN stack' = 1 .. n + m
      /\ \A i \in 1 .. n : stack'[i] = cs[i]
      /\ \A i \in n + 1 .. n + m : stack'[i] = stack[i - n + 1]
  <2>1. Len(stack') = n + m /\ DOMAIN stack' = 1 .. Len(stack')
    BY <1>1 DEF Pushes
  <2> QED BY <2>1 DEF Pushes
<1>3. 1 \in DOMAIN stack'
  BY <1>2
<1>4. context'[p] = "open" <=> FollowsAt(L, 1)'
  <2>1. stack'[1] = cs[1]
    BY <1>2
  <2>2. FollowsAt(L, 1)' <=> Follows(L, cs[1])
    BY <1>3, <2>1 DEF FollowsAt, Follows, Leading
  <2> QED BY <2>2
<1>5. ASSUME NEW i \in 1 .. n + m
      PROVE  /\ Leading(L, stack'[i]) => stack'[i].s \in {0, 1, 2}
             /\ GoesOn(L, stack'[i]) <=> i + 1 \in 1 .. n + m /\ Follows(L, stack'[i + 1])
  <2>1. CASE i \in 1 .. n - 1
    <3>1. i + 1 \in 1 .. n /\ i \in 1 .. n /\ i + 1 \in 1 .. n + m
      BY <2>1
    <3>2. stack'[i] = cs[i] /\ stack'[i + 1] = cs[i + 1]
      BY <1>2, <3>1
    <3> QED BY <2>1, <3>1, <3>2
  <2>2. CASE i = n
    <3>1. stack'[n] = cs[n]
      BY <1>2
    <3>2. GoesOn(L, stack[1]) <=> FollowsAt(L, 2)
      <4>1. 1 \in DOMAIN stack
        BY <1>1
      <4> QED BY <4>1 DEF Windowed
    <3>3. FollowsAt(L, 2) <=> n + 1 \in 1 .. n + m /\ Follows(L, stack'[n + 1])
      <4>1. CASE m = 0
        BY <1>1, <4>1 DEF FollowsAt
      <4>2. CASE m > 0
        <5>1. 2 \in 1 .. m + 1 /\ n + 1 \in n + 1 .. n + m /\ n + 1 \in 1 .. n + m
          BY <4>2
        <5>2. n + 1 - n + 1 = 2
          OBVIOUS
        <5>3. stack'[n + 1] = stack[2]
          BY <1>2, <5>1, <5>2
        <5> QED BY <1>1, <5>1, <5>3 DEF FollowsAt
      <4> QED BY <4>1, <4>2
    <3>4. n \in 1 .. n
      OBVIOUS
    <3> QED BY <2>2, <3>1, <3>2, <3>3, <3>4
  <2>3. CASE i \in n + 1 .. n + m
    <3>1. i - n + 1 \in 1 .. m + 1 /\ stack'[i] = stack[i - n + 1]
      BY <1>2, <2>3
    <3>2. /\ Leading(L, stack[i - n + 1]) => stack[i - n + 1].s \in {0, 1, 2}
          /\ GoesOn(L, stack[i - n + 1]) <=> FollowsAt(L, i - n + 1 + 1)
      BY <1>1, <3>1 DEF Windowed
    <3>3. FollowsAt(L, i - n + 1 + 1) <=> i + 1 \in 1 .. n + m /\ Follows(L, stack'[i + 1])
      <4>1. i - n + 1 + 1 \in 1 .. m + 1 <=> i + 1 \in 1 .. n + m
        BY <2>3
      <4>2. ASSUME i + 1 \in 1 .. n + m PROVE stack'[i + 1] = stack[i - n + 1 + 1]
        <5>1. i + 1 \in n + 1 .. n + m /\ i + 1 - n + 1 = i - n + 1 + 1
          BY <2>3, <4>2
        <5> QED BY <1>2, <5>1
      <4> QED BY <1>1, <4>1, <4>2 DEF FollowsAt
    <3> QED BY <3>1, <3>2, <3>3
  <2> QED BY <2>1, <2>2, <2>3
<1>6. \A i \in DOMAIN stack' : /\ Leading(L, stack'[i]) => stack'[i].s \in {0, 1, 2}
                               /\ GoesOn(L, stack'[i]) <=> FollowsAt(L, i + 1)'
  BY <1>2, <1>5 DEF FollowsAt, Follows, Leading
<1> QED BY <1>4, <1>6 DEF Windowed, Leading, GoesOn

LEMMA WindowedPop ==
  ASSUME TypeOK, NEW L, NEW p, Windowed(L, p), Pushes(<<>>), p \notin misused',
         context'[p] = "open" <=> GoesOn(L, stack[1])
  PROVE  Windowed(L, p)'
<1>0. stack # <<>> /\ stack \in Seq(Frame)
  BY Zenon DEF Pushes
<1>1. PICK m \in Nat : m = Len(stack) - 1 /\ DOMAIN stack = 1 .. m + 1
  <2>1. Len(stack) \in Nat \ {0} /\ DOMAIN stack = 1 .. Len(stack)
    BY <1>0
  <2>2. \A l \in Nat \ {0} : l - 1 \in Nat /\ l = l - 1 + 1
    OBVIOUS
  <2> QED BY <2>1, <2>2
<1>2. DOMAIN stack' = 1 .. m /\ \A i \in 1 .. m : stack'[i] = stack[i + 1]
  <2>1. Len(stack') = m /\ DOMAIN stack' = 1 .. m
    BY <1>1 DEF Pushes
  <2>2. \A i \in 1 .. m : stack'[i] = stack[i - 0 + 1] /\ i - 0 + 1 = i + 1
    BY <2>1 DEF Pushes
  <2> QED BY <2>1, <2>2
<1>3. \A i \in 1 .. m : i + 1 \in DOMAIN stack
  BY <1>1
<1>4. \A i \in 1 .. m + 1 : FollowsAt(L, i)' <=> FollowsAt(L, i + 1)
  BY <1>1, <1>2 DEF FollowsAt, Follows, Leading
<1>5. context'[p] = "open" <=> FollowsAt(L, 1)'
  <2>1. GoesOn(L, stack[1]) <=> FollowsAt(L, 1 + 1)
    BY <1>1 DEF Windowed
  <2>2. FollowsAt(L, 1)' <=> FollowsAt(L, 1 + 1)
    BY <1>4
  <2> QED BY <2>1, <2>2
<1>6. ASSUME NEW i \in 1 .. m
      PROVE  /\ Leading(L, stack'[i]) => stack'[i].s \in {0, 1, 2}
             /\ GoesOn(L, stack'[i]) <=> FollowsAt(L, i + 1)'
  <2>1. i + 1 \in 1 .. m + 1 /\ i + 1 \in DOMAIN stack
    BY <1>3
  <2>2. /\ Leading(L, stack[i + 1]) => stack[i + 1].s \in {0, 1, 2}
        /\ GoesOn(L, stack[i + 1]) <=> FollowsAt(L, i + 1 + 1)
    BY <2>1 DEF Windowed
  <2> QED BY <1>2, <1>4, <2>1, <2>2
<1> QED BY <1>2, <1>5, <1>6 DEF Windowed, Leading, GoesOn

\* A call of a plugin that does not lead to the Statics.
LEMMA WindowedOther ==
  ASSUME TypeOK, NEW L, NEW p, Windowed(L, p), stack # <<>>, p \notin misused',
         NEW f \in Functions, NEW q \in Links, NEW e \in SUBSET Features, NEW s \in Nat,
         Makes(<<Call(f, q, e, s)>>), f # "apply" \/ q \notin L,
         ~GoesOn(L, stack[1]), context'[p] # "open"
  PROVE  Windowed(L, p)'
<1>1. PICK c \in Frame : c = Call(f, q, e, s) /\ c.f = f /\ c.p = q
  BY CallType
<1>2. PICK cs \in Seq(Frame) : cs = <<c>> /\ Len(cs) = 1 /\ cs[1] = c
  <2>1. <<c>> \in Seq(Frame) /\ Len(<<c>>) = 1 /\ <<c>>[1] = c
    OBVIOUS
  <2> QED BY <2>1, Zenon
<1>3. Pushes(cs)
  <2>1. Makes(cs)
    BY <1>1, <1>2, Zenon
  <2> QED BY <2>1, MakesPushes
<1>n. PICK n \in Nat \ {0} : n = 1
  OBVIOUS
<1>4. ~Leading(L, c)
  BY <1>1 DEF Leading
<1>5. /\ \A i \in 1 .. n : Leading(L, cs[i]) => cs[i].s \in {0, 1, 2}
      /\ \A i \in 1 .. n - 1 : GoesOn(L, cs[i]) <=> Follows(L, cs[i + 1])
      /\ GoesOn(L, cs[n]) <=> GoesOn(L, stack[1])
      /\ context'[p] = "open" <=> Follows(L, cs[1])
  BY <1>2, <1>4, <1>n DEF GoesOn, Follows
<1> QED BY <1>2, <1>3, <1>5, <1>n, WindowedPush

\* A call that hands the state on to a plugin that leads to the Statics.
LEMMA WindowedState ==
  ASSUME TypeOK, NEW L, NEW p, Windowed(L, p), stack # <<>>, p \notin misused',
         NEW q \in Links, NEW e \in SUBSET Features,
         Makes(<<Call("apply", q, e, Top.s)>>), q \in L,
         Leading(L, stack[1]), context'[p] = context[p]
  PROVE  Windowed(L, p)'
<1>1. Top.s \in Nat /\ Top = stack[1] /\ 1 \in DOMAIN stack
  BY TopType
<1>2. PICK c \in Frame : c = Call("apply", q, e, Top.s) /\ c.f = "apply" /\ c.p = q /\ c.s = Top.s
  <2>1. "apply" \in Functions
    BY DEF Functions
  <2> QED BY <1>1, <2>1, CallType
<1>3. PICK cs \in Seq(Frame) : cs = <<c>> /\ Len(cs) = 1 /\ cs[1] = c
  <2>1. <<c>> \in Seq(Frame) /\ Len(<<c>>) = 1 /\ <<c>>[1] = c
    OBVIOUS
  <2> QED BY <2>1, Zenon
<1>4. Pushes(cs)
  <2>1. Makes(cs)
    BY <1>2, <1>3, Zenon
  <2> QED BY <2>1, MakesPushes
<1>n. PICK n \in Nat \ {0} : n = 1
  OBVIOUS
<1>5. Leading(L, c) /\ c.s = stack[1].s
  BY <1>1, <1>2 DEF Leading
<1>6. c.s \in {0, 1, 2} /\ (context[p] = "open" <=> Follows(L, stack[1]))
  BY <1>1, <1>5 DEF Windowed, FollowsAt
<1>7. /\ \A i \in 1 .. n : Leading(L, cs[i]) => cs[i].s \in {0, 1, 2}
      /\ \A i \in 1 .. n - 1 : GoesOn(L, cs[i]) <=> Follows(L, cs[i + 1])
      /\ GoesOn(L, cs[n]) <=> GoesOn(L, stack[1])
      /\ context'[p] = "open" <=> Follows(L, cs[1])
  BY <1>3, <1>5, <1>6, <1>n DEF GoesOn, Follows
<1> QED BY <1>3, <1>4, <1>7, <1>n, WindowedPush

\* The calls of a Timer.
LEMMA WindowedTimer ==
  ASSUME TypeOK, NEW L, NEW p, Windowed(L, p), TimerApply, p \notin misused',
         This.apply \in L => This.flag = <<0, 1, 2>>,
         ~Leading(L, stack[1]), context'[p] # "open"
  PROVE  Windowed(L, p)'
<1>1. PICK cs \in Seq(Frame), k \in Nat :
           /\ Pushes(cs) /\ Len(cs) = k + 2
           /\ \A i \in 1 .. k + 2 : cs[i].f = "apply" /\ cs[i].p = This.apply
           /\ cs[1].s = This.flag[1] /\ cs[k + 2].s = This.flag[3]
           /\ \A i \in 2 .. k + 1 : cs[i].s = This.flag[2]
  BY TimerCalls
<1>2. PICK n \in Nat \ {0} : n = k + 2
  OBVIOUS
<1>3. CASE This.apply \notin L
  <2>1. \A i \in 1 .. n : ~Leading(L, cs[i])
    BY <1>1, <1>2, <1>3 DEF Leading
  <2>2. 1 \in 1 .. n /\ n \in 1 .. n /\ \A i \in 1 .. n - 1 : i \in 1 .. n /\ i + 1 \in 1 .. n
    OBVIOUS
  <2>3. /\ \A i \in 1 .. n : Leading(L, cs[i]) => cs[i].s \in {0, 1, 2}
        /\ \A i \in 1 .. n - 1 : GoesOn(L, cs[i]) <=> Follows(L, cs[i + 1])
        /\ GoesOn(L, cs[n]) <=> GoesOn(L, stack[1])
        /\ context'[p] = "open" <=> Follows(L, cs[1])
    BY <2>1, <2>2 DEF GoesOn, Follows
  <2> QED BY <1>1, <1>2, <2>3, WindowedPush
<1>4. CASE This.apply \in L
  <2>1. This.flag[1] = 0 /\ This.flag[2] = 1 /\ This.flag[3] = 2
    BY <1>4
  <2>2. \A i \in 1 .. n : Leading(L, cs[i])
    BY <1>1, <1>2, <1>4 DEF Leading
  <2>3. cs[1].s = 0 /\ cs[n].s = 2 /\ \A i \in 2 .. n - 1 : cs[i].s = 1
    <3>1. n - 1 = k + 1
      BY <1>2
    <3> QED BY <1>1, <1>2, <2>1, <3>1
  <2>4. \A i \in 1 .. n : i = 1 \/ i = n \/ i \in 2 .. n - 1
    OBVIOUS
  <2>5. ASSUME NEW i \in 1 .. n - 1 PROVE GoesOn(L, cs[i]) <=> Follows(L, cs[i + 1])
    <3>1. i \in 1 .. n /\ i + 1 \in 1 .. n /\ i + 1 # 1 /\ i # n
      OBVIOUS
    <3>2. cs[i].s \in {0, 1} /\ cs[i + 1].s \in {1, 2}
      BY <2>3, <2>4, <3>1
    <3> QED BY <2>2, <3>1, <3>2 DEF GoesOn, Follows
  <2>6. \A i \in 1 .. n : cs[i].s \in {0, 1, 2}
    BY <2>3, <2>4
  <2>7. GoesOn(L, cs[n]) <=> GoesOn(L, stack[1])
    BY <2>3 DEF GoesOn
  <2>8. context'[p] = "open" <=> Follows(L, cs[1])
    BY <2>3 DEF Follows
  <2> QED BY <1>1, <1>2, <2>5, <2>6, <2>7, <2>8, WindowedPush
<1> QED BY <1>3, <1>4

LEMMA HandsOnWindowed ==
  ASSUME TypeOK, Linked, Grouped, HandsOn, script.api = "c",
         NEW p \in Plugins, NEW L \in SUBSET Plugins,
         plugin[p].kind = "statics", Leads(L, p), Windowed(L, p), phase' # "crashed"
  PROVE  Windowed(L, p)'
<1>1. /\ stack # <<>> /\ Top.p \in Plugins /\ Top.p \in Reachable /\ Top = stack[1]
      /\ 1 \in DOMAIN stack
      /\ Top.e \in SUBSET Features /\ Top.s \in Nat
      /\ This.apply \in Links /\ This.failed \in Links
  BY HandsOnTop, TopType DEF Grouped
<1>z. /\ 0 \in Nat /\ 1 \in Nat /\ "apply" \in Functions /\ "failed" \in Functions
      /\ "apply" # "failed"
      /\ \A d \in Data : d \in Nat
      /\ \A e \in Logs : e \in SUBSET Features
  BY DataAssumption, LogsAssumption DEF Functions
\* What is known of the plugin that is called.
<1>2. Top.p \in L => This.kind \in {"statics", "print", "response"}
  BY DEF Leads, This
<1>3. Top.p \in L /\ Top.p # p => This.kind # "statics" /\ This.apply \in L
  BY DEF Leads, This
<1>4. Top.p = p => This.kind = "statics" /\ Top.p \in L
  BY DEF Leads, This
<1>5. This.apply \in L => \/ This.kind = "timer" /\ This.flag = <<0, 1, 2>>
                          \/ This.kind \in {"print", "response"} /\ Top.p \in L
  BY <1>1 DEF Leads, Keeps, This
<1>6. This.kind \in {"statics", "response"} => This.failed \notin L
  BY <1>1 DEF Leads, Keeps, This
<1>7. /\ Leading(L, stack[1]) <=> Top.f = "apply" /\ Top.p \in L
      /\ GoesOn(L, stack[1]) <=> Top.f = "apply" /\ Top.p \in L /\ Top.s \in {0, 1}
      /\ context[p] = "open" <=> Top.f = "apply" /\ Top.p \in L /\ Top.s \in {1, 2}
      /\ Top.f = "apply" /\ Top.p \in L => Top.s \in {0, 1, 2}
      /\ p \notin misused
  BY <1>1 DEF Leading, GoesOn, Follows, FollowsAt, Windowed
\* What it can do.
<1>8. ASSUME Makes(<<>>), p \notin misused', context'[p] = "open" <=> GoesOn(L, stack[1])
      PROVE  Windowed(L, p)'
  <2>1. Pushes(<<>>)
    <3>1. <<>> \in Seq(Frame)
      OBVIOUS
    <3> QED BY <1>1, <1>8, <3>1, MakesPushes
  <2> QED BY <1>8, <2>1, WindowedPop
<1>9. ASSUME NEW f \in {"apply", "failed"}, NEW q \in {This.apply, This.failed},
             NEW e \in SUBSET Features, NEW s \in Nat, Makes(<<Call(f, q, e, s)>>),
             f = "failed" \/ q \notin L,
             p \notin misused', context'[p] # "open", ~GoesOn(L, stack[1])
      PROVE  Windowed(L, p)'
  <2>1. q \in Links /\ f \in Functions /\ (f # "apply" \/ q \notin L)
    BY <1>1, <1>9, <1>z
  <2> QED BY <1>1, <1>9, <2>1, WindowedOther
<1>10. ASSUME Makes(<<Call("apply", This.apply, Top.e, Top.s)>>), This.apply \in L,
              Leading(L, stack[1]), context' = context, misused' = misused
       PROVE  Windowed(L, p)'
  BY <1>1, <1>7, <1>10, WindowedState
\* A plugin that does not lead to the Statics.
<1>11. ASSUME context' = context, misused' = misused, ~(Top.f = "apply" /\ Top.p \in L)
       PROVE  /\ p \notin misused' /\ context'[p] # "open" /\ ~GoesOn(L, stack[1])
              /\ Makes(<<>>) => Windowed(L, p)'
              /\ \A e \in SUBSET Features, s \in Nat :
                   Makes(<<Call("apply", This.apply, e, s)>>) /\ This.apply \notin L
                     => Windowed(L, p)'
              /\ \A s \in Nat :
                   Makes(<<Call("apply", This.failed, Top.e, s)>>) /\ This.failed \notin L
                     => Windowed(L, p)'
              /\ Makes(<<Call("failed", This.failed, Top.e, 0)>>) => Windowed(L, p)'
  <2>1. p \notin misused' /\ context'[p] # "open" /\ ~GoesOn(L, stack[1])
    BY <1>7, <1>11
  <2>2. Makes(<<>>) => Windowed(L, p)'
    BY <1>8, <2>1
  <2>3. ASSUME NEW f \in {"apply", "failed"}, NEW q \in {This.apply, This.failed},
               NEW e \in SUBSET Features, NEW s \in Nat
        PROVE  Makes(<<Call(f, q, e, s)>>) /\ (f = "failed" \/ q \notin L) => Windowed(L, p)'
    BY <1>9, <2>1
  <2> QED BY <1>1, <1>z, <2>1, <2>2, <2>3, Zenon
<1>12. CASE CopyApply
  <2>1. /\ This.kind = "copy" /\ Makes(<<Call("apply", This.apply, Top.e, 0)>>)
        /\ context' = context /\ misused' = misused
    BY <1>12, Zenon DEF CopyApply, Calls, This, Apply, data
  <2> QED BY <1>1, <1>2, <1>5, <1>11, <1>z, <2>1
<1>13. CASE PrintApply
  <2>1. /\ This.kind = "print" /\ Makes(<<Call("apply", This.apply, Top.e, Top.s)>>)
        /\ Top.f = "apply" /\ context' = context /\ misused' = misused
    BY <1>13, Zenon DEF PrintApply, PrintState, Calls, This, Apply, data
  <2>2. CASE Top.p \in L
    BY <1>3, <1>4, <1>7, <1>10, <2>1, <2>2
  <2>3. CASE Top.p \notin L
    BY <1>1, <1>5, <1>11, <2>1, <2>3
  <2> QED BY <2>2, <2>3
<1>14. CASE ResponseApply
  <2>1. /\ This.kind = "response" /\ Makes(<<Call("apply", This.apply, Top.e, Top.s)>>)
        /\ Top.f = "apply" /\ context' = context /\ misused' = misused
    BY <1>14, Zenon DEF ResponseApply, Calls, This, Apply, data
  <2>2. CASE Top.p \in L
    BY <1>3, <1>4, <1>7, <1>10, <2>1, <2>2
  <2>3. CASE Top.p \notin L
    BY <1>1, <1>5, <1>11, <2>1, <2>3
  <2> QED BY <2>2, <2>3
<1>15. CASE KeyApply \/ ValApply
  <2>1. /\ This.kind \in {"key", "val"} /\ context' = context /\ misused' = misused
        /\ Makes(<<>>) \/ Makes(<<Call("apply", This.apply, Top.e, 0)>>)
    BY <1>15, Zenon DEF KeyApply, ValApply, Calls, This, Apply, data
  <2> QED BY <1>1, <1>2, <1>5, <1>11, <1>z, <2>1
<1>16. CASE ReactApply
  <2>1. /\ This.kind = "react" /\ context' = context /\ misused' = misused
        /\ \/ Makes(<<>>) \/ Makes(<<Call("apply", This.apply, Top.e, 1)>>)
           \/ Makes(<<Call("failed", This.failed, Top.e, 0)>>)
    BY <1>16, Zenon DEF ReactApply, Calls, This, Apply, data
  <2> QED BY <1>1, <1>2, <1>5, <1>11, <1>z, <2>1
<1>17. CASE TimerApply
  <2>1. This.kind = "timer" /\ context' = context /\ misused' = misused
    BY <1>17, Zenon DEF TimerApply, Calls, This
  <2>2. /\ This.apply \in L => This.flag = <<0, 1, 2>>
        /\ ~Leading(L, stack[1]) /\ context'[p] # "open" /\ p \notin misused'
    BY <1>2, <1>5, <1>7, <2>1
  <2> QED BY <1>17, <2>2, WindowedTimer
<1>18. CASE TimerFailed
  <2>1. Top.f = "failed" /\ context' = context /\ misused' = misused /\ Makes(<<>>)
    BY <1>18, Zenon DEF TimerFailed, Calls
  <2> QED BY <1>11, <2>1
<1>19. CASE CreateApply
  <2>1. /\ This.kind = "create" /\ context' = context /\ misused' = misused
        /\ \E e \in Logs : Makes(<<Call("apply", This.apply, e, 0)>>)
    BY <1>19, Zenon DEF CreateApply, Calls, This, data
  <2> QED BY <1>2, <1>5, <1>11, <1>z, <2>1
<1>20. CASE ResponseFailed
  <2>1. /\ This.kind = "response" /\ Top.f = "failed"
        /\ context' = context /\ misused' = misused
        /\ Makes(<<Call("apply", This.failed, Top.e, Top.s)>>)
    BY <1>20, Zenon DEF ResponseFailed, Calls, This, data
  <2> QED BY <1>1, <1>6, <1>11, <2>1
<1>21. CASE CloseApply \/ StreamApply \/ OtherFailed
  <2>1. /\ This.kind \in {"close", "stream"} \/ Top.f = "failed"
        /\ context' = context /\ misused' = misused /\ (Makes(<<>>) \/ MayCrash)
    BY <1>21, Zenon DEF CloseApply, StreamApply, OtherFailed, Calls, This, data
  <2>2. Makes(<<>>)
    BY <2>1, Zenon DEF MayCrash, Crash
  <2> QED BY <1>2, <1>11, <2>1, <2>2
<1>c. context \in [Plugins -> {"none", "open", "closed"}]
  BY DEF TypeOK
<1>22. CASE StaticsStart
  <2>1. /\ This.kind = "statics" /\ Top.f = "apply" /\ Top.s = 0 /\ Makes(<<>>)
        /\ IF context[Top.p] = "open" THEN misused' = misused \cup {Top.p}
           ELSE misused' = misused
        /\ context' = [context EXCEPT ![Top.p] = "open"]
    BY <1>22 DEF StaticsStart, Calls, This, Misuse
  <2>2. CASE Top.p = p
    <3>1. context[p] # "open" /\ context'[p] = "open" /\ p \notin misused'
      BY <1>7, <1>c, <2>1, <2>2
    <3> QED BY <1>4, <1>7, <1>8, <2>1, <2>2, <3>1
  <2>3. CASE Top.p # p
    <3>1. context'[p] = context[p] /\ p \notin misused' /\ Top.p \notin L
      BY <1>3, <1>7, <1>c, <2>1, <2>3
    <3> QED BY <1>7, <1>8, <2>1, <3>1
  <2> QED BY <2>2, <2>3
<1>23. CASE StaticsLog
  <2>1. /\ This.kind = "statics" /\ Top.f = "apply" /\ Top.s = 1 /\ Makes(<<>>)
        /\ IF context[Top.p] # "open" THEN misused' = misused \cup {Top.p}
           ELSE misused' = misused
        /\ context' = context
    BY <1>23 DEF StaticsLog, Calls, This, Misuse, FromMalloc
  <2>2. CASE Top.p = p
    <3>1. context[p] = "open" /\ p \notin misused' /\ GoesOn(L, stack[1])
      BY <1>4, <1>7, <2>1, <2>2
    <3> QED BY <1>8, <2>1, <3>1
  <2>3. CASE Top.p # p
    <3>1. p \notin misused' /\ Top.p \notin L
      BY <1>3, <1>7, <2>1, <2>3
    <3> QED BY <1>7, <1>8, <2>1, <3>1
  <2> QED BY <2>2, <2>3
<1>24. CASE StaticsFinish
  <2>1. /\ This.kind = "statics" /\ Top.f = "apply" /\ Top.s = 2
        /\ IF context[Top.p] # "open" THEN misused' = misused \cup {Top.p}
           ELSE misused' = misused
        /\ context' = [context EXCEPT ![Top.p] = "closed"]
    BY <1>24 DEF StaticsFinish, Calls, This, Misuse
  <2>2. \/ \E d \in Data : Makes(<<Call("apply", This.apply, Top.e, d)>>)
        \/ Makes(<<Call("apply", This.failed, Top.e, 0)>>)
    BY <1>24 DEF StaticsFinish, Apply, FromMalloc
  <2>3. This.apply \notin L /\ This.failed \notin L
    BY <1>5, <1>6, <2>1
  <2>4. p \notin misused' /\ context'[p] # "open" /\ ~GoesOn(L, stack[1])
    <3>1. CASE Top.p = p
      BY <1>4, <1>7, <1>c, <2>1, <3>1
    <3>2. CASE Top.p # p
      BY <1>3, <1>7, <1>c, <2>1, <3>2
    <3> QED BY <3>1, <3>2
  <2>5. \A s \in Nat : Makes(<<Call("apply", This.apply, Top.e, s)>>) => Windowed(L, p)'
    BY <1>1, <1>9, <2>3, <2>4
  <2>6. \A s \in Nat : Makes(<<Call("apply", This.failed, Top.e, s)>>) => Windowed(L, p)'
    BY <1>1, <1>9, <2>3, <2>4
  <2> QED BY <1>z, <2>2, <2>5, <2>6
<1>25. CASE StaticsError
  <2>1. /\ This.kind = "statics" /\ Top.s \notin {0, 1, 2}
        /\ context' = context /\ misused' = misused
        /\ Makes(<<Call("apply", This.failed, Top.e, 0)>>)
    BY <1>25, Zenon DEF StaticsError, Calls, This, data
  <2>2. ~(Top.f = "apply" /\ Top.p \in L) /\ This.failed \notin L
    BY <1>6, <1>7, <2>1
  <2> QED BY <1>11, <1>z, <2>1, <2>2
<1> QED BY <1>12, <1>13, <1>14, <1>15, <1>16, <1>17, <1>18, <1>19, <1>20, <1>21, <1>22,
           <1>23, <1>24, <1>25 DEF HandsOn

LEMMA HandsOnBracketing ==
  ASSUME TypeOK, Linked, Grouped, Bracketing, HandsOn
  PROVE  Bracketing'
<1>1. plugin' = plugin /\ script' = script
  BY HandsOnGraph
<1>2. SamePlugins /\ phase # "build"
  BY HandsOnQuiet DEF Quiet
<1>3. ASSUME script.api = "c", NEW p \in Plugins, NEW L \in SUBSET Plugins,
             plugin[p].kind = "statics", Leads(L, p)'
      PROVE  p \notin misused' /\ (phase' # "crashed" => Windowed(L, p)')
  <2>1. Leads(L, p)
    BY <1>2, <1>3, SameLeads
  <2>2. Windowed(L, p)
    BY <1>2, <1>3, <2>1, HandsOnTop DEF Bracketing
  <2>3. CASE phase' # "crashed"
    BY <1>3, <2>1, <2>2, <2>3, HandsOnWindowed DEF Windowed
  <2>4. CASE phase' = "crashed"
    <3>1. misused' = misused
      BY <1>3, <2>4, HandsOnCalls, HandsOnTop
    <3> QED BY <2>2, <2>4, <3>1 DEF Windowed
  <2> QED BY <2>3, <2>4
<1> QED BY <1>1, <1>3 DEF Bracketing

-----------------------------------------------------------------------------
(* A call returns *)

\* f of p is called behind the first call.
PendingBehind(f, p) == \E i \in 2 .. Len(stack) : stack[i].f = f /\ stack[i].p = p

LEMMA PendingTop ==
  ASSUME TypeOK, stack # <<>>, NEW f, NEW p
  PROVE  Pending(f, p) <=> (Top.f = f /\ Top.p = p) \/ PendingBehind(f, p)
<1>1. Top = stack[1] /\ Len(stack) \in Nat \ {0} /\ DOMAIN stack = 1 .. Len(stack)
  BY TopType DEF TypeOK
<1>2. \A i \in 1 .. Len(stack) : i = 1 \/ i \in 2 .. Len(stack)
  BY <1>1
<1>3. 1 \in 1 .. Len(stack) /\ \A i \in 2 .. Len(stack) : i \in 1 .. Len(stack)
  BY <1>1
<1> QED BY <1>1, <1>2, <1>3 DEF Pending, PendingBehind

LEMMA Returns ==
  ASSUME TypeOK, stack # <<>>, Makes(<<>>)
  PROVE  /\ stack' \in Seq(Frame) /\ Pushes(<<>>)
         /\ \A i \in DOMAIN stack' : /\ i + 1 \in DOMAIN stack /\ i + 1 \in 2 .. Len(stack)
                                     /\ stack'[i] = stack[i + 1]
         /\ \A i \in 2 .. Len(stack) : i - 1 \in DOMAIN stack' /\ stack'[i - 1] = stack[i]
         /\ \A i \in DOMAIN stack' : i \in Nat \ {0}
         /\ \A f, p : Pending(f, p)' <=> PendingBehind(f, p)
<1>1. Pushes(<<>>)
  <2>1. <<>> \in Seq(Frame)
    OBVIOUS
  <2> QED BY <2>1, MakesPushes
<1>2. Len(stack) \in Nat \ {0} /\ DOMAIN stack = 1 .. Len(stack)
  BY TopType DEF TypeOK
<1>3. PICK m \in Nat : m = Len(stack) - 1 /\ Len(stack) = m + 1
  <2>1. \A l \in Nat \ {0} : l - 1 \in Nat /\ l = l - 1 + 1
    OBVIOUS
  <2> QED BY <1>2, <2>1
<1>4. stack' \in Seq(Frame) /\ DOMAIN stack' = 1 .. m
  <2>1. stack' \in Seq(Frame) /\ Len(stack') = Len(<<>>) + Len(stack) - 1
    BY <1>1, Zenon DEF Pushes
  <2>2. Len(<<>>) + Len(stack) - 1 = m
    BY <1>3
  <2> QED BY <2>1, <2>2
<1>5. \A i \in 1 .. m : i + 1 \in DOMAIN stack /\ i + 1 \in 2 .. Len(stack) /\ stack'[i] = stack[i + 1]
  <2>1. \A i \in 1 .. m : stack'[i] = stack[i - 0 + 1] /\ i - 0 + 1 = i + 1
    BY <1>1, <1>3, <1>4 DEF Pushes
  <2> QED BY <1>2, <1>3, <2>1
<1>6. ASSUME NEW f, NEW p PROVE Pending(f, p)' <=> PendingBehind(f, p)
  <2>1. ASSUME Pending(f, p)' PROVE PendingBehind(f, p)
    BY <1>4, <1>5, <2>1 DEF Pending, PendingBehind
  <2>2. ASSUME NEW i \in 2 .. Len(stack), stack[i].f = f, stack[i].p = p PROVE Pending(f, p)'
    <3>1. i - 1 \in 1 .. m /\ i - 1 + 1 = i
      BY <1>3
    <3> QED BY <1>4, <1>5, <2>2, <3>1 DEF Pending
  <2> QED BY <2>1, <2>2 DEF PendingBehind
<1>7. ASSUME NEW i \in 2 .. Len(stack)
      PROVE  i - 1 \in DOMAIN stack' /\ stack'[i - 1] = stack[i]
  <2>1. i - 1 \in 1 .. m /\ i - 1 + 1 = i
    BY <1>3
  <2> QED BY <1>4, <1>5, <2>1
<1> QED BY <1>1, <1>4, <1>5, <1>6, <1>7

\* Three calls take the place of the first.
LEMMA CallsThree ==
  ASSUME TypeOK, stack # <<>>, NEW a \in Frame, NEW b \in Frame, NEW c \in Frame,
         Makes(<<a, b, c>>)
  PROVE  /\ stack' \in Seq(Frame)
         /\ stack'[1] = a /\ stack'[2] = b /\ stack'[3] = c
         /\ 1 \in DOMAIN stack' /\ 2 \in DOMAIN stack' /\ 3 \in DOMAIN stack'
         /\ \A i \in DOMAIN stack' :
              \/ i \in {1, 2, 3}
              \/ /\ i - 2 \in DOMAIN stack /\ i - 2 \in 2 .. Len(stack)
                 /\ stack'[i] = stack[i - 2]
         /\ \A i \in 2 .. Len(stack) : i + 2 \in DOMAIN stack' /\ stack'[i + 2] = stack[i]
         /\ \A i \in DOMAIN stack' : i \in Nat \ {0}
         /\ \A f, p : Pending(f, p)' <=> \/ a.f = f /\ a.p = p
                                         \/ b.f = f /\ b.p = p
                                         \/ c.f = f /\ c.p = p
                                         \/ PendingBehind(f, p)
<1>1. PICK cs \in Seq(Frame) : /\ cs = <<a, b, c>> /\ Len(cs) = 3
                               /\ cs[1] = a /\ cs[2] = b /\ cs[3] = c
  <2>1. /\ <<a, b, c>> \in Seq(Frame) /\ Len(<<a, b, c>>) = 3
        /\ <<a, b, c>>[1] = a /\ <<a, b, c>>[2] = b /\ <<a, b, c>>[3] = c
    OBVIOUS
  <2> QED BY <2>1, Zenon
<1>2. Pushes(cs)
  <2>1. Makes(cs)
    BY <1>1, Zenon
  <2> QED BY <2>1, MakesPushes
<1>3. Len(stack) \in Nat \ {0} /\ DOMAIN stack = 1 .. Len(stack)
  BY TopType DEF TypeOK
<1>4. PICK m \in Nat : m = Len(stack) - 1 /\ Len(stack) = m + 1
  <2>1. \A l \in Nat \ {0} : l - 1 \in Nat /\ l = l - 1 + 1
    OBVIOUS
  <2> QED BY <1>3, <2>1
<1>5. stack' \in Seq(Frame) /\ DOMAIN stack' = 1 .. m + 3
  <2>1. stack' \in Seq(Frame) /\ Len(stack') = Len(cs) + Len(stack) - 1
    BY <1>2, Zenon DEF Pushes
  <2>2. Len(cs) + Len(stack) - 1 = m + 3
    BY <1>1, <1>4
  <2> QED BY <2>1, <2>2
<1>6. stack'[1] = a /\ stack'[2] = b /\ stack'[3] = c
  <2>1. \A i \in 1 .. 3 : stack'[i] = cs[i]
    BY <1>1, <1>2 DEF Pushes
  <2> QED BY <1>1, <2>1
<1>7. \A i \in 4 .. m + 3 : /\ i - 2 \in DOMAIN stack /\ i - 2 \in 2 .. Len(stack)
                            /\ stack'[i] = stack[i - 2]
  <2>1. \A i \in 4 .. m + 3 : stack'[i] = stack[i - 3 + 1] /\ i - 3 + 1 = i - 2
    <3>1. Len(stack') = m + 3
      BY <1>5
    <3> QED BY <1>1, <1>2, <3>1 DEF Pushes
  <2> QED BY <1>3, <1>4, <2>1
<1>8. \A i \in 1 .. m + 3 : i \in {1, 2, 3} \/ i \in 4 .. m + 3
  OBVIOUS
<1>9. ASSUME NEW f, NEW p
      PROVE  Pending(f, p)' <=> \/ a.f = f /\ a.p = p
                                \/ b.f = f /\ b.p = p
                                \/ c.f = f /\ c.p = p
                                \/ PendingBehind(f, p)
  <2>1. ASSUME NEW i \in 1 .. m + 3, stack'[i].f = f, stack'[i].p = p
        PROVE  \/ a.f = f /\ a.p = p
               \/ b.f = f /\ b.p = p
               \/ c.f = f /\ c.p = p
               \/ PendingBehind(f, p)
    BY <1>6, <1>7, <1>8, <2>1 DEF PendingBehind
  <2>2. ASSUME NEW i \in 2 .. Len(stack), stack[i].f = f, stack[i].p = p PROVE Pending(f, p)'
    <3>1. i + 2 \in 4 .. m + 3 /\ i + 2 - 2 = i /\ i + 2 \in 1 .. m + 3
      BY <1>4
    <3>2. stack'[i + 2] = stack[i]
      BY <1>7, <3>1
    <3>3. i + 2 \in DOMAIN stack'
      BY <1>5, <3>1
    <3> QED BY <2>2, <3>2, <3>3 DEF Pending
  <2>3. ASSUME NEW i \in {1, 2, 3}, stack'[i].f = f, stack'[i].p = p PROVE Pending(f, p)'
    <3>1. i \in 1 .. m + 3
      OBVIOUS
    <3> QED BY <1>5, <2>3, <3>1 DEF Pending
  <2> QED BY <1>5, <1>6, <2>1, <2>2, <2>3 DEF Pending, PendingBehind
<1>10. ASSUME NEW i \in 2 .. Len(stack)
       PROVE  i + 2 \in DOMAIN stack' /\ stack'[i + 2] = stack[i]
  <2>1. i + 2 \in 4 .. m + 3 /\ i + 2 - 2 = i /\ i + 2 \in 1 .. m + 3
    BY <1>4
  <2> QED BY <1>5, <1>7, <2>1
<1> QED BY <1>5, <1>6, <1>7, <1>8, <1>9, <1>10

LEMMA SameShared ==
  ASSUME SamePlugins
  PROVE  /\ Reachable' = Reachable
         /\ Shared' <=> Shared
<1>1. Reachable' = Reachable
  BY SameReachable DEF SamePlugins
<1>2. \A p \in Reachable, r \in Plugins :
        /\ Child(p, r)' <=> Child(p, r)
        /\ plugin'[p].apply = r <=> plugin[p].apply = r
        /\ plugin'[p].failed = r <=> plugin[p].failed = r
  BY ReachableLeast DEF SamePlugins, SameLinks
<1> QED BY <1>1, <1>2 DEF Shared

\* A root that is created, as all that hangs from it, hangs from nothing.
LEMMA RootNoParent ==
  ASSUME Ordered, \A x \in Reachable : plugin[x].inited, root \in Plugins, NEW x \in Reachable
  PROVE  ~Child(x, root)
<1> SUFFICES ASSUME Child(x, root) PROVE FALSE
  OBVIOUS
<1> DEFINE S == {root} \cup Below(root)
<1>1. /\ \A q \in Plugins : Child(root, q) => q \in Below(root)
      /\ \A y \in Below(root), q \in Plugins : Child(y, q) => q \in Below(root)
      /\ Below(root) \subseteq Plugins
  BY BelowLeast
<1>2. S \in SUBSET Plugins /\ root \in S /\ \A y \in S, q \in Plugins : Child(y, q) => q \in S
  BY <1>1
<1>3. x \in S
  <2> HIDE DEF S
  <2> QED BY <1>2, ClosedChild, ReachableLeast
<1>4. root \in Reachable
  BY ReachableLeast
<1> QED BY <1>1, <1>3, <1>4, NotBelow

\* Two calls of the same group.
Alike(f, g) == \/ f \in {"init", "created"} /\ g \in {"init", "created"}
               \/ f \in {"apply", "failed"} /\ g \in {"apply", "failed"}
               \/ f \in {"dispose", "free"} /\ g \in {"dispose", "free"}

LEMMA SameGrouped ==
  ASSUME Grouped, SamePlugins, phase' = phase, context' = context, misused' = misused,
         phase # "build", phase # "crashed",
         \A i \in DOMAIN stack' :
           /\ stack'[i].p \in Plugins => stack'[i].p \in Reachable
           /\ \E j \in DOMAIN stack : Alike(stack'[i].f, stack[j].f),
         phase = "run" => /\ stale' = stale
                          /\ \A p \in Plugins : plugin'[p].mem = plugin[p].mem
  PROVE  Grouped'
<1>1. Reachable' = Reachable
  BY SameShared
<1>2. (Handles => Handles') /\ (Creates => Creates') /\ (Disposes => Disposes')
  BY DEF Handles, Creates, Disposes, Alike
<1>3. phase' = "run" => \/ Handles'
                        \/ Creates' /\ misused' = {} /\ \A p \in Plugins : context'[p] = "none"
  BY <1>2 DEF Grouped
<1>4. phase' = "dispose" => Disposes'
  BY <1>2 DEF Grouped
<1>5. phase' \in {"build", "run"} => ~stale' /\ \A p \in Plugins : plugin'[p].mem # "freed"
  BY DEF Grouped
<1> QED BY <1>1, <1>3, <1>4, <1>5 DEF Grouped

\* A first call that returns leaves the others.
LEMMA PopGrouped ==
  ASSUME TypeOK, Grouped, SamePlugins, phase' = phase, context' = context, misused' = misused,
         phase # "build", phase # "crashed", stack # <<>>, Makes(<<>>),
         phase = "run" => /\ stale' = stale
                          /\ \A p \in Plugins : plugin'[p].mem = plugin[p].mem
  PROVE  Grouped'
<1>1. \A j \in DOMAIN stack : stack[j].f \in Functions
  <2>1. stack \in Seq(Frame)
    BY DEF TypeOK
  <2>2. \A j \in DOMAIN stack : stack[j] \in Frame
    BY <2>1
  <2> QED BY <2>2 DEF Frame
<1>2. \A f \in Functions : Alike(f, f)
  BY DEF Functions, Alike
<1>3. ASSUME NEW i \in DOMAIN stack'
      PROVE  /\ stack'[i].p \in Plugins => stack'[i].p \in Reachable
             /\ \E j \in DOMAIN stack : Alike(stack'[i].f, stack[j].f)
  <2>1. PICK j \in DOMAIN stack : stack'[i] = stack[j]
    BY Returns
  <2> QED BY <1>1, <1>2, <2>1 DEF Grouped
<1> QED BY <1>3, SameGrouped

LEMMA PopWaiting ==
  ASSUME TypeOK, Waiting, SameLinks, stack # <<>>, Makes(<<>>),
         \A p \in Plugins : plugin[p].inited => plugin'[p].inited,
         Top.p \in Plugins => plugin'[Top.p].inited
  PROVE  Waiting'
<1>1. /\ Top = stack[1] /\ DOMAIN stack = 1 .. Len(stack) /\ Len(stack) \in Nat
      /\ \A i \in DOMAIN stack' : /\ i \in Nat \ {0} /\ i + 1 \in DOMAIN stack
                                  /\ stack'[i] = stack[i + 1]
      /\ \A i \in 2 .. Len(stack) : i - 1 \in DOMAIN stack' /\ stack'[i - 1] = stack[i]
  BY TopType, Returns DEF TypeOK
<1>2. ASSUME NEW p \in Plugins, NEW q \in Plugins, NEW j \in DOMAIN stack',
             stack'[j].f = "created", stack'[j].p = p, Child(p, q)'
      PROVE  plugin'[q].inited \/ \E i \in DOMAIN stack' : i < j /\ stack'[i].p = q
  <2>1. Child(p, q)
    BY <1>2 DEF SameLinks
  <2>2. plugin[q].inited \/ \E i \in DOMAIN stack : i < j + 1 /\ stack[i].p = q
    BY <1>1, <1>2, <2>1 DEF Waiting
  <2>3. ASSUME NEW i \in DOMAIN stack, i < j + 1, stack[i].p = q, i # 1
        PROVE  i - 1 \in DOMAIN stack' /\ i - 1 < j /\ stack'[i - 1].p = q
    <3>1. i \in 2 .. Len(stack) /\ j \in Nat
      BY <1>1, <2>3
    <3> QED BY <1>1, <2>3, <3>1
  <2> QED BY <1>1, <2>2, <2>3
<1>3. ASSUME NEW i \in DOMAIN stack', NEW j \in DOMAIN stack',
             stack'[i].f = "created", stack'[j].f = "created", stack'[i].p = stack'[j].p
      PROVE  i = j
  <2>1. i + 1 = j + 1 /\ i \in Nat /\ j \in Nat
    BY <1>1, <1>3 DEF Waiting
  <2> QED BY <2>1
<1> QED BY <1>2, <1>3 DEF Waiting

LEMMA PopDisposing ==
  ASSUME TypeOK, Disposing, stack # <<>>, Makes(<<>>), phase = "dispose", ~Shared,
         NEW i \in DOMAIN stack', NEW j \in DOMAIN stack',
         stack'[i].f = "dispose", stack'[j].f = "dispose",
         stack'[i].p \in Plugins, stack'[i].p = stack'[j].p
  PROVE  i = j
<1>1. /\ i + 1 \in DOMAIN stack /\ j + 1 \in DOMAIN stack
      /\ stack'[i] = stack[i + 1] /\ stack'[j] = stack[j + 1]
      /\ i \in Nat /\ j \in Nat
  BY Returns
<1>2. i + 1 = j + 1
  BY <1>1 DEF Disposing
<1> QED BY <1>1, <1>2

\* Where no call leads to a Statics, its context is not open.
LEMMA NothingLeads ==
  ASSUME NEW L, NEW p, p \notin misused', context'[p] # "open",
         \A i \in DOMAIN stack' : ~Leading(L, stack'[i])
  PROVE  Windowed(L, p)'
BY DEF Windowed, GoesOn, FollowsAt, Follows, Leading

LEMMA BracketingBetween ==
  ASSUME Bracketing, SamePlugins, phase # "build", phase # "crashed", script' = script,
         misused' = misused, context' = context,
         \A i \in DOMAIN stack : stack[i].f # "apply",
         \A i \in DOMAIN stack' : stack'[i].f # "apply" \/ stack'[i].p = root
  PROVE  Bracketing'
<1> SUFFICES ASSUME script.api = "c", NEW p \in Plugins, NEW L \in SUBSET Plugins,
                    plugin[p].kind = "statics", Leads(L, p)'
             PROVE  Windowed(L, p)'
  BY DEF Bracketing, SamePlugins, Windowed
<1>1. Leads(L, p)
  BY SameLeads
<1>2. Windowed(L, p)
  BY <1>1 DEF Bracketing
<1>3. p \notin misused' /\ context'[p] # "open"
  BY <1>2 DEF Windowed, FollowsAt, Follows, Leading
<1>4. \A i \in DOMAIN stack' : ~Leading(L, stack'[i])
  BY <1>1 DEF Leads, Leading
<1> QED BY <1>3, <1>4, NothingLeads

-----------------------------------------------------------------------------
(* The steps *)

LEMMA NopPluginStep ==
  ASSUME IInv, NopPlugin
  PROVE  IInv'
<1>1. TypeOK /\ Linked /\ Grouped /\ Creating /\ Bracketing /\ Disposing
  BY DEF IInv
<1>2. /\ phase # "crashed" /\ stack # <<>> /\ Top.p = Nop /\ Makes(<<>>)
      /\ script' = script /\ plugin' = plugin /\ root' = root /\ made' = made
      /\ window' = window /\ context' = context /\ bev' = bev /\ misused' = misused
      /\ phase' = phase /\ count' = count /\ stale' = stale
  BY Zenon DEF NopPlugin, graph, data
<1>3. phase # "build"
  BY <1>1, <1>2 DEF Linked
<1>4. /\ SamePlugins /\ Quiet /\ Reachable' = Reachable /\ (Shared' <=> Shared)
  BY <1>2, <1>3, Unchanged DEF Quiet
<1>5. TypeOK'
  BY <1>1, <1>2, Returns DEF TypeOK
<1>6. Linked'
  BY <1>1, <1>4, QuietLinked
<1>7. Grouped'
  BY <1>1, <1>2, <1>3, <1>4, PopGrouped
<1>8. \A f, p : p \in Plugins => (Pending(f, p)' <=> Pending(f, p))
  BY <1>1, <1>2, PendingTop, Returns, PluginsAssumption
<1>9. Creating'
  <2>1. \A p, q \in Plugins : Child(p, q)' <=> Child(p, q)
    BY <1>4 DEF SamePlugins, SameLinks
  <2>2. \A p \in Plugins :
          /\ made'[p] <= 1
          /\ plugin'[p].inited \/ Pending("created", p)' => made'[p] = 1
          /\ ~(plugin'[p].inited /\ Pending("created", p)')
          /\ phase' = "run" /\ made'[p] = 1 => plugin'[p].inited \/ Pending("created", p)'
    BY <1>1, <1>2, <1>8 DEF Creating
  <2>3. \A p, q \in Plugins : plugin'[p].inited /\ Child(p, q)' => plugin'[q].inited
    BY <1>1, <1>2, <2>1 DEF Creating
  <2>4. /\ phase' = "run" => \/ plugin'[root'].inited
                            \/ Pending("init", root)' \/ Pending("created", root)'
        /\ phase' = "dispose" => plugin'[root'].inited
    <3>1. root \in Plugins
      BY <1>1, <1>3 DEF Linked
    <3> QED BY <1>1, <1>2, <1>8, <3>1 DEF Creating
  <2>5. Ordered'
    BY <1>1, <1>2, <2>1 DEF Creating, Ordered
  <2>6. Waiting'
    BY <1>1, <1>2, <1>4, PopWaiting, PluginsAssumption DEF Creating, SamePlugins
  <2> QED BY <2>2, <2>3, <2>4, <2>5, <2>6 DEF Creating

<1>10. Bracketing'
  <2> SUFFICES ASSUME script.api = "c", NEW p \in Plugins, NEW L \in SUBSET Plugins,
                      plugin[p].kind = "statics", Leads(L, p)'
               PROVE  Windowed(L, p)'
    BY <1>2 DEF Bracketing, Windowed
  <2>1. Leads(L, p)
    BY <1>4, SameLeads
  <2>2. Windowed(L, p)
    BY <1>1, <1>2, <1>3, <2>1 DEF Bracketing
  <2>3. Pushes(<<>>) /\ Top = stack[1]
    BY <1>1, <1>2, Returns, TopType
  <2>4. ~Leading(L, stack[1])
    BY <1>2, <2>3, PluginsAssumption DEF Leading
  <2>5. p \notin misused' /\ (context'[p] = "open" <=> GoesOn(L, stack[1]))
    BY <1>2, <2>2, <2>4 DEF Windowed, FollowsAt, Follows, GoesOn
  <2> QED BY <1>1, <2>2, <2>3, <2>5, WindowedPop
<1>11. Disposing'
  <2>1. stale' => Shared'
    BY <1>1, <1>2, <1>4 DEF Disposing
  <2>2. \A p \in Plugins : Met(p)' <=> Met(p)
    BY <1>2, <1>8 DEF Met
  <2>3. \A p, q \in Plugins : Child(p, q)' <=> Child(p, q)
    BY <1>4 DEF SamePlugins, SameLinks
  <2>4. root \in Plugins /\ Reachable \subseteq Plugins
    BY <1>1, <1>3, ReachableLeast DEF Linked
  <2>5. ASSUME phase = "dispose"
        PROVE  /\ \A p \in Plugins : Met(p)' => p \in Reachable'
               /\ Met(root)' \/ Pending("dispose", root)'
               /\ \A p, q \in Plugins :
                    Met(p)' /\ Child(p, q)' => Met(q)' \/ Pending("dispose", q)'
    <3>1. Met(root)' \/ Pending("dispose", root)'
      BY <1>1, <1>2, <1>8, <2>2, <2>4, <2>5 DEF Disposing, Met
    <3> QED BY <1>1, <1>4, <1>8, <2>2, <2>3, <2>5, <3>1 DEF Disposing
  <2>6. ASSUME phase = "dispose", ~Shared
        PROVE  /\ \A i, j \in DOMAIN stack' :
                    stack'[i].f = "dispose" /\ stack'[j].f = "dispose"
                      /\ stack'[i].p \in Plugins /\ stack'[i].p = stack'[j].p => i = j
               /\ \A p \in Plugins : Pending("dispose", p)' => ~Met(p)'
               /\ \A p \in Plugins : Met(p)' \/ Pending("dispose", p)' =>
                    p = root \/ \E y \in Reachable : Child(y, p)' /\ Met(y)'
    <3>1. \A i, j \in DOMAIN stack' :
            stack'[i].f = "dispose" /\ stack'[j].f = "dispose"
              /\ stack'[i].p \in Plugins /\ stack'[i].p = stack'[j].p => i = j
      BY <1>1, <1>2, <2>6, PopDisposing
    <3>2. \A p \in Plugins : Pending("dispose", p)' => ~Met(p)'
      BY <1>1, <1>8, <2>2, <2>6 DEF Disposing
    <3>3. \A p \in Plugins : Met(p)' \/ Pending("dispose", p)' =>
            p = root \/ \E y \in Reachable : Child(y, p)' /\ Met(y)'
      <4>1. \A p \in Plugins : Met(p) \/ Pending("dispose", p) =>
              p = root \/ \E y \in Reachable : Child(y, p) /\ Met(y)
        BY <1>1, <2>6 DEF Disposing
      <4> QED BY <1>8, <2>2, <2>3, <2>4, <4>1
    <3> QED BY <3>1, <3>2, <3>3
  <2> QED BY <1>2, <1>4, <2>1, <2>5, <2>6 DEF Disposing
<1> QED BY <1>5, <1>6, <1>7, <1>9, <1>10, <1>11 DEF IInv

LEMMA PoolExecStep ==
  ASSUME IInv, PoolExec
  PROVE  IInv'
<1>1. TypeOK /\ Linked /\ Grouped /\ Creating /\ Bracketing /\ Disposing
  BY DEF IInv
<1>2. /\ phase = "run" /\ stack = <<>>
      /\ script' = script /\ plugin' = plugin /\ root' = root /\ made' = made
      /\ window' = window /\ context' = context /\ bev' = bev /\ misused' = misused
      /\ phase' = phase /\ count' = count + 1 /\ stale' = stale
  BY Zenon DEF PoolExec, graph, data
<1>3. PICK c \in Frame : stack' = <<c>> /\ c.f = "apply" /\ c.p = root
  <2>1. PICK e \in Logs : stack' = <<Call("apply", root, e, 0)>>
    BY DEF PoolExec
  <2>2. "apply" \in Functions /\ root \in Links /\ e \in SUBSET Features /\ 0 \in Nat
    BY <1>1, LogsAssumption DEF Functions, TypeOK, Links
  <2> QED BY <2>1, <2>2, CallType
<1>4. stack' \in Seq(Frame) /\ DOMAIN stack' = {1} /\ stack'[1] = c
  BY <1>3
<1>5. /\ SamePlugins /\ Quiet /\ Reachable' = Reachable /\ (Shared' <=> Shared)
  BY <1>2, Unchanged DEF Quiet
<1>6. TypeOK'
  BY <1>1, <1>2, <1>4 DEF TypeOK
<1>7. Linked'
  BY <1>1, <1>5, QuietLinked
<1>8. Grouped'
  <2>1. root \in Reachable
    BY <1>1, <1>2, ReachableLeast DEF Linked
  <2> QED BY <1>1, <1>2, <1>3, <1>4, <1>5, <2>1 DEF Grouped, Handles
<1>9. Creating'
  <2>1. /\ \A i \in DOMAIN stack : stack[i].f \notin {"init", "created"}
        /\ \A i \in DOMAIN stack' : stack'[i].f \notin {"init", "created"}
    BY <1>2, <1>3, <1>4
  <2> QED BY <1>1, <1>2, <1>5, <2>1, NoCreation DEF SamePlugins, Linked
<1>10. Bracketing'
  <2>1. /\ \A i \in DOMAIN stack : stack[i].f # "apply"
        /\ \A i \in DOMAIN stack' : stack'[i].f # "apply" \/ stack'[i].p = root
    BY <1>2, <1>3, <1>4
  <2> QED BY <1>1, <1>2, <1>5, <2>1, BracketingBetween
<1>11. Disposing'
  BY <1>1, <1>2, <1>5 DEF Disposing
<1> QED BY <1>6, <1>7, <1>8, <1>9, <1>10, <1>11 DEF IInv

LEMMA DisposalStep ==
  ASSUME IInv, Disposal
  PROVE  IInv'
<1>1. TypeOK /\ Linked /\ Grouped /\ Creating /\ Bracketing /\ Disposing
  BY DEF IInv
<1>2. /\ phase = "run" /\ stack = <<>>
      /\ script' = script /\ plugin' = plugin /\ root' = root /\ made' = made
      /\ window' = window /\ context' = context /\ bev' = bev /\ misused' = misused
      /\ phase' = "dispose" /\ count' = count /\ stale' = stale
      /\ stack' = <<Dispose_(root)>>
  BY Zenon DEF Disposal, graph, data
<1>3. PICK c \in Frame : stack' = <<c>> /\ c.f = "dispose" /\ c.p = root
  <2>1. "dispose" \in Functions /\ root \in Links /\ {} \in SUBSET Features /\ 0 \in Nat
    BY <1>1 DEF Functions, TypeOK, Links
  <2> QED BY <1>2, <2>1, CallType DEF Dispose_
<1>4. stack' \in Seq(Frame) /\ DOMAIN stack' = {1} /\ stack'[1] = c
  BY <1>3
<1>5. /\ SamePlugins /\ Quiet /\ Reachable' = Reachable /\ (Shared' <=> Shared)
  BY <1>2, Unchanged DEF Quiet
<1>6. TypeOK'
  BY <1>1, <1>2, <1>4 DEF TypeOK
<1>7. Linked'
  BY <1>1, <1>5, QuietLinked
<1>8. root \in Plugins /\ root \in Reachable
  BY <1>1, <1>2, ReachableLeast DEF Linked
<1>9. Grouped'
  BY <1>1, <1>2, <1>3, <1>4, <1>5, <1>8 DEF Grouped, Disposes
<1>10. Creating'
  <2>1. /\ \A i \in DOMAIN stack : stack[i].f \notin {"init", "created"}
        /\ \A i \in DOMAIN stack' : stack'[i].f \notin {"init", "created"}
    BY <1>2, <1>3, <1>4
  <2> QED BY <1>1, <1>2, <1>5, <2>1, NoCreation DEF SamePlugins, Linked
<1>11. Bracketing'
  <2>1. /\ \A i \in DOMAIN stack : stack[i].f # "apply"
        /\ \A i \in DOMAIN stack' : stack'[i].f # "apply" \/ stack'[i].p = root
    BY <1>2, <1>3, <1>4
  <2> QED BY <1>1, <1>2, <1>5, <2>1, BracketingBetween
<1>12. Disposing'
  <2>1. \A f, p : Pending(f, p)' <=> f = "dispose" /\ p = root
    BY <1>3, <1>4 DEF Pending
  <2>2. \A p \in Plugins : ~Met(p)'
    BY <1>1, <1>2, <2>1 DEF Grouped, Met
  <2>3. stale' => Shared'
    BY <1>1, <1>2, <1>5 DEF Disposing
  <2>4. Pending("dispose", root)'
    BY <1>2, <2>1
  <2>5. \A i, j \in DOMAIN stack' : i = j
    BY <1>4
  <2> QED BY <1>2, <2>1, <2>2, <2>3, <2>4, <2>5 DEF Disposing
<1> QED BY <1>6, <1>7, <1>9, <1>10, <1>11, <1>12 DEF IInv

\* An initialisation runs before any log.
LEMMA Initialises ==
  ASSUME TypeOK, Linked, Grouped, stack # <<>>, Top.f \in {"init", "created"}
  PROVE  /\ phase = "run" /\ Creates /\ misused = {} /\ \A p \in Plugins : context[p] = "none"
         /\ \A i \in DOMAIN stack : stack[i].f \in {"init", "created"}
<1>1. 1 \in DOMAIN stack /\ Top = stack[1]
  BY TopType
<1>2. phase \in {"build", "run", "dispose", "crashed"}
  BY DEF TypeOK
<1>3. ~Handles /\ ~Disposes
  BY <1>1 DEF Handles, Disposes
<1>4. phase = "run"
  BY <1>2, <1>3 DEF Linked, Grouped
<1>5. Creates /\ misused = {} /\ \A p \in Plugins : context[p] = "none"
  BY <1>3, <1>4 DEF Grouped
<1> QED BY <1>4, <1>5 DEF Creates

LEMMA InitedAgain ==
  ASSUME IInv, PoolPluginInit, ~ToCreate(Top.p)
  PROVE  IInv'
<1>1. TypeOK /\ Linked /\ Grouped /\ Creating /\ Bracketing /\ Disposing
  BY DEF IInv
<1>2. /\ phase # "crashed" /\ stack # <<>> /\ Top.f = "init" /\ Top.p \in Plugins
      /\ Makes(<<>>) /\ plugin[Top.p].inited
      /\ script' = script /\ plugin' = plugin /\ root' = root /\ made' = made
      /\ window' = window /\ context' = context /\ bev' = bev /\ misused' = misused
      /\ phase' = phase /\ count' = count /\ stale' = stale
  BY Zenon DEF PoolPluginInit, Calls, ToCreate, data
<1>3. /\ phase = "run" /\ \A i \in DOMAIN stack : stack[i].f \in {"init", "created"}
  BY <1>1, <1>2, Initialises
<1>4. /\ SamePlugins /\ Quiet /\ Reachable' = Reachable /\ (Shared' <=> Shared)
  BY <1>2, <1>3, Unchanged DEF Quiet
<1>5. TypeOK'
  BY <1>1, <1>2, Returns DEF TypeOK
<1>6. Linked'
  BY <1>1, <1>4, QuietLinked
<1>7. Grouped'
  BY <1>1, <1>2, <1>3, <1>4, PopGrouped
<1>8. Creating'
  <2>1. /\ \A p \in Plugins : Pending("created", p)' <=> Pending("created", p)
        /\ \A p \in Plugins : Pending("init", p)' \/ p = Top.p <=> Pending("init", p)
    BY <1>1, <1>2, PendingTop, Returns
  <2>2. \A p, q \in Plugins : Child(p, q)' <=> Child(p, q)
    BY <1>4 DEF SamePlugins, SameLinks
  <2>3. \A p \in Plugins :
          /\ made'[p] <= 1
          /\ plugin'[p].inited \/ Pending("created", p)' => made'[p] = 1
          /\ ~(plugin'[p].inited /\ Pending("created", p)')
          /\ phase' = "run" /\ made'[p] = 1 => plugin'[p].inited \/ Pending("created", p)'
    BY <1>1, <1>2, <2>1 DEF Creating
  <2>4. \A p, q \in Plugins : plugin'[p].inited /\ Child(p, q)' => plugin'[q].inited
    BY <1>1, <1>2, <2>2 DEF Creating
  <2>5. /\ \/ plugin'[root'].inited
           \/ Pending("init", root)' \/ Pending("created", root)'
        /\ phase' # "dispose"
    <3>1. root \in Plugins
      BY <1>1, <1>3 DEF Linked
    <3> QED BY <1>1, <1>2, <1>3, <2>1, <3>1 DEF Creating
  <2>6. Ordered'
    BY <1>1, <1>2, <2>2 DEF Creating, Ordered
  <2>7. Waiting'
    BY <1>1, <1>2, <1>4, PopWaiting DEF Creating, SamePlugins
  <2> QED BY <2>3, <2>4, <2>5, <2>6, <2>7 DEF Creating
<1>9. Bracketing'
  <2>1. \A i \in DOMAIN stack' : stack'[i].f \in {"init", "created"}
    BY <1>1, <1>2, <1>3, Returns
  <2>2. /\ \A i \in DOMAIN stack : stack[i].f # "apply"
        /\ \A i \in DOMAIN stack' : stack'[i].f # "apply" \/ stack'[i].p = root
    BY <1>3, <2>1
  <2> QED BY <1>1, <1>2, <1>3, <1>4, <2>2, BracketingBetween
<1>10. Disposing'
  BY <1>1, <1>2, <1>3, <1>4 DEF Disposing
<1> QED BY <1>5, <1>6, <1>7, <1>8, <1>9, <1>10 DEF IInv

LEMMA CreatedStep ==
  ASSUME IInv, PoolPluginCreated
  PROVE  IInv'
<1>1. TypeOK /\ Linked /\ Grouped /\ Creating /\ Bracketing /\ Disposing
  BY DEF IInv
<1>2. /\ phase # "crashed" /\ stack # <<>> /\ Top.f = "created" /\ Top.p \in Plugins
      /\ Makes(<<>>)
      /\ plugin' = [plugin EXCEPT ![Top.p].inited = TRUE]
      /\ window' = [window EXCEPT ![Top.p] = <<>>]
      /\ script' = script /\ root' = root /\ made' = made
      /\ context' = context /\ bev' = bev /\ misused' = misused
      /\ phase' = phase /\ count' = count /\ stale' = stale
  BY Zenon DEF PoolPluginCreated, Calls
<1>t. PICK t \in Plugins : t = Top.p
  BY <1>2
<1>3. /\ phase = "run" /\ \A i \in DOMAIN stack : stack[i].f \in {"init", "created"}
  BY <1>1, <1>2, Initialises
<1>p. plugin \in [Plugins -> Struct]
  BY <1>1 DEF TypeOK
<1>4. /\ plugin' \in [Plugins -> Struct]
      /\ \A p \in Plugins :
           /\ plugin'[p].kind = plugin[p].kind /\ plugin'[p].flag = plugin[p].flag
           /\ plugin'[p].apply = plugin[p].apply /\ plugin'[p].failed = plugin[p].failed
           /\ plugin'[p].mem = plugin[p].mem
           /\ plugin'[p].inited <=> plugin[p].inited \/ p = t
  <2>1. plugin' = [plugin EXCEPT ![t].inited = TRUE]
    BY <1>2, <1>t
  <2> QED BY <1>p, <2>1 DEF Struct
<1>5. SamePlugins
  BY <1>2, <1>4 DEF SamePlugins, SameLinks, Child
<1>6. Quiet /\ Reachable' = Reachable /\ (Shared' <=> Shared)
  BY <1>2, <1>3, <1>4, <1>5, SameShared DEF Quiet
<1>7. TypeOK'
  <2>1. window' \in [Plugins -> Seq(SUBSET Features)]
    BY <1>1, <1>2 DEF TypeOK
  <2>2. stack' \in Seq(Frame)
    BY <1>1, <1>2, Returns
  <2> QED BY <1>1, <1>2, <1>4, <2>1, <2>2 DEF TypeOK
<1>8. Linked'
  BY <1>1, <1>6, QuietLinked
<1>9. Grouped'
  BY <1>1, <1>2, <1>3, <1>4, <1>5, PopGrouped
<1>10. Creating'
  <2>1. /\ Top = stack[1] /\ DOMAIN stack = 1 .. Len(stack) /\ Len(stack) \in Nat \ {0}
        /\ stack[1].f = "created" /\ stack[1].p = t
    BY <1>1, <1>2, <1>t, TopType DEF TypeOK
  <2>2. ~PendingBehind("created", t)
    <3>1. SUFFICES ASSUME NEW i \in 2 .. Len(stack), stack[i].f = "created", stack[i].p = t
                   PROVE  FALSE
      BY DEF PendingBehind
    <3>2. i = 1
      BY <1>1, <2>1, <3>1 DEF Creating, Waiting
    <3> QED BY <3>2
  <2>3. /\ \A p \in Plugins : Pending("created", p) <=> p = t \/ PendingBehind("created", p)
        /\ \A p \in Plugins : Pending("created", p)' <=> PendingBehind("created", p)
        /\ \A p \in Plugins : Pending("init", p)' <=> Pending("init", p)
    BY <1>1, <1>2, <1>t, PendingTop, Returns
  <2>4. \A p, q \in Plugins : Child(p, q)' <=> Child(p, q)
    BY <1>5 DEF SamePlugins, SameLinks
  \* Its children are created, and it is not.
  <2>5. ~plugin[t].inited /\ \A q \in Plugins : Child(t, q) => plugin[q].inited
    <3>1. ~plugin[t].inited
      BY <1>1, <2>3 DEF Creating
    <3>2. \A i \in DOMAIN stack : ~(i < 1)
      BY <2>1
    <3> QED BY <1>1, <2>1, <3>1, <3>2 DEF Creating, Waiting
  <2>6. ASSUME NEW p \in Plugins
        PROVE  /\ made'[p] <= 1
               /\ plugin'[p].inited \/ Pending("created", p)' => made'[p] = 1
               /\ ~(plugin'[p].inited /\ Pending("created", p)')
               /\ phase' = "run" /\ made'[p] = 1 => plugin'[p].inited \/ Pending("created", p)'
    <3>1. /\ made[p] <= 1
          /\ plugin[p].inited \/ Pending("created", p) => made[p] = 1
          /\ ~(plugin[p].inited /\ Pending("created", p))
          /\ made[p] = 1 => plugin[p].inited \/ Pending("created", p)
      BY <1>1, <1>3 DEF Creating
    <3> QED BY <1>2, <1>4, <2>2, <2>3, <3>1
  <2>7. \A p, q \in Plugins : plugin'[p].inited /\ Child(p, q)' => plugin'[q].inited
    BY <1>1, <1>4, <2>4, <2>5 DEF Creating
  <2>8. /\ \/ plugin'[root'].inited
           \/ Pending("init", root)' \/ Pending("created", root)'
        /\ phase' # "dispose"
    <3>1. root \in Plugins
      BY <1>1, <1>3 DEF Linked
    <3>2. plugin[root].inited \/ Pending("init", root) \/ Pending("created", root)
      BY <1>1, <1>3 DEF Creating
    <3>3. /\ Pending("created", root) => root = t \/ Pending("created", root)'
          /\ Pending("init", root) => Pending("init", root)'
      BY <1>2, <2>3, <3>1
    <3> QED BY <1>2, <1>3, <1>4, <3>1, <3>2, <3>3
  <2>9. Ordered'
    <3> SUFFICES ASSUME NEW S \in SUBSET Plugins, S # {}, \A p \in S : plugin'[p].inited
                 PROVE  \E p \in S : \A q \in S : ~Child(p, q)
      BY <2>4 DEF Ordered
    <3> DEFINE T == S \ {t}
    <3>1. T \in SUBSET Plugins /\ \A p \in T : plugin[p].inited
      BY <1>4
    <3>2. CASE T = {}
      <4>1. S = {t}
        BY <3>2
      <4> QED BY <2>5, <4>1
    <3>3. CASE T # {}
      <4>1. PICK p \in T : \A q \in T : ~Child(p, q)
        <5> HIDE DEF T
        <5> QED BY <1>1, <3>1, <3>3 DEF Creating, Ordered
      <4>2. ~Child(p, t)
        BY <1>1, <2>5, <3>1, <4>1 DEF Creating
      <4> QED BY <4>1, <4>2
    <3> QED BY <3>2, <3>3
  <2>10. Waiting'
    BY <1>1, <1>2, <1>4, <1>5, <1>t, PopWaiting DEF Creating, SamePlugins
  <2> QED BY <2>6, <2>7, <2>8, <2>9, <2>10 DEF Creating
<1>11. Bracketing'
  <2>1. \A i \in DOMAIN stack' : stack'[i].f \in {"init", "created"}
    BY <1>1, <1>2, <1>3, Returns
  <2>2. /\ \A i \in DOMAIN stack : stack[i].f # "apply"
        /\ \A i \in DOMAIN stack' : stack'[i].f # "apply" \/ stack'[i].p = root
    BY <1>3, <2>1
  <2> QED BY <1>1, <1>2, <1>3, <1>5, <2>2, BracketingBetween
<1>12. Disposing'
  BY <1>1, <1>2, <1>3, <1>6 DEF Disposing
<1> QED BY <1>7, <1>8, <1>9, <1>10, <1>11, <1>12 DEF IInv

LEMMA InitStep ==
  ASSUME IInv, PoolPluginInit, ToCreate(Top.p)
  PROVE  IInv'
<1>1. TypeOK /\ Linked /\ Grouped /\ Creating /\ Bracketing /\ Disposing
  BY DEF IInv
<1>2. /\ phase # "crashed" /\ stack # <<>> /\ Top.f = "init" /\ Top.p \in Plugins
      /\ Makes(<<Init_(OrNop(This.apply)), Init_(OrNop(This.failed)), Created(Top.p)>>)
      /\ ~plugin[Top.p].inited /\ ~BeingCreated(Top.p)
      /\ plugin' = [plugin EXCEPT ![Top.p].apply = OrNop(@), ![Top.p].failed = OrNop(@)]
      /\ made' = [made EXCEPT ![Top.p] = @ + 1]
      /\ script' = script /\ root' = root
      /\ window' = window /\ context' = context /\ bev' = bev /\ misused' = misused
      /\ phase' = phase /\ count' = count /\ stale' = stale
  BY Zenon DEF PoolPluginInit, Calls, ToCreate, data
<1>t. PICK t \in Plugins : t = Top.p
  BY <1>2
<1>3. /\ phase = "run" /\ \A i \in DOMAIN stack : stack[i].f \in {"init", "created"}
  BY <1>1, <1>2, Initialises
<1>p. plugin \in [Plugins -> Struct] /\ made \in [Plugins -> Nat]
  BY <1>1 DEF TypeOK
<1>l. /\ This.apply \in Links /\ This.failed \in Links
      /\ OrNop(This.apply) \in Links /\ OrNop(This.failed) \in Links /\ t \in Links
      /\ \A q \in Plugins : /\ OrNop(This.apply) = q <=> This.apply = q
                            /\ OrNop(This.failed) = q <=> This.failed = q
  <2>1. This.apply \in Links /\ This.failed \in Links
    BY <1>1, <1>2, TopType
  <2> QED BY <2>1, PluginsAssumption DEF OrNop, Links
<1>4. /\ plugin' \in [Plugins -> Struct]
      /\ \A p \in Plugins :
           /\ plugin'[p].kind = plugin[p].kind /\ plugin'[p].flag = plugin[p].flag
           /\ plugin'[p].mem = plugin[p].mem /\ plugin'[p].inited = plugin[p].inited
           /\ p # t => plugin'[p].apply = plugin[p].apply /\ plugin'[p].failed = plugin[p].failed
      /\ plugin'[t].apply = OrNop(This.apply) /\ plugin'[t].failed = OrNop(This.failed)
  <2>1. PICK st \in Struct : st = plugin[t]
    BY <1>p
  <2>2. PICK x \in Links, y \in Links : x = OrNop(This.apply) /\ y = OrNop(This.failed)
    BY <1>l
  <2>3. PICK new : new = [st EXCEPT !.apply = x, !.failed = y]
    OBVIOUS
  <2>4. plugin' = [plugin EXCEPT ![t] = new]
    <3>1. x = OrNop(st.apply) /\ y = OrNop(st.failed)
      BY <1>t, <2>1, <2>2 DEF This
    <3> QED BY <1>2, <1>t, <1>p, <2>1, <2>3, <3>1, Zenon
  <2>5. /\ new \in Struct /\ new.kind = st.kind /\ new.flag = st.flag /\ new.mem = st.mem
        /\ new.inited = st.inited /\ new.apply = x /\ new.failed = y
    BY <2>3 DEF Struct
  <2>6. /\ plugin' \in [Plugins -> Struct] /\ plugin'[t] = new
        /\ \A p \in Plugins : p # t => plugin'[p] = plugin[p]
    BY <1>p, <2>4, <2>5
  <2> QED BY <2>1, <2>2, <2>5, <2>6, Zenon
<1>5. SamePlugins
  <2>1. \A p, q \in Plugins : /\ plugin'[p].apply = q <=> plugin[p].apply = q
                              /\ plugin'[p].failed = q <=> plugin[p].failed = q
    BY <1>4, <1>l, <1>t DEF This
  <2> QED BY <1>2, <1>4, <2>1 DEF SamePlugins, SameLinks, Child
<1>6. /\ Quiet /\ Reachable' = Reachable /\ (Shared' <=> Shared)
  BY <1>2, <1>3, <1>4, <1>5, SameShared DEF Quiet
<1>7. PICK a \in Frame, b \in Frame, c \in Frame :
        /\ a.f = "init" /\ a.p = OrNop(This.apply)
        /\ b.f = "init" /\ b.p = OrNop(This.failed)
        /\ c.f = "created" /\ c.p = t
        /\ Makes(<<a, b, c>>)
  <2>1. /\ "init" \in Functions /\ "created" \in Functions /\ {} \in SUBSET Features /\ 0 \in Nat
    BY DEF Functions
  <2>2. /\ Init_(OrNop(This.apply)) \in Frame /\ Init_(OrNop(This.failed)) \in Frame
        /\ Created(t) \in Frame
        /\ Init_(OrNop(This.apply)).f = "init" /\ Init_(OrNop(This.apply)).p = OrNop(This.apply)
        /\ Init_(OrNop(This.failed)).f = "init" /\ Init_(OrNop(This.failed)).p = OrNop(This.failed)
        /\ Created(t).f = "created" /\ Created(t).p = t
    BY <1>l, <2>1, CallType DEF Init_, Created
  <2> QED BY <1>2, <1>t, <2>2, Zenon
\* The stack after it.
<1>8. /\ stack' \in Seq(Frame)
      /\ stack'[1] = a /\ stack'[2] = b /\ stack'[3] = c
      /\ \A i \in DOMAIN stack' : i \in Nat \ {0}
      /\ \A i \in DOMAIN stack' :
           \/ i \in {1, 2, 3}
           \/ /\ i - 2 \in DOMAIN stack /\ i - 2 \in 2 .. Len(stack)
              /\ stack'[i] = stack[i - 2]
      /\ \A i \in 2 .. Len(stack) : i + 2 \in DOMAIN stack' /\ stack'[i + 2] = stack[i]
      /\ 1 \in DOMAIN stack' /\ 2 \in DOMAIN stack' /\ 3 \in DOMAIN stack'
  BY <1>1, <1>2, <1>7, CallsThree
<1>9. /\ \A p \in Plugins : Pending("created", p)' <=> p = t \/ PendingBehind("created", p)
      /\ \A p \in Plugins : Pending("init", p)' <=>
           Child(t, p) \/ PendingBehind("init", p)
  <2>1. \A f, p : Pending(f, p)' <=> \/ a.f = f /\ a.p = p
                                     \/ b.f = f /\ b.p = p
                                     \/ c.f = f /\ c.p = p
                                     \/ PendingBehind(f, p)
    BY <1>1, <1>2, <1>7, CallsThree
  <2> QED BY <1>7, <1>l, <1>t, <2>1 DEF Child, This
<1>10. /\ \A p \in Plugins : Pending("created", p) <=> PendingBehind("created", p)
       /\ \A p \in Plugins : Pending("init", p) <=> p = t \/ PendingBehind("init", p)
       /\ ~Pending("created", t) /\ ~PendingBehind("created", t)
  <2>1. ~Pending("created", t)
    BY <1>2, <1>t DEF BeingCreated, Pending
  <2> QED BY <1>1, <1>2, <1>t, <2>1, PendingTop
<1>11. TypeOK'
  <2>1. made' \in [Plugins -> Nat]
    BY <1>2, <1>p
  <2> QED BY <1>1, <1>2, <1>4, <1>8, <2>1 DEF TypeOK
<1>12. Linked'
  BY <1>1, <1>6, QuietLinked
<1>13. t \in Reachable /\ 1 \in DOMAIN stack /\ Top = stack[1]
  <2>1. 1 \in DOMAIN stack /\ Top = stack[1]
    BY <1>1, <1>2, TopType
  <2> QED BY <1>1, <1>t, <2>1 DEF Grouped
<1>14. \A i \in DOMAIN stack' : /\ stack'[i].f \in {"init", "created"}
                                /\ stack'[i].p \in Plugins => stack'[i].p \in Reachable
  <2>1. \A q \in Plugins : q = a.p \/ q = b.p => q \in Reachable
    BY <1>7, <1>l, <1>t, <1>13, ReachableLeast DEF Child, This
  <2> QED BY <1>1, <1>3, <1>7, <1>8, <1>13, <2>1 DEF Grouped
<1>15. Grouped'
  <2>1. \A i \in DOMAIN stack' : Alike(stack'[i].f, stack[1].f)
    BY <1>3, <1>13, <1>14 DEF Alike
  <2> QED BY <1>1, <1>2, <1>3, <1>4, <1>5, <1>13, <1>14, <2>1, SameGrouped
<1>16. \A p \in Plugins : made'[p] = IF p = t THEN made[t] + 1 ELSE made[p]
  BY <1>2, <1>p, <1>t
<1>17. made[t] = 0
  <2>1. ~plugin[t].inited /\ ~Pending("created", t)
    BY <1>2, <1>t, <1>10
  <2>2. made[t] # 1 /\ made[t] <= 1 /\ made[t] \in Nat
    BY <1>1, <1>3, <1>p, <2>1 DEF Creating
  <2> QED BY <2>2
<1>18. Creating'
  <2>1. \A p, q \in Plugins : Child(p, q)' <=> Child(p, q)
    BY <1>5 DEF SamePlugins, SameLinks
  <2>2. ASSUME NEW p \in Plugins
        PROVE  /\ made'[p] <= 1
               /\ plugin'[p].inited \/ Pending("created", p)' => made'[p] = 1
               /\ ~(plugin'[p].inited /\ Pending("created", p)')
               /\ phase' = "run" /\ made'[p] = 1 => plugin'[p].inited \/ Pending("created", p)'
    <3>1. /\ made[p] <= 1
          /\ plugin[p].inited \/ Pending("created", p) => made[p] = 1
          /\ ~(plugin[p].inited /\ Pending("created", p))
          /\ made[p] = 1 => plugin[p].inited \/ Pending("created", p)
      BY <1>1, <1>3 DEF Creating
    <3>2. ~plugin[t].inited
      BY <1>2, <1>t
    <3> QED BY <1>4, <1>9, <1>10, <1>16, <1>17, <3>1, <3>2
  <2>3. \A p, q \in Plugins : plugin'[p].inited /\ Child(p, q)' => plugin'[q].inited
    BY <1>1, <1>4, <2>1 DEF Creating
  <2>4. /\ \/ plugin'[root'].inited
           \/ Pending("init", root)' \/ Pending("created", root)'
        /\ phase' # "dispose"
    <3>1. root \in Plugins
      BY <1>1, <1>3 DEF Linked
    <3>2. plugin[root].inited \/ Pending("init", root) \/ Pending("created", root)
      BY <1>1, <1>3 DEF Creating
    <3>3. /\ Pending("created", root) => Pending("created", root)'
          /\ Pending("init", root) => Pending("created", root)' \/ Pending("init", root)'
      BY <1>2, <1>9, <1>10, <3>1
    <3> QED BY <1>2, <1>3, <1>4, <3>1, <3>2, <3>3
  <2>5. Ordered'
    BY <1>1, <1>4, <2>1 DEF Creating, Ordered
  <2>n. DOMAIN stack = 1 .. Len(stack) /\ Len(stack) \in Nat
    BY <1>1 DEF TypeOK
  <2>6. ASSUME NEW p \in Plugins, NEW q \in Plugins, NEW j \in DOMAIN stack',
               stack'[j].f = "created", stack'[j].p = p, Child(p, q)
        PROVE  plugin'[q].inited \/ \E i \in DOMAIN stack' : i < j /\ stack'[i].p = q
    <3>1. CASE j \in {1, 2, 3}
      <4>1. j = 3 /\ p = t
        BY <1>7, <1>8, <2>6, <3>1
      <4>2. stack'[1].p = q \/ stack'[2].p = q
        BY <1>7, <1>8, <1>l, <1>t, <2>6, <4>1 DEF Child, This
      <4>3. 1 < j /\ 2 < j
        BY <4>1
      <4> QED BY <1>8, <4>2, <4>3
    <3>2. CASE j \notin {1, 2, 3}
      <4>1. j - 2 \in DOMAIN stack /\ j - 2 \in 2 .. Len(stack) /\ stack'[j] = stack[j - 2]
        BY <1>8, <3>2
      <4>2. plugin[q].inited \/ \E i \in DOMAIN stack : i < j - 2 /\ stack[i].p = q
        BY <1>1, <2>6, <4>1 DEF Creating, Waiting
      <4>3. ASSUME NEW i \in DOMAIN stack, i < j - 2, stack[i].p = q, i # 1
            PROVE  i + 2 \in DOMAIN stack' /\ i + 2 < j /\ stack'[i + 2].p = q
        <5>1. i \in 2 .. Len(stack) /\ j \in Nat
          BY <1>8, <2>n, <4>3
        <5> QED BY <1>8, <4>3, <5>1
      <4>4. ASSUME stack[1].p = q
            PROVE  3 \in DOMAIN stack' /\ 3 < j /\ stack'[3].p = q
        <5>1. 3 < j
          BY <1>8, <3>2
        <5> QED BY <1>7, <1>8, <1>13, <1>t, <4>4, <5>1
      <4> QED BY <1>4, <4>2, <4>3, <4>4
    <3> QED BY <3>1, <3>2
  <2>7. ASSUME NEW i \in DOMAIN stack', NEW j \in DOMAIN stack',
               stack'[i].f = "created", stack'[j].f = "created", stack'[i].p = stack'[j].p
        PROVE  i = j
    <3>1. ASSUME NEW x \in DOMAIN stack', stack'[x].f = "created"
          PROVE  \/ x = 3 /\ stack'[x].p = t
                 \/ /\ x - 2 \in DOMAIN stack /\ x - 2 \in 2 .. Len(stack)
                    /\ stack'[x] = stack[x - 2] /\ stack'[x].p # t
      <4>1. CASE x \in {1, 2, 3}
        BY <1>7, <1>8, <3>1, <4>1
      <4>2. CASE x \notin {1, 2, 3}
        <5>1. /\ x - 2 \in DOMAIN stack /\ x - 2 \in 2 .. Len(stack)
              /\ stack'[x] = stack[x - 2]
          BY <1>8, <4>2
        <5>2. ~(stack[x - 2].f = "created" /\ stack[x - 2].p = t)
          BY <1>10, <5>1 DEF PendingBehind
        <5> QED BY <3>1, <5>1, <5>2
      <4> QED BY <4>1, <4>2
    <3>2. CASE i = 3 \/ j = 3
      BY <2>7, <3>1, <3>2
    <3>3. CASE i # 3 /\ j # 3
      <4>1. i - 2 = j - 2
        BY <1>1, <2>7, <3>1, <3>3 DEF Creating, Waiting
      <4> QED BY <1>8, <4>1
    <3> QED BY <3>2, <3>3
  <2>8. Waiting'
    BY <2>1, <2>6, <2>7 DEF Waiting
  <2> QED BY <2>2, <2>3, <2>4, <2>5, <2>8 DEF Creating
<1>19. Bracketing'
  <2>1. /\ \A i \in DOMAIN stack : stack[i].f # "apply"
        /\ \A i \in DOMAIN stack' : stack'[i].f # "apply" \/ stack'[i].p = root
    BY <1>3, <1>14
  <2> QED BY <1>1, <1>2, <1>3, <1>5, <2>1, BracketingBetween
<1>20. Disposing'
  BY <1>1, <1>2, <1>3, <1>6 DEF Disposing
<1> QED BY <1>11, <1>12, <1>15, <1>18, <1>19, <1>20 DEF IInv

\* A disposal runs alone.
LEMMA IsDisposal ==
  ASSUME TypeOK, Linked, Grouped, stack # <<>>, Top.f \in {"dispose", "free"}
  PROVE  /\ phase = "dispose" /\ root \in Plugins
         /\ \A i \in DOMAIN stack : stack[i].f \in {"dispose", "free"}
<1>1. 1 \in DOMAIN stack /\ Top = stack[1]
  BY TopType
<1>2. phase \in {"build", "run", "dispose", "crashed"}
  BY DEF TypeOK
<1>3. ~Handles /\ ~Creates
  BY <1>1 DEF Handles, Creates
<1>4. phase = "dispose"
  BY <1>2, <1>3 DEF Linked, Grouped
<1> QED BY <1>4 DEF Grouped, Disposes, Linked

LEMMA FreeStep ==
  ASSUME IInv, PluginFree
  PROVE  IInv'
<1>1. TypeOK /\ Linked /\ Grouped /\ Creating /\ Bracketing /\ Disposing
  BY DEF IInv
<1>2. /\ phase # "crashed" /\ stack # <<>> /\ Top.f = "free" /\ Top.p \in Plugins
      /\ plugin[Top.p].kind \in Kinds
      /\ Makes(<<>>)
      /\ plugin' = [plugin EXCEPT ![Top.p].mem = "freed"]
      /\ window' = [window EXCEPT ![Top.p] = <<>>]
      /\ script' = script /\ root' = root /\ made' = made
      /\ context' = context /\ bev' = bev /\ misused' = misused
      /\ phase' = phase /\ count' = count /\ stale' = stale
  BY Zenon DEF PluginFree, Calls
<1>t. PICK t \in Plugins : t = Top.p
  BY <1>2
<1>3. /\ phase = "dispose" /\ root \in Plugins
      /\ \A i \in DOMAIN stack : stack[i].f \in {"dispose", "free"}
  BY <1>1, <1>2, IsDisposal
<1>p. plugin \in [Plugins -> Struct]
  BY <1>1 DEF TypeOK
<1>4. /\ plugin' \in [Plugins -> Struct]
      /\ \A p \in Plugins :
           /\ plugin'[p].kind = plugin[p].kind /\ plugin'[p].flag = plugin[p].flag
           /\ plugin'[p].apply = plugin[p].apply /\ plugin'[p].failed = plugin[p].failed
           /\ plugin'[p].inited = plugin[p].inited
           /\ p # t => plugin'[p].mem = plugin[p].mem
      /\ plugin'[t].mem = "freed"
  <2>1. plugin' = [plugin EXCEPT ![t].mem = "freed"]
    BY <1>2, <1>t
  <2> QED BY <1>p, <2>1 DEF Struct
<1>5. SamePlugins
  BY <1>2, <1>4 DEF SamePlugins, SameLinks, Child
<1>6. /\ Reachable' = Reachable /\ (Shared' <=> Shared)
  BY <1>5, SameShared
<1>7. Quiet
  <2>1. plugin[t].mem # "unused"
    <3>1. "none" \notin Kinds
      BY DEF Kinds
    <3> QED BY <1>1, <1>2, <1>t, <3>1 DEF Linked
  <2> QED BY <1>2, <1>3, <1>4, <1>5, <2>1 DEF Quiet
<1>8. TypeOK'
  <2>1. window' \in [Plugins -> Seq(SUBSET Features)]
    BY <1>1, <1>2 DEF TypeOK
  <2>2. stack' \in Seq(Frame)
    BY <1>1, <1>2, Returns
  <2> QED BY <1>1, <1>2, <1>4, <2>1, <2>2 DEF TypeOK
<1>9. Linked'
  BY <1>1, <1>7, QuietLinked
<1>10. Grouped'
  BY <1>1, <1>2, <1>3, <1>5, PopGrouped
<1>s. \A i \in DOMAIN stack' : stack'[i].f \in {"dispose", "free"}
  BY <1>1, <1>2, <1>3, Returns
<1>11. Creating'
  <2>1. /\ \A i \in DOMAIN stack : stack[i].f \notin {"init", "created"}
        /\ \A i \in DOMAIN stack' : stack'[i].f \notin {"init", "created"}
    BY <1>3, <1>s
  <2> QED BY <1>1, <1>2, <1>3, <1>4, <1>5, <2>1, NoCreation DEF SamePlugins
<1>12. Bracketing'
  <2>1. /\ \A i \in DOMAIN stack : stack[i].f # "apply"
        /\ \A i \in DOMAIN stack' : stack'[i].f # "apply" \/ stack'[i].p = root
    BY <1>3, <1>s
  <2> QED BY <1>1, <1>2, <1>3, <1>5, <2>1, BracketingBetween
<1>13. Disposing'
  <2>1. /\ \A p \in Plugins : Pending("dispose", p)' <=> Pending("dispose", p)
        /\ \A p \in Plugins : Pending("free", p) <=> Pending("free", p)' \/ p = t
    BY <1>1, <1>2, <1>t, PendingTop, Returns
  <2>2. \A p \in Plugins : Met(p)' <=> Met(p)
    BY <1>4, <2>1 DEF Met
  <2>3. \A p, q \in Plugins : Child(p, q)' <=> Child(p, q)
    BY <1>5 DEF SamePlugins, SameLinks
  <2>4. stale' => Shared'
    BY <1>1, <1>2, <1>6 DEF Disposing
  <2>5. /\ \A p \in Plugins : Met(p)' => p \in Reachable'
        /\ Met(root)' \/ Pending("dispose", root)'
        /\ \A p, q \in Plugins :
             Met(p)' /\ Child(p, q)' => Met(q)' \/ Pending("dispose", q)'
    <3>1. Met(root) \/ Pending("dispose", root)
      BY <1>1, <1>3 DEF Disposing
    <3>2. Met(root)' \/ Pending("dispose", root)'
      BY <1>2, <1>3, <2>1, <2>2, <3>1
    <3> QED BY <1>1, <1>3, <1>6, <2>1, <2>2, <2>3, <3>2 DEF Disposing
  <2>6. ASSUME ~Shared
        PROVE  /\ \A i, j \in DOMAIN stack' :
                    stack'[i].f = "dispose" /\ stack'[j].f = "dispose"
                      /\ stack'[i].p \in Plugins /\ stack'[i].p = stack'[j].p => i = j
               /\ \A p \in Plugins : Pending("dispose", p)' => ~Met(p)'
               /\ \A p \in Plugins : Met(p)' \/ Pending("dispose", p)' =>
                    p = root \/ \E y \in Reachable : Child(y, p)' /\ Met(y)'
    <3>1. \A i, j \in DOMAIN stack' :
            stack'[i].f = "dispose" /\ stack'[j].f = "dispose"
              /\ stack'[i].p \in Plugins /\ stack'[i].p = stack'[j].p => i = j
      BY <1>1, <1>2, <1>3, <2>6, PopDisposing
    <3>2. \A p \in Plugins : Pending("dispose", p)' => ~Met(p)'
      BY <1>1, <1>3, <2>1, <2>2, <2>6 DEF Disposing
    <3>3. \A p \in Plugins : Met(p)' \/ Pending("dispose", p)' =>
            p = root \/ \E y \in Reachable : Child(y, p)' /\ Met(y)'
      <4>1. \A p \in Plugins : Met(p) \/ Pending("dispose", p) =>
              p = root \/ \E y \in Reachable : Child(y, p) /\ Met(y)
        BY <1>1, <1>3, <2>6 DEF Disposing
      <4>2. Reachable \subseteq Plugins
        BY ReachableLeast
      <4> QED BY <2>1, <2>2, <2>3, <4>1, <4>2
    <3> QED BY <3>1, <3>2, <3>3
  <2> QED BY <1>2, <1>6, <2>4, <2>5, <2>6 DEF Disposing
<1> QED BY <1>8, <1>9, <1>10, <1>11, <1>12, <1>13 DEF IInv

\* A plugin that is disposed of after it is freed hangs from two places.
LEMMA FreedShared ==
  ASSUME TypeOK, Linked, Grouped, Disposing, stack # <<>>, Top.f = "dispose",
         Top.p \in Plugins, This.kind \in Kinds, This.mem # "live"
  PROVE  Met(Top.p) /\ Shared
<1>1. phase = "dispose" /\ 1 \in DOMAIN stack /\ Top = stack[1]
  BY IsDisposal, TopType
<1>2. This.mem = "freed"
  <2>1. "none" \notin Kinds
    BY DEF Kinds
  <2>2. This.mem # "unused"
    BY <2>1 DEF Linked, This
  <2>3. This.mem \in {"unused", "live", "freed"}
    BY DEF TypeOK, This, Struct
  <2> QED BY <2>2, <2>3
<1>3. Met(Top.p)
  BY <1>2 DEF Met, This
<1>4. Pending("dispose", Top.p)
  BY <1>1 DEF Pending
<1> QED BY <1>1, <1>3, <1>4 DEF Disposing

LEMMA DisposeFreed ==
  ASSUME IInv, PoolPluginDispose, This.mem # "live"
  PROVE  IInv'
<1>1. TypeOK /\ Linked /\ Grouped /\ Creating /\ Bracketing /\ Disposing
  BY DEF IInv
<1>2. /\ phase # "crashed" /\ stack # <<>> /\ Top.f = "dispose" /\ Top.p \in Plugins
      /\ This.kind \in Kinds
      /\ \/ Makes(<<>>) /\ phase' = phase
         \/ stack' = <<>> /\ phase' = "crashed"
      /\ script' = script /\ plugin' = plugin /\ root' = root /\ made' = made
      /\ window' = window /\ context' = context /\ bev' = bev /\ misused' = misused
      /\ count' = count /\ stale' = TRUE
  BY Zenon DEF PoolPluginDispose, Calls, This, MayCrash, Crash, graph, data
<1>t. PICK t \in Plugins : t = Top.p
  BY <1>2
<1>3. /\ phase = "dispose" /\ root \in Plugins
      /\ \A i \in DOMAIN stack : stack[i].f \in {"dispose", "free"}
  BY <1>1, <1>2, IsDisposal
<1>4. /\ SamePlugins /\ Quiet /\ Reachable' = Reachable /\ (Shared' <=> Shared)
  BY <1>2, <1>3, Unchanged DEF Quiet
<1>5. stack' \in Seq(Frame)
  <2>1. Makes(<<>>) => stack' \in Seq(Frame)
    BY <1>1, <1>2, Returns
  <2>2. <<>> \in Seq(Frame)
    OBVIOUS
  <2> QED BY <1>2, <2>1, <2>2
<1>6. \A i \in DOMAIN stack' : stack'[i].f \in {"dispose", "free"}
  BY <1>1, <1>2, <1>3, Returns
<1>7. TypeOK'
  BY <1>1, <1>2, <1>5 DEF TypeOK
<1>8. Linked'
  BY <1>1, <1>4, QuietLinked
<1>9. Grouped'
  <2>1. CASE Makes(<<>>) /\ phase' = phase
    BY <1>1, <1>2, <1>3, <1>4, <2>1, PopGrouped
  <2>2. CASE stack' = <<>> /\ phase' = "crashed"
    BY <2>2 DEF Grouped
  <2> QED BY <1>2, <2>1, <2>2
<1>10. Creating'
  <2>1. /\ \A i \in DOMAIN stack : stack[i].f \notin {"init", "created"}
        /\ \A i \in DOMAIN stack' : stack'[i].f \notin {"init", "created"}
    BY <1>3, <1>6
  <2>2. phase' # "run"
    BY <1>2, <1>3
  <2> QED BY <1>1, <1>2, <1>3, <1>4, <2>1, <2>2, NoCreation DEF SamePlugins
<1>11. Bracketing'
  <2>1. /\ \A i \in DOMAIN stack : stack[i].f # "apply"
        /\ \A i \in DOMAIN stack' : stack'[i].f # "apply" \/ stack'[i].p = root
    BY <1>3, <1>6
  <2> QED BY <1>1, <1>2, <1>3, <1>4, <2>1, BracketingBetween
<1>12. Disposing'
  <2>1. Met(t) /\ Shared
    BY <1>1, <1>2, <1>t, FreedShared
  <2>2. CASE stack' = <<>> /\ phase' = "crashed"
    BY <1>4, <2>1, <2>2 DEF Disposing
  <2>3. CASE Makes(<<>>) /\ phase' = phase
    <3>1. /\ \A p \in Plugins : Pending("dispose", p) <=> p = t \/ Pending("dispose", p)'
          /\ \A p \in Plugins : Pending("free", p) <=> Pending("free", p)'
      BY <1>1, <1>2, <1>t, <2>3, PendingTop, Returns
    <3>2. \A p \in Plugins : Met(p)' <=> Met(p)
      BY <1>2, <3>1 DEF Met
    <3>3. \A p, q \in Plugins : Child(p, q)' <=> Child(p, q)
      BY <1>4 DEF SamePlugins, SameLinks
    <3>4. Met(root)' \/ Pending("dispose", root)'
      <4>1. Met(root) \/ Pending("dispose", root)
        BY <1>1, <1>3 DEF Disposing
      <4> QED BY <1>2, <1>3, <2>1, <3>1, <3>2, <4>1
    <3>5. \A p \in Plugins : Met(p)' => p \in Reachable'
      BY <1>1, <1>3, <1>4, <3>2 DEF Disposing
    <3>6. \A p, q \in Plugins : Met(p)' /\ Child(p, q)' => Met(q)' \/ Pending("dispose", q)'
      BY <1>1, <1>3, <2>1, <3>1, <3>2, <3>3 DEF Disposing
    <3> QED BY <1>4, <2>1, <3>4, <3>5, <3>6 DEF Disposing
  <2> QED BY <1>2, <2>2, <2>3
<1> QED BY <1>7, <1>8, <1>9, <1>10, <1>11, <1>12 DEF IInv

LEMMA ThreeCalls ==
  ASSUME NEW S, NEW a \in S, NEW b \in S, NEW c \in S
  PROVE  <<a, b>> \o <<c>> = <<a, b, c>>
<1>1. PICK x \in Seq(S) : x = <<a, b>> /\ Len(x) = 2 /\ x[1] = a /\ x[2] = b
  <2>1. <<a, b>> \in Seq(S) /\ Len(<<a, b>>) = 2 /\ <<a, b>>[1] = a /\ <<a, b>>[2] = b
    OBVIOUS
  <2> QED BY <2>1, Zenon
<1>2. PICK y \in Seq(S) : y = <<c>> /\ Len(y) = 1 /\ y[1] = c
  <2>1. <<c>> \in Seq(S) /\ Len(<<c>>) = 1 /\ <<c>>[1] = c
    OBVIOUS
  <2> QED BY <2>1, Zenon
<1>3. PICK z \in Seq(S) : z = <<a, b, c>> /\ Len(z) = 3 /\ z[1] = a /\ z[2] = b /\ z[3] = c
  <2>1. /\ <<a, b, c>> \in Seq(S) /\ Len(<<a, b, c>>) = 3
        /\ <<a, b, c>>[1] = a /\ <<a, b, c>>[2] = b /\ <<a, b, c>>[3] = c
    OBVIOUS
  <2> QED BY <2>1, Zenon
<1>4. PICK w : w = x \o y
  OBVIOUS
<1>5. /\ w \in Seq(S) /\ Len(w) = Len(x) + Len(y)
      /\ \A i \in 1 .. Len(x) + Len(y) :
           w[i] = IF i <= Len(x) THEN x[i] ELSE y[i - Len(x)]
  <2>1. /\ x \o y \in Seq(S) /\ Len(x \o y) = Len(x) + Len(y)
        /\ \A i \in 1 .. Len(x) + Len(y) :
             (x \o y)[i] = IF i <= Len(x) THEN x[i] ELSE y[i - Len(x)]
    BY ConcatProperties, Zenon
  <2> QED BY <1>4, <2>1, Zenon
<1>6. Len(w) = 3 /\ w[1] = a /\ w[2] = b /\ w[3] = c
  BY <1>1, <1>2, <1>5
<1>7. \A i \in 1 .. 3 : w[i] = z[i]
  BY <1>3, <1>6
<1>8. w = z
  BY <1>3, <1>5, <1>6, <1>7, SeqEqual
<1> QED BY <1>1, <1>2, <1>3, <1>4, <1>8, Zenon

LEMMA DisposeLive ==
  ASSUME IInv, PoolPluginDispose, This.mem = "live"
  PROVE  IInv'
<1>1. TypeOK /\ Linked /\ Grouped /\ Creating /\ Bracketing /\ Disposing
  BY DEF IInv
<1>2. /\ phase # "crashed" /\ stack # <<>> /\ Top.f = "dispose" /\ Top.p \in Plugins
      /\ Makes(DisposedChildren \o <<Free(Top.p)>>)
      /\ script' = script /\ plugin' = plugin /\ root' = root /\ made' = made
      /\ window' = window /\ context' = context /\ bev' = bev /\ misused' = misused
      /\ phase' = phase /\ count' = count /\ stale' = stale
  BY Zenon DEF PoolPluginDispose, Calls, graph, data
<1>t. PICK t \in Plugins : t = Top.p
  BY <1>2
<1>3. /\ phase = "dispose" /\ root \in Plugins
      /\ \A i \in DOMAIN stack : stack[i].f \in {"dispose", "free"}
  BY <1>1, <1>2, IsDisposal
<1>4. /\ SamePlugins /\ Quiet /\ Reachable' = Reachable /\ (Shared' <=> Shared)
  BY <1>2, <1>3, Unchanged DEF Quiet
<1>5. PICK a \in Frame, b \in Frame, c \in Frame :
        /\ a.f = "dispose" /\ a.p = This.apply
        /\ b.f = "dispose" /\ b.p = This.failed
        /\ c.f = "free" /\ c.p = t
        /\ Makes(<<a, b, c>>)
  <2>1. /\ "dispose" \in Functions /\ "free" \in Functions /\ {} \in SUBSET Features /\ 0 \in Nat
        /\ This.apply \in Links /\ This.failed \in Links /\ t \in Links
    BY <1>1, <1>2, TopType DEF Functions, Links
  <2>2. PICK a \in Frame, b \in Frame, c \in Frame :
          /\ a = Dispose_(This.apply) /\ a.f = "dispose" /\ a.p = This.apply
          /\ b = Dispose_(This.failed) /\ b.f = "dispose" /\ b.p = This.failed
          /\ c = Free(t) /\ c.f = "free" /\ c.p = t
    BY <2>1, CallType DEF Dispose_, Free
  <2>3. Makes(<<a, b>> \o <<c>>)
    BY <1>2, <1>t, <2>2, Zenon DEF DisposedChildren
  <2>4. <<a, b>> \o <<c>> = <<a, b, c>>
    BY ThreeCalls, Zenon
  <2>5. Makes(<<a, b, c>>)
    BY <2>3, <2>4, Zenon
  <2> QED BY <2>2, <2>5, Zenon
<1>6. /\ stack' \in Seq(Frame)
      /\ stack'[1] = a /\ stack'[2] = b /\ stack'[3] = c
      /\ \A i \in DOMAIN stack' : i \in Nat \ {0}
      /\ \A i \in DOMAIN stack' :
           \/ i \in {1, 2, 3}
           \/ /\ i - 2 \in DOMAIN stack /\ i - 2 \in 2 .. Len(stack)
              /\ stack'[i] = stack[i - 2]
  BY <1>1, <1>2, <1>5, CallsThree
<1>7. /\ \A p \in Plugins : Pending("dispose", p)' <=> Child(t, p) \/ PendingBehind("dispose", p)
      /\ \A p \in Plugins : Pending("free", p)' <=> p = t \/ PendingBehind("free", p)
  <2>1. \A f, p : Pending(f, p)' <=> \/ a.f = f /\ a.p = p
                                     \/ b.f = f /\ b.p = p
                                     \/ c.f = f /\ c.p = p
                                     \/ PendingBehind(f, p)
    BY <1>1, <1>2, <1>5, CallsThree
  <2> QED BY <1>5, <1>t, <2>1 DEF Child, This
<1>8. /\ \A p \in Plugins : Pending("dispose", p) <=> p = t \/ PendingBehind("dispose", p)
      /\ \A p \in Plugins : Pending("free", p) <=> PendingBehind("free", p)
  BY <1>1, <1>2, <1>t, PendingTop
<1>9. \A p \in Plugins : Met(p)' <=> Met(p) \/ p = t
  BY <1>2, <1>7, <1>8 DEF Met
<1>10. t \in Reachable /\ 1 \in DOMAIN stack /\ Top = stack[1]
  <2>1. 1 \in DOMAIN stack /\ Top = stack[1]
    BY <1>1, <1>2, TopType
  <2> QED BY <1>1, <1>t, <2>1 DEF Grouped
<1>11. \A i \in DOMAIN stack' : /\ stack'[i].f \in {"dispose", "free"}
                                /\ stack'[i].p \in Plugins => stack'[i].p \in Reachable
  <2>1. \A q \in Plugins : q = a.p \/ q = b.p => q \in Reachable
    BY <1>5, <1>t, <1>10, ReachableLeast DEF Child, This
  <2> QED BY <1>1, <1>3, <1>5, <1>6, <1>10, <2>1 DEF Grouped
<1>12. TypeOK'
  BY <1>1, <1>2, <1>6 DEF TypeOK
<1>13. Linked'
  BY <1>1, <1>4, QuietLinked
<1>14. Grouped'
  <2>1. \A i \in DOMAIN stack' : Alike(stack'[i].f, stack[1].f)
    BY <1>3, <1>10, <1>11 DEF Alike
  <2> QED BY <1>1, <1>2, <1>3, <1>4, <1>10, <1>11, <2>1, SameGrouped
<1>15. Creating'
  <2>1. /\ \A i \in DOMAIN stack : stack[i].f \notin {"init", "created"}
        /\ \A i \in DOMAIN stack' : stack'[i].f \notin {"init", "created"}
    BY <1>3, <1>11
  <2> QED BY <1>1, <1>2, <1>3, <1>4, <2>1, NoCreation DEF SamePlugins
<1>16. Bracketing'
  <2>1. /\ \A i \in DOMAIN stack : stack[i].f # "apply"
        /\ \A i \in DOMAIN stack' : stack'[i].f # "apply" \/ stack'[i].p = root
    BY <1>3, <1>11
  <2> QED BY <1>1, <1>2, <1>3, <1>4, <2>1, BracketingBetween
<1>17. Disposing'
  <2>1. \A p, q \in Plugins : Child(p, q)' <=> Child(p, q)
    BY <1>4 DEF SamePlugins, SameLinks
  <2>2. /\ \A p \in Plugins : Met(p) => p \in Reachable
        /\ Met(root) \/ Pending("dispose", root)
        /\ \A p, q \in Plugins : Met(p) /\ Child(p, q) => Met(q) \/ Pending("dispose", q)
    BY <1>1, <1>3 DEF Disposing
  <2>3. /\ \A p \in Plugins : Met(p)' => p \in Reachable'
        /\ Met(root)' \/ Pending("dispose", root)'
        /\ \A p, q \in Plugins :
             Met(p)' /\ Child(p, q)' => Met(q)' \/ Pending("dispose", q)'
    <3>1. Met(root)' \/ Pending("dispose", root)'
      BY <1>2, <1>3, <1>7, <1>8, <1>9, <2>2
    <3>2. \A p \in Plugins : Met(p)' => p \in Reachable'
      BY <1>4, <1>9, <1>10, <2>2
    <3>3. \A p, q \in Plugins : Met(p)' /\ Child(p, q)' => Met(q)' \/ Pending("dispose", q)'
      BY <1>7, <1>8, <1>9, <2>1, <2>2
    <3> QED BY <3>1, <3>2, <3>3
  <2>4. ASSUME ~Shared
        PROVE  /\ \A i, j \in DOMAIN stack' :
                    stack'[i].f = "dispose" /\ stack'[j].f = "dispose"
                      /\ stack'[i].p \in Plugins /\ stack'[i].p = stack'[j].p => i = j
               /\ \A p \in Plugins : Pending("dispose", p)' => ~Met(p)'
               /\ \A p \in Plugins : Met(p)' \/ Pending("dispose", p)' =>
                    p = root \/ \E y \in Reachable : Child(y, p)' /\ Met(y)'
    <3>1. /\ \A i, j \in DOMAIN stack :
               stack[i].f = "dispose" /\ stack[j].f = "dispose"
                 /\ stack[i].p \in Plugins /\ stack[i].p = stack[j].p => i = j
          /\ \A p \in Plugins : Pending("dispose", p) => ~Met(p)
          /\ \A p \in Plugins : Met(p) \/ Pending("dispose", p) =>
               p = root \/ \E y \in Reachable : Child(y, p) /\ Met(y)
      BY <1>1, <1>3, <2>4 DEF Disposing
    <3>2. ~Met(t)
      BY <1>8, <3>1
    \* A child of the plugin has not been met before.
    <3>3. \A q \in Plugins : Child(t, q) => ~Met(q) /\ ~PendingBehind("dispose", q) /\ q # t
      <4> SUFFICES ASSUME NEW q \in Plugins, Child(t, q)
                   PROVE  ~Met(q) /\ ~PendingBehind("dispose", q) /\ q # t
        OBVIOUS
      <4>a. Ordered /\ \A x \in Reachable : plugin[x].inited
        BY <1>1, <1>3, AllCreated DEF Creating
      <4>1. q # root
        BY <1>3, <1>10, <4>a, RootNoParent
      <4>2. q # t
        BY <1>10, <4>a, BelowLeast, NotBelow
      <4>3. ~ \E y \in Reachable : Child(y, q) /\ Met(y)
        BY <1>10, <2>4, <3>2 DEF Shared
      <4> QED BY <1>8, <3>1, <4>1, <4>2, <4>3
    <3>4. \A q \in Plugins : ~(This.apply = q /\ This.failed = q)
      BY <1>10, <1>t, <2>4 DEF Shared, This
    <3>5. ~PendingBehind("dispose", t)
      <4>1. SUFFICES ASSUME NEW i \in 2 .. Len(stack), stack[i].f = "dispose", stack[i].p = t
                     PROVE  FALSE
        BY DEF PendingBehind
      <4>2. i \in DOMAIN stack /\ i # 1
        BY <1>1, <4>1 DEF TypeOK
      <4> QED BY <1>2, <1>t, <1>10, <3>1, <4>1, <4>2
    <3>6. ASSUME NEW i \in DOMAIN stack', NEW j \in DOMAIN stack',
                 stack'[i].f = "dispose", stack'[j].f = "dispose",
                 stack'[i].p \in Plugins, stack'[i].p = stack'[j].p
          PROVE  i = j
      <4>1. ASSUME NEW x \in DOMAIN stack', NEW q \in Plugins,
                   stack'[x].f = "dispose", stack'[x].p = q
            PROVE  \/ x = 1 /\ This.apply = q
                   \/ x = 2 /\ This.failed = q
                   \/ x - 2 \in DOMAIN stack /\ x - 2 \in 2 .. Len(stack) /\ stack'[x] = stack[x - 2]
        BY <1>5, <1>6, <4>1
      <4>2. ASSUME NEW x \in DOMAIN stack', NEW q \in Plugins,
                   stack'[x].f = "dispose", stack'[x].p = q, Child(t, q)
            PROVE  x \in {1, 2}
        <5>1. ASSUME x - 2 \in 2 .. Len(stack), stack'[x] = stack[x - 2]
              PROVE  PendingBehind("dispose", q)
          BY <4>2, <5>1 DEF PendingBehind
        <5> QED BY <3>3, <4>1, <4>2, <5>1
      <4>3. PICK q \in Plugins : q = stack'[i].p
        BY <3>6
      <4>4. CASE i \in {1, 2} \/ j \in {1, 2}
        <5>1. Child(t, q)
          BY <1>5, <1>6, <1>t, <3>6, <4>3, <4>4 DEF Child, This
        <5>2. i \in {1, 2} /\ j \in {1, 2}
          BY <3>6, <4>2, <4>3, <5>1
        <5> QED BY <1>5, <1>6, <3>4, <3>6, <4>3, <5>2
      <4>5. CASE i \notin {1, 2} /\ j \notin {1, 2}
        <5>1. /\ i - 2 \in DOMAIN stack /\ stack'[i] = stack[i - 2] /\ i \in Nat
              /\ j - 2 \in DOMAIN stack /\ stack'[j] = stack[j - 2] /\ j \in Nat
          BY <1>6, <3>6, <4>1, <4>3, <4>5
        <5>2. i - 2 = j - 2
          BY <3>1, <3>6, <5>1
        <5> QED BY <5>1, <5>2
      <4> QED BY <4>4, <4>5
    <3>7. \A p \in Plugins : Pending("dispose", p)' => ~Met(p)'
      BY <1>7, <1>8, <1>9, <3>1, <3>3, <3>5
    <3>8. ASSUME NEW p \in Plugins, Met(p)' \/ Pending("dispose", p)'
          PROVE  p = root \/ \E y \in Reachable : Child(y, p)' /\ Met(y)'
      <4>1. CASE Child(t, p)
        BY <1>9, <1>10, <2>1, <4>1
      <4>2. CASE ~Child(t, p)
        <5>1. Met(p) \/ Pending("dispose", p)
          BY <1>7, <1>8, <1>9, <3>8, <4>2
        <5>2. p = root \/ \E y \in Reachable : Child(y, p) /\ Met(y)
          BY <3>1, <5>1
        <5>3. Reachable \subseteq Plugins
          BY ReachableLeast
        <5> QED BY <1>9, <2>1, <5>2, <5>3
      <4> QED BY <4>1, <4>2
    <3> QED BY <3>6, <3>7, <3>8
  <2>5. stale' => Shared'
    BY <1>1, <1>2, <1>4 DEF Disposing
  <2> QED BY <1>2, <1>4, <2>3, <2>4, <2>5 DEF Disposing
<1> QED BY <1>12, <1>13, <1>14, <1>15, <1>16, <1>17 DEF IInv

\* The procedure runs its next operation.
LEMMA Operates ==
  ASSUME TypeOK, Linked, NEW o, Op(o), Advance
  PROVE  /\ phase = "build" /\ Head(script.ops) \in Operation /\ Head(script.ops).op = o
         /\ script' \in [api : {"c", "konoha"}, ops : Seq(Operation)]
         /\ script'.api = script.api
<1>1. phase = "build" /\ script.ops # <<>> /\ Head(script.ops).op = o
  BY DEF Op
<1>2. PICK ops \in Seq(Operation) : ops = script.ops /\ ops # <<>>
  BY <1>1 DEF TypeOK
<1>3. script' = [script EXCEPT !.ops = Tail(ops)]
  BY <1>2, Zenon DEF Advance
<1>4. /\ Head(ops) = ops[1] /\ Head(ops) \in Operation /\ 1 \in DOMAIN ops
      /\ Tail(ops) \in Seq(Operation)
  BY <1>2
<1>5. /\ script' \in [api : {"c", "konoha"}, ops : Seq(Operation)]
      /\ script'.api = script.api /\ script'.ops = Tail(ops)
  BY <1>3, <1>4 DEF TypeOK
<1> QED BY <1>1, <1>2, <1>4, <1>5

\* While the procedure runs nothing is called, created or freed.
LEMMA BuildStep ==
  ASSUME IInv, phase = "build", phase' = "build",
         script' \in [api : {"c", "konoha"}, ops : Seq(Operation)],
         plugin' \in [Plugins -> Struct],
         root' = root, stack' = stack, window' = window, context' = context, bev' = bev,
         misused' = misused, count' = count, made' = made, stale' = stale,
         \A p \in Plugins : /\ ~plugin'[p].inited
                            /\ plugin'[p].mem = "freed" => plugin[p].mem = "freed"
                            /\ plugin'[p].kind = "none" => plugin'[p].mem = "unused"
                            /\ plugin'[p].mem = "unused" => plugin'[p].kind = "none"
  PROVE  IInv'
<1>1. TypeOK /\ Linked /\ Grouped /\ Creating /\ Bracketing /\ Disposing
  BY DEF IInv
<1>2. stack = <<>> /\ root = NULL /\ misused = {}
      /\ \A p \in Plugins : made[p] = 0 /\ context[p] = "none"
  BY <1>1 DEF Linked
<1>3. TypeOK'
  BY <1>1 DEF TypeOK
<1>4. Linked'
  BY <1>1, <1>2 DEF Linked
<1>5. Grouped'
  BY <1>1, <1>2 DEF Grouped
<1>6. Creating'
  BY <1>2 DEF Creating, Ordered, Waiting, Pending
<1>7. Bracketing'
  BY DEF Bracketing
<1>8. Disposing'
  BY <1>1 DEF Grouped, Disposing
<1> QED BY <1>3, <1>4, <1>5, <1>6, <1>7, <1>8 DEF IInv

LEMMA FlagsType ==
  ASSUME NEW flag \in Flag, NEW f \in Flags(flag)
  PROVE  f \in Flag
<1>1. CASE script.api = "konoha"
  <2>1. PICK word \in Unpassed : f = [flag EXCEPT ![3] = word]
    BY <1>1 DEF Flags
  <2>2. word \in Nat
    BY DataAssumption
  <2> QED BY <2>1, <2>2 DEF Flag
<1>2. CASE script.api # "konoha"
  BY <1>2 DEF Flags
<1> QED BY <1>1, <1>2

LEMMA CloneStep ==
  ASSUME IInv, Clone
  PROVE  IInv'
<1>1. TypeOK /\ Linked
  BY DEF IInv
<1>2. PICK op : op = Head(script.ops)
  OBVIOUS
<1>3. /\ Op("new") /\ Advance
      /\ \E flag \in Flags(op.flag) :
           plugin' = [plugin EXCEPT ![op.p] = [Unused EXCEPT !.kind = op.kind, !.mem = "live",
                                                             !.flag = flag]]
      /\ root' = root /\ stack' = stack /\ window' = window /\ context' = context
      /\ bev' = bev /\ misused' = misused /\ phase' = phase /\ count' = count /\ made' = made
      /\ stale' = stale
  BY <1>2, Zenon DEF Clone, data
<1>4. /\ phase = "build" /\ op \in Operation /\ op.op = "new"
      /\ script' \in [api : {"c", "konoha"}, ops : Seq(Operation)]
  BY <1>1, <1>2, <1>3, Operates
<1>5. op.p \in Plugins /\ op.kind \in Kinds /\ op.flag \in Flag
  BY <1>4 DEF Operation
<1>6. PICK flag \in Flag :
        plugin' = [plugin EXCEPT ![op.p] = [Unused EXCEPT !.kind = op.kind, !.mem = "live",
                                                          !.flag = flag]]
  BY <1>3, <1>5, FlagsType
<1>7. PICK new \in Struct : /\ plugin' = [plugin EXCEPT ![op.p] = new]
                            /\ new.kind = op.kind /\ new.mem = "live" /\ ~new.inited
                            /\ new.apply = NULL /\ new.failed = NULL
  <2>1. PICK new : new = [Unused EXCEPT !.kind = op.kind, !.mem = "live", !.flag = flag]
    OBVIOUS
  <2>2. /\ new \in Struct /\ new.kind = op.kind /\ new.mem = "live" /\ ~new.inited
        /\ new.apply = NULL /\ new.failed = NULL
    BY <1>5, <2>1 DEF Unused, Struct, Links
  <2> QED BY <1>6, <2>1, <2>2, Zenon
<1>8. plugin \in [Plugins -> Struct] /\ plugin' \in [Plugins -> Struct]
      /\ plugin'[op.p] = new /\ \A p \in Plugins : p # op.p => plugin'[p] = plugin[p]
  BY <1>1, <1>5, <1>7 DEF TypeOK
<1>9. \A p \in Plugins : /\ ~plugin'[p].inited
                         /\ plugin'[p].mem = "freed" => plugin[p].mem = "freed"
                         /\ plugin'[p].kind = "none" => plugin'[p].mem = "unused"
                         /\ plugin'[p].mem = "unused" => plugin'[p].kind = "none"
  <2>1. "none" \notin Kinds
    BY DEF Kinds
  <2> QED BY <1>1, <1>4, <1>5, <1>7, <1>8, <2>1 DEF Linked
<1> QED BY <1>3, <1>4, <1>8, <1>9, BuildStep

LEMMA HangStep ==
  ASSUME IInv, SetApply \/ SetFailed
  PROVE  IInv'
<1>1. TypeOK /\ Linked
  BY DEF IInv
<1>2. PICK op : op = Head(script.ops)
  OBVIOUS
<1>3. PICK field \in {"apply", "failed"} :
        /\ Op(field) /\ Advance
        /\ \/ plugin' = [plugin EXCEPT ![op.p].apply = op.q]
           \/ plugin' = [plugin EXCEPT ![op.p].failed = op.q]
        /\ root' = root /\ stack' = stack /\ window' = window /\ context' = context
        /\ bev' = bev /\ misused' = misused /\ phase' = phase /\ count' = count /\ made' = made
        /\ stale' = stale
  BY <1>2, Zenon DEF SetApply, SetFailed, data
<1>4. /\ phase = "build" /\ op \in Operation /\ op.op = field
      /\ script' \in [api : {"c", "konoha"}, ops : Seq(Operation)]
  BY <1>1, <1>2, <1>3, Operates
<1>5. op.p \in Plugins /\ op.q \in Plugins
  BY <1>4 DEF Operation
<1>6. plugin \in [Plugins -> Struct]
  BY <1>1 DEF TypeOK
<1>7. PICK x \in Plugins, y \in Plugins : x = op.p /\ y = op.q
  BY <1>5
<1>8. /\ plugin' \in [Plugins -> Struct]
      /\ \A p \in Plugins : /\ plugin'[p].kind = plugin[p].kind /\ plugin'[p].mem = plugin[p].mem
                            /\ plugin'[p].inited = plugin[p].inited
                            /\ p # x => plugin'[p] = plugin[p]
  <2>1. CASE plugin' = [plugin EXCEPT ![x].apply = y]
    BY <1>6, <2>1 DEF Struct, Links
  <2>2. CASE plugin' = [plugin EXCEPT ![x].failed = y]
    BY <1>6, <2>2 DEF Struct, Links
  <2> QED BY <1>3, <1>7, <2>1, <2>2
<1>9. \A p \in Plugins : /\ ~plugin'[p].inited
                         /\ plugin'[p].mem = "freed" => plugin[p].mem = "freed"
                         /\ plugin'[p].kind = "none" => plugin'[p].mem = "unused"
                         /\ plugin'[p].mem = "unused" => plugin'[p].kind = "none"
  BY <1>1, <1>4, <1>8 DEF Linked
<1> QED BY <1>3, <1>4, <1>8, <1>9, BuildStep

LEMMA ReturnStep ==
  ASSUME IInv, ReturnRoot
  PROVE  IInv'
<1>1. TypeOK /\ Linked /\ Grouped /\ Creating /\ Bracketing /\ Disposing
  BY DEF IInv
<1>2. PICK op : op = Head(script.ops)
  OBVIOUS
<1>3. /\ Op("return") /\ Advance
      /\ root' = op.p /\ stack' = <<Init_(op.p)>> /\ phase' = "run"
      /\ plugin' = plugin /\ window' = window /\ context' = context
      /\ bev' = bev /\ misused' = misused /\ count' = count /\ made' = made /\ stale' = stale
  BY <1>2, Zenon DEF ReturnRoot, data
<1>4. /\ phase = "build" /\ op \in Operation /\ op.op = "return"
      /\ script' \in [api : {"c", "konoha"}, ops : Seq(Operation)]
  BY <1>1, <1>2, <1>3, Operates
<1>5. PICK r \in Plugins : r = op.p
  BY <1>4 DEF Operation
<1>6. PICK c \in Frame : stack' = <<c>> /\ c.f = "init" /\ c.p = r
  <2>1. "init" \in Functions /\ r \in Links /\ {} \in SUBSET Features /\ 0 \in Nat
    BY DEF Functions, Links
  <2> QED BY <1>3, <1>5, <2>1, CallType DEF Init_
<1>7. stack' \in Seq(Frame) /\ DOMAIN stack' = {1} /\ stack'[1] = c
  BY <1>6
<1>8. /\ misused = {} /\ ~stale
      /\ \A p \in Plugins : /\ made[p] = 0 /\ ~plugin[p].inited /\ context[p] = "none"
                            /\ plugin[p].mem # "freed"
  BY <1>1, <1>4 DEF Linked, Grouped
<1>9. \A p, q \in Plugins : Child(p, q)' <=> Child(p, q)
  BY <1>3 DEF Child
<1>10. r \in Reachable'
  BY <1>3, <1>5 DEF Reachable
<1>11. TypeOK'
  BY <1>1, <1>3, <1>4, <1>5, <1>7 DEF TypeOK
<1>12. Linked'
  <2>2. \A p \in Plugins : /\ plugin[p].kind = "none" => plugin[p].mem = "unused"
                           /\ plugin[p].mem = "unused" => plugin[p].kind = "none"
    BY <1>1 DEF Linked
  <2> QED BY <1>3, <1>5, <2>2 DEF Linked
<1>13. Grouped'
  BY <1>3, <1>5, <1>6, <1>7, <1>8, <1>10 DEF Grouped, Creates
<1>14. Creating'
  <2>1. \A f, p : Pending(f, p)' <=> f = "init" /\ p = r
    BY <1>6, <1>7 DEF Pending
  <2>2. Pending("init", root)'
    BY <1>3, <1>5, <2>1
  <2>3. Ordered'
    BY <1>3, <1>8 DEF Ordered
  <2>4. Waiting'
    BY <1>6, <1>7 DEF Waiting
  <2> QED BY <1>3, <1>8, <2>1, <2>2, <2>3, <2>4 DEF Creating
<1>15. Bracketing'
  <2> SUFFICES ASSUME NEW p \in Plugins, NEW L \in SUBSET Plugins
               PROVE  Windowed(L, p)'
    BY DEF Bracketing, Windowed
  <2>1. \A i \in DOMAIN stack' : ~Leading(L, stack'[i])
    BY <1>6, <1>7 DEF Leading
  <2> QED BY <1>3, <1>8, <2>1, NothingLeads
<1>16. Disposing'
  BY <1>3, <1>8 DEF Disposing
<1> QED BY <1>11, <1>12, <1>13, <1>14, <1>15, <1>16 DEF IInv

LEMMA HandsOnStep ==
  ASSUME IInv, HandsOn
  PROVE  IInv'
<1>1. TypeOK /\ Linked /\ Grouped /\ Creating /\ Bracketing /\ Disposing
  BY DEF IInv
<1>2. TypeOK'
  BY <1>1, HandsOnType
<1>3. Linked'
  BY <1>1, HandsOnQuiet, QuietLinked
<1>4. Grouped'
  BY <1>1, HandsOnGrouped
<1>5. Creating'
  BY <1>1, HandsOnCreating
<1>6. Bracketing'
  BY <1>1, HandsOnBracketing
<1>7. Disposing'
  BY <1>1, HandsOnDisposing
<1> QED BY <1>2, <1>3, <1>4, <1>5, <1>6, <1>7 DEF IInv

\* The process ends.
LEMMA CrashStep ==
  ASSUME IInv, Crash, phase # "build", phase # "crashed",
         script' = script, plugin' = plugin, root' = root, made' = made, window' = window,
         context' = context, bev' = bev, misused' = misused, count' = count, stale' = stale
  PROVE  IInv'
<1>1. TypeOK /\ Linked /\ Grouped /\ Creating /\ Bracketing /\ Disposing
  BY DEF IInv
<1>2. stack' = <<>> /\ phase' = "crashed"
  BY DEF Crash
<1>3. SamePlugins /\ Quiet /\ (Shared' <=> Shared)
  BY <1>2, Unchanged DEF Quiet
<1>4. TypeOK'
  <2>1. <<>> \in Seq(Frame)
    OBVIOUS
  <2> QED BY <1>1, <1>2, <2>1 DEF TypeOK
<1>5. Linked'
  BY <1>1, <1>3, QuietLinked
<1>6. Grouped'
  BY <1>2 DEF Grouped
<1>7. Creating'
  <2>1. \A f, p : ~Pending(f, p)'
    BY <1>2 DEF Pending
  <2>2. \A p, q \in Plugins : Child(p, q)' <=> Child(p, q)
    BY DEF Child
  <2>3. Ordered'
    BY <1>1, <2>2 DEF Creating, Ordered
  <2>4. Waiting'
    BY <1>2 DEF Waiting
  <2> QED BY <1>1, <1>2, <2>1, <2>2, <2>3, <2>4 DEF Creating
<1>8. Bracketing'
  <2> SUFFICES ASSUME script.api = "c", NEW p \in Plugins, NEW L \in SUBSET Plugins,
                      plugin[p].kind = "statics", Leads(L, p)'
               PROVE  p \notin misused
    BY <1>2 DEF Bracketing
  <2>1. Leads(L, p)
    BY <1>3, SameLeads
  <2> QED BY <1>1, <2>1 DEF Bracketing
<1>9. Disposing'
  BY <1>1, <1>2, <1>3 DEF Disposing
<1> QED BY <1>4, <1>5, <1>6, <1>7, <1>8, <1>9 DEF IInv

\* A connection changes, and nothing else, or nothing at all.
LEMMA OnlyBev ==
  ASSUME IInv, script' = script, plugin' = plugin, root' = root, stack' = stack,
         window' = window, context' = context, phase' = phase, count' = count,
         made' = made, misused' = misused, stale' = stale,
         bev' \in [Plugins -> {"live", "freed", "quit", "joined"}]
  PROVE  IInv'
<1>1. TypeOK /\ Linked /\ Grouped /\ Creating /\ Bracketing /\ Disposing
  BY DEF IInv
<1>2. SamePlugins /\ Reachable' = Reachable /\ (Shared' <=> Shared)
  BY Unchanged
<1>3. \A p, q : Child(p, q)' <=> Child(p, q)
  BY DEF Child
<1>4. \A f, p : Pending(f, p)' <=> Pending(f, p)
  BY DEF Pending
<1>5. TypeOK'
  BY <1>1 DEF TypeOK
<1>6. Linked'
  BY <1>1 DEF Linked
<1>7. Grouped'
  BY <1>1, <1>2 DEF Grouped, Handles, Creates, Disposes
<1>8. Creating'
  <2>1. (Ordered' <=> Ordered) /\ (Waiting' <=> Waiting)
    BY <1>3 DEF Ordered, Waiting
  <2>2. /\ Pending("init", root)' <=> Pending("init", root)
        /\ Pending("created", root)' <=> Pending("created", root)
    BY DEF Pending
  <2> QED BY <1>1, <1>3, <1>4, <2>1, <2>2 DEF Creating
<1>9. Bracketing'
  <2>1. \A p, L : Windowed(L, p)' <=> Windowed(L, p)
    BY DEF Windowed, FollowsAt, Follows, GoesOn, Leading
  <2>2. \A p, L : Leads(L, p)' <=> Leads(L, p)
    BY <1>2 DEF Leads, Keeps
  <2> QED BY <1>1, <2>1, <2>2 DEF Bracketing
<1>10. Disposing'
  <2>1. \A p : Met(p)' <=> Met(p)
    BY <1>4 DEF Met
  <2>2. (Met(root)' <=> Met(root)) /\ (Pending("dispose", root)' <=> Pending("dispose", root))
    BY DEF Met, Pending
  <2> QED BY <1>1, <1>2, <1>3, <1>4, <2>1, <2>2 DEF Disposing
<1> QED BY <1>5, <1>6, <1>7, <1>8, <1>9, <1>10 DEF IInv

\* A graph that hangs below itself.
LEMMA LoopsStep ==
  ASSUME IInv, PoolPluginInitLoops
  PROVE  IInv'
<1>1. TypeOK /\ Linked /\ Grouped
  BY DEF IInv
<1>2. /\ phase # "crashed" /\ stack # <<>> /\ Top.f = "init" /\ Crash
      /\ script' = script /\ plugin' = plugin /\ root' = root /\ made' = made
      /\ window' = window /\ context' = context /\ bev' = bev /\ misused' = misused
      /\ count' = count /\ stale' = stale
  BY Zenon DEF PoolPluginInitLoops, Calls, graph, data
<1>3. phase # "build"
  BY <1>1, <1>2, Initialises
<1> QED BY <1>2, <1>3, CrashStep

LEMMA QuitStep ==
  ASSUME IInv, StreamQuit
  PROVE  IInv'
<1>1. TypeOK /\ Linked /\ Grouped
  BY DEF IInv
<1>2. /\ phase # "crashed" /\ stack # <<>> /\ Top.f = "free" /\ Top.p \in Plugins
      /\ \/ bev' = [bev EXCEPT ![Top.p] = "quit"] /\ stack' = stack /\ phase' = phase
         \/ Crash /\ bev' = bev
      /\ script' = script /\ plugin' = plugin /\ root' = root /\ made' = made
      /\ window' = window /\ context' = context /\ misused' = misused
      /\ count' = count /\ stale' = stale
  BY Zenon DEF StreamQuit, Calls, graph
<1>3. phase # "build"
  BY <1>1, <1>2, IsDisposal
<1>4. CASE Crash /\ bev' = bev
  BY <1>2, <1>3, <1>4, CrashStep
<1>5. CASE bev' = [bev EXCEPT ![Top.p] = "quit"] /\ stack' = stack /\ phase' = phase
  <2>1. bev' \in [Plugins -> {"live", "freed", "quit", "joined"}]
    BY <1>1, <1>2, <1>5 DEF TypeOK
  <2> QED BY <1>2, <1>5, <2>1, OnlyBev
<1> QED BY <1>2, <1>4, <1>5

LEMMA EndStep ==
  ASSUME IInv, NEW p \in Plugins, ConnectionEnds(p)
  PROVE  IInv'
<1>1. bev \in [Plugins -> {"live", "freed", "quit", "joined"}]
  BY DEF IInv, TypeOK
<1>2. /\ bev' = [bev EXCEPT ![p] = "freed"] \/ bev' = [bev EXCEPT ![p] = "joined"]
      /\ script' = script /\ plugin' = plugin /\ root' = root /\ made' = made
      /\ stack' = stack /\ window' = window /\ context' = context /\ misused' = misused
      /\ phase' = phase /\ count' = count /\ stale' = stale
  BY Zenon DEF ConnectionEnds, graph
<1>3. bev' \in [Plugins -> {"live", "freed", "quit", "joined"}]
  BY <1>1, <1>2
<1> QED BY <1>2, <1>3, OnlyBev

LEMMA NextStep ==
  ASSUME IInv, Next
  PROVE  IInv'
<1>1. CASE Clone \/ SetApply \/ SetFailed \/ ReturnRoot
  BY <1>1, CloneStep, HangStep, ReturnStep
<1>2. CASE PoolPluginInit \/ PoolPluginInitLoops
  BY <1>2, InitStep, InitedAgain, LoopsStep
<1>3. CASE PoolPluginCreated \/ NopPlugin \/ PluginFree
  BY <1>3, CreatedStep, NopPluginStep, FreeStep
<1>4. CASE PoolPluginDispose \/ StreamQuit
  BY <1>4, DisposeLive, DisposeFreed, QuitStep
<1>5. CASE PoolExec \/ Disposal
  BY <1>5, PoolExecStep, DisposalStep
<1>6. CASE HandsOn
  BY <1>6, HandsOnStep
<1>7. CASE \E p \in Plugins : ConnectionEnds(p)
  BY <1>7, EndStep
<1> QED BY <1>1, <1>2, <1>3, <1>4, <1>5, <1>6, <1>7, Zenon DEF Next, Step, HandsOn

LEMMA Stutters ==
  ASSUME IInv, UNCHANGED vars
  PROVE  IInv'
<1>1. /\ script' = script /\ plugin' = plugin /\ root' = root /\ stack' = stack
      /\ window' = window /\ context' = context /\ bev' = bev /\ phase' = phase
      /\ count' = count /\ made' = made /\ misused' = misused /\ stale' = stale
  BY DEF vars
<1>2. bev \in [Plugins -> {"live", "freed", "quit", "joined"}]
  BY DEF IInv, TypeOK
<1> QED BY <1>1, <1>2, OnlyBev

LEMMA InitInv ==
  ASSUME Init
  PROVE  IInv
<1>1. /\ script \in Scripts /\ script \in [api : {"c", "konoha"}, ops : Seq(Operation)]
      /\ plugin = [p \in Plugins |-> Unused] /\ root = NULL /\ stack = <<>>
      /\ window = [p \in Plugins |-> <<>>] /\ context = [p \in Plugins |-> "none"]
      /\ bev = [p \in Plugins |-> "live"]
      /\ phase = "build" /\ count = 0 /\ made = [p \in Plugins |-> 0]
      /\ misused = {} /\ stale = FALSE
  BY ScriptsAssumption DEF Init
<1>2. \A p \in Plugins : /\ plugin[p].kind = "none" /\ plugin[p].mem = "unused"
                         /\ ~plugin[p].inited
                         /\ plugin[p].apply = NULL /\ plugin[p].failed = NULL
  BY <1>1 DEF Unused
<1>3. TypeOK
  <2>1. Unused \in Struct
    BY DEF Unused, Struct, NoFlag, Flag, Links
  <2>2. plugin \in [Plugins -> Struct] /\ window \in [Plugins -> Seq(SUBSET Features)]
    BY <1>1, <2>1
  <2>3. /\ context \in [Plugins -> {"none", "open", "closed"}] /\ made \in [Plugins -> Nat]
        /\ bev \in [Plugins -> {"live", "freed", "quit", "joined"}]
    BY <1>1
  <2>4. /\ root \in Plugins \cup {NULL} /\ phase \in {"build", "run", "dispose", "crashed"}
        /\ count \in Nat /\ misused \subseteq Plugins /\ stale \in BOOLEAN
    BY <1>1
  <2>5. stack \in Seq(Frame)
    <3>1. <<>> \in Seq(Frame)
      OBVIOUS
    <3> QED BY <1>1, <3>1, Zenon
  <2> QED BY <1>1, <2>2, <2>3, <2>4, <2>5, Zenon DEF TypeOK
<1>4. Linked
  BY <1>1, <1>2 DEF Linked
<1>5. Grouped
  BY <1>1, <1>2 DEF Grouped
<1>6. Creating
  BY <1>1, <1>2 DEF Creating, Ordered, Waiting, Pending
<1>7. Bracketing /\ Disposing
  BY <1>1 DEF Bracketing, Disposing
<1> QED BY <1>3, <1>4, <1>5, <1>6, <1>7 DEF IInv

\* The inductive invariant: see its conjuncts.
THEOREM Invariance == Spec => []IInv
<1>1. IInv /\ [Next]_vars => IInv'
  BY NextStep, Stutters
<1> QED BY <1>1, InitInv, PTL DEF Spec

-----------------------------------------------------------------------------
(* The properties *)

\* The types hold in every state.
THEOREM TypeCorrect == Spec => []TypeOK
BY Invariance, PTL DEF IInv

\* pool_plugin_init creates every plugin of the graph, and none twice, however
\* the plugins of the procedure share their children.
THEOREM EachCreatedOnce == Spec => []CreatedOnce
<1>1. ASSUME IInv PROVE CreatedOnce
  <2>1. TypeOK /\ Linked /\ Creating
    BY <1>1 DEF IInv
  <2>2. ASSUME Idle, NEW p \in Reachable PROVE made[p] = 1 /\ plugin[p].inited
    <3>1. root \in Plugins /\ plugin[root].inited
      BY <2>1, <2>2 DEF Linked, Creating, Idle, Pending
    <3>2. p \in Plugins /\ plugin[p].inited
      BY <2>1, <2>2, <3>1, AllCreated, ReachableLeast
    <3> QED BY <2>1, <3>2 DEF Creating
  <2> QED BY <2>1, <2>2 DEF CreatedOnce, Creating
<1> QED BY <1>1, Invariance, PTL

\* The plugins through which the calls of a Timer come to a Statics that keeps
\* its state.
LEMMA LeadsToKept ==
  ASSUME NEW p \in KeepState, plugin[p].kind = "statics"
  PROVE  \E L \in SUBSET Plugins : Leads(L, p)
<1>1. PICK S \in SUBSET (Reachable \ {root}) : p \in S /\ \A q \in S : Keeps(q, S, Reachable)
  BY DEF KeepState
<1> DEFINE Passes(x, T) == plugin[x].kind \in {"print", "response"} /\ plugin[x].apply \in T
           Whole(T)     == p \in T /\ \A x \in S : Passes(x, T) => x \in T
           L            == {r \in S : \A T \in SUBSET S : Whole(T) => r \in T}
<1>2. L \in SUBSET S /\ S \in SUBSET Plugins /\ S \subseteq Reachable /\ root \notin S
  BY <1>1, ReachableLeast
<1>3. p \in L
  BY <1>1
<1>4. ASSUME NEW x \in S, Passes(x, L) PROVE x \in L
  <2> SUFFICES ASSUME NEW T \in SUBSET S, Whole(T) PROVE x \in T
    OBVIOUS
  <2>1. L \subseteq T
    OBVIOUS
  <2> QED BY <1>4, <2>1
<1>5. ASSUME NEW r \in L, r # p PROVE Passes(r, L)
  <2> SUFFICES ASSUME ~Passes(r, L) PROVE FALSE
    OBVIOUS
  <2> DEFINE T == L \ {r}
  <2>1. T \in SUBSET S /\ p \in T
    BY <1>3, <1>5
  <2>2. ASSUME NEW x \in S, Passes(x, T) PROVE x \in T
    <3>1. Passes(x, L)
      BY <2>2
    <3>2. x \in L
      BY <1>4, <3>1
    <3> QED BY <3>1, <3>2
  <2>3. Whole(T)
    BY <2>1, <2>2
  <2> HIDE DEF T
  <2>4. r \in T
    BY <2>1, <2>3
  <2> QED BY <2>4 DEF T
<1> HIDE DEF L
<1>6. ASSUME NEW q \in L PROVE Keeps(q, L, Reachable)
  <2>1. Keeps(q, S, Reachable)
    BY <1>1, <1>2
  <2>2. ASSUME NEW r \in Reachable
        PROVE  /\ plugin[r].kind \in {"statics", "response"} => plugin[r].failed # q
               /\ plugin[r].apply = q =>
                    \/ plugin[r].kind = "timer" /\ plugin[r].flag = <<0, 1, 2>>
                    \/ plugin[r].kind \in {"print", "response"} /\ r \in L
    BY <1>4, <2>1 DEF Keeps
  <2> QED BY <2>2 DEF Keeps
<1>7. L \in SUBSET Plugins
  BY <1>2
<1>8. Leads(L, p)
  BY <1>2, <1>3, <1>5, <1>6 DEF Leads
<1> QED BY <1>7, <1>8

\* function and fexit of a Statics are never called on a context that is
\* missing or freed, and no context stays open, wherever the state of a Timer
\* is all that comes to the Statics.
THEOREM WindowsBracketed == Spec => []Bracketed
<1>1. ASSUME IInv PROVE Bracketed
  <2> SUFFICES ASSUME script.api = "c", root # NULL, NEW p \in KeepState,
                      plugin[p].kind = "statics"
               PROVE  p \notin misused /\ (Idle => context[p] # "open")
    BY DEF Bracketed
  <2>1. Linked /\ Bracketing
    BY <1>1 DEF IInv
  <2>2. PICK L \in SUBSET Plugins : Leads(L, p)
    BY LeadsToKept
  <2>3. p \in Plugins
    BY <2>2 DEF Leads
  <2>4. phase # "build"
    BY <2>1 DEF Linked
  <2>5. p \notin misused /\ (phase # "crashed" => Windowed(L, p))
    BY <2>1, <2>2, <2>3, <2>4 DEF Bracketing
  <2>6. Idle => ~FollowsAt(L, 1) /\ phase # "crashed"
    BY DEF Idle, FollowsAt
  <2> QED BY <2>5, <2>6 DEF Windowed
<1> QED BY <1>1, Invariance, PTL

\* pool_plugin_dispose frees the plugins that hang from the root and no other,
\* and reads freed memory only where a plugin hangs from two places.
THEOREM GraphDisposed == Spec => []Disposed
<1>1. ASSUME IInv PROVE Disposed
  <2>1. Linked /\ Disposing
    BY <1>1 DEF IInv
  <2>2. ASSUME phase = "dispose", stack = <<>>
        PROVE  {p \in Plugins : plugin[p].mem = "freed"} = Reachable
    <3> DEFINE S == {p \in Plugins : plugin[p].mem = "freed"}
    <3>1. \A f, p : ~Pending(f, p)
      BY <2>2 DEF Pending
    <3>2. \A p \in Plugins : Met(p) <=> p \in S
      BY <3>1 DEF Met
    <3>3. root \in Plugins /\ root \in S
      <4>1. root \in Plugins
        BY <2>1, <2>2 DEF Linked
      <4>2. Met(root)
        BY <2>1, <2>2, <3>1 DEF Disposing
      <4> QED BY <3>1, <4>1, <4>2 DEF Met
    <3>4. \A p \in S, q \in Plugins : Child(p, q) => q \in S
      BY <2>1, <2>2, <3>1, <3>2 DEF Disposing
    <3>5. S \in SUBSET Plugins
      OBVIOUS
    <3>6. S \subseteq Reachable
      BY <2>1, <2>2, <3>2 DEF Disposing
    <3>7. Reachable \subseteq S
      <4> HIDE DEF S
      <4> QED BY <3>3, <3>4, <3>5, ClosedChild, ReachableLeast
    <3> QED BY <3>6, <3>7
  <2> QED BY <2>1, <2>2 DEF Disposed, Disposing
<1> QED BY <1>1, Invariance, PTL
=============================================================================
