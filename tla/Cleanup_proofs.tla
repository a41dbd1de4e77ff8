--------------------------- MODULE Cleanup_proofs ---------------------------
(***************************************************************************)
(* From what an operator writes to what a sweep of the account spares.     *)
(*                                                                         *)
(* First the configuration: the table of overrides, what going through it  *)
(* row by row comes to, how the path of a variable is found, the           *)
(* conversions between the two forms, and the invariant of them all.  Then *)
(* the variables terraform is told and what it makes of them.  Last the    *)
(* sweep: why it goes no further than what it found and its configuration  *)
(* does not spare, not to an adopted resource, not to a connection of      *)
(* another's, and not to the gateway before its own connection.  All for   *)
(* any inputs, names, number of conversions and number of sweeps.          *)
(***************************************************************************)
EXTENDS Cleanup, Rendering, FiniteSetTheorems, WellFoundedInduction, TLAPS

-----------------------------------------------------------------------------
(* Going through the table.                                                *)

\* Induction over the naturals, for a set rather than a formula.
LEMMA NatSetInduction ==
  ASSUME NEW S, 0 \in S, \A n \in Nat : n \in S => n + 1 \in S
  PROVE  Nat \subseteq S
  <1>. DEFINE T == Nat \ S
  <1>. SUFFICES ASSUME T # {} PROVE FALSE
    OBVIOUS
  <1>1. PICK x \in T : \A y \in T : <<y, x>> \notin OpToRel(<, Nat)
    <2>. HIDE DEF T
    <2>1. T \subseteq Nat
      BY DEF T
    <2>. QED BY <2>1, NatLessThanWellFounded, WFMin
  <1>2. x \in Nat /\ x # 0 /\ x - 1 \in Nat /\ x = (x - 1) + 1
    OBVIOUS
  <1>3. x - 1 \notin T
    <2>1. OpToRel(<, Nat) = {ss \in Nat \X Nat : ss[1] < ss[2]}
      BY DEF OpToRel
    <2>2. <<x - 1, x>> \in {ss \in Nat \X Nat : ss[1] < ss[2]}
      BY <1>2
    <2>3. <<x - 1, x>> \in OpToRel(<, Nat)
      BY <2>1, <2>2, Zenon
    <2>. QED BY <1>1, <2>3, Zenon
  <1>. QED BY <1>2, <1>3

\* What the i-th pass of OverrideFromEnv makes of what g says of the ones before it.
Pass(ws, env, g, i) ==
  IF i = 0 THEN ws
  ELSE IF Given(env, Overrides[i])
  THEN Put(g[i - 1], Overrides[i], env.vars[Overrides[i].env])
  ELSE g[i - 1]

\* A pass depends on the one before it only.
LEMMA PassLocal ==
  ASSUME NEW ws, NEW env, NEW g, NEW h, NEW i, i = 0 \/ g[i - 1] = h[i - 1]
  PROVE  Pass(ws, env, g, i) = Pass(ws, env, h, i)
  BY DEF Pass

\* So there is a function that says what every pass makes, however many there are.
LEMMA PassesExist ==
  ASSUME NEW ws, NEW env, NEW n \in Nat
  PROVE  \E g : g = [i \in 0..n |-> Pass(ws, env, g, i)]
  <1>. DEFINE S == {m \in Nat : \E g : g = [i \in 0..m |-> Pass(ws, env, g, i)]}
  <1>1. 0 \in S
    <2>. DEFINE g == [i \in 0..0 |-> ws]
    <2>1. \A i \in 0..0 : Pass(ws, env, g, i) = ws
      BY DEF Pass
    <2>2. g = [i \in 0..0 |-> Pass(ws, env, g, i)]
      BY <2>1
    <2>. QED BY <2>2
  <1>2. ASSUME NEW m \in Nat, m \in S
        PROVE  m + 1 \in S
    <2>1. PICK g : g = [i \in 0..m |-> Pass(ws, env, g, i)]
      BY <1>2
    <2>. DEFINE h == [i \in 0..(m + 1) |-> IF i = m + 1 THEN Pass(ws, env, g, i) ELSE g[i]]
    <2>2. \A i \in 0..m : h[i] = g[i]
      OBVIOUS
    <2>3. h[m + 1] = Pass(ws, env, g, m + 1)
      OBVIOUS
    <2>4. DOMAIN h = 0..(m + 1) /\ h = [i \in 0..(m + 1) |-> h[i]]
      OBVIOUS
    <2>. HIDE DEF h
    <2>5. ASSUME NEW i \in 0..(m + 1) PROVE h[i] = Pass(ws, env, h, i)
      <3>1. i = 0 \/ g[i - 1] = h[i - 1]
        BY <2>2
      <3>2. Pass(ws, env, g, i) = Pass(ws, env, h, i)
        BY <3>1, PassLocal
      <3>3. h[i] = Pass(ws, env, g, i)
        <4>1. CASE i = m + 1
          BY <4>1, <2>3
        <4>2. CASE i \in 0..m
          BY <4>2, <2>1, <2>2
        <4>. QED BY <4>1, <4>2
      <3>. QED BY <3>2, <3>3
    <2>6. h = [i \in 0..(m + 1) |-> Pass(ws, env, h, i)]
      BY <2>4, <2>5
    <2>. QED BY <2>6
  <1>3. Nat \subseteq S
    <2>. HIDE DEF S
    <2>. QED BY <1>1, <1>2, NatSetInduction
  <1>. QED BY <1>3

\* And Overridden is one: each pass goes over what the pass before it has left.
LEMMA OverriddenIs ==
  ASSUME NEW ws, NEW env
  PROVE  Overridden(ws, env)
           = [i \in 0..Len(Overrides) |-> Pass(ws, env, Overridden(ws, env), i)]
  <1>. DEFINE Fold(g) == g = [i \in 0..Len(Overrides) |-> Pass(ws, env, g, i)]
  <1>1. Len(Overrides) \in Nat
    BY DEF Overrides
  <1>2. \E g : Fold(g)
    BY <1>1, PassesExist
  <1>3. Overridden(ws, env) = CHOOSE g : Fold(g)
    BY DEF Overridden, Pass
  <1>4. Fold(CHOOSE g : Fold(g))
    BY <1>2
  <1>. QED BY <1>3, <1>4

\* The override table: a variable has one row, a path has one too unless it is a secret,
\* and a row that adopts comes before the toggle it switches.
LEMMA Table ==
  /\ Len(Overrides) = 24 /\ DOMAIN Overrides = 1..24
  BY DEF Overrides
LEMMA Shapes ==
  ASSUME NEW i \in 1..24
  PROVE  Overrides[i].shape \in {"text", "bool", "list", "adopt", "int", "pointer", "flag"}
  BY DEF Overrides, Row
LEMMA EnvsDiffer ==
  ASSUME NEW i \in 1..24, NEW j \in 1..24, Overrides[i].env = Overrides[j].env
  PROVE  i = j
  BY DEF Overrides, Row
LEMMA PathsAt ==
  ASSUME NEW i \in 1..24
  PROVE  Overrides[i].path = <<Overrides[i].path[1], Overrides[i].path[2]>>
  BY DEF Overrides, Row
LEMMA PathsDiffer ==
  ASSUME NEW i \in 1..24, NEW j \in 1..24, Overrides[i].path = Overrides[j].path
  PROVE  i = j \/ Secret(Overrides[i].path)
  BY DEF Overrides, Row, Secret
LEMMA AdoptRows ==
  ASSUME NEW i \in 1..24, Overrides[i].shape = "adopt"
  PROVE  /\ Overrides[i].path = <<Overrides[i].path[1], "existing">>
         /\ Overrides[i].path[1] \in Toggles
         /\ \A j \in 1..24 : Overrides[j].path = <<Overrides[i].path[1], "create">> => i < j
  <1>1. i \in {10, 11}
    BY DEF Overrides, Row
  <1>2. CASE i = 10
    <2>1. Overrides[10].path = <<"transit_gateway", "existing">>
      BY DEF Overrides, Row
    <2>2. \A j \in 1..24 : Overrides[j].path = <<"transit_gateway", "create">> => 10 < j
      BY DEF Overrides, Row
    <2>. QED BY <1>2, <2>1, <2>2 DEF Toggles
  <1>3. CASE i = 11
    <2>1. Overrides[11].path = <<"cluster_vpc", "existing">>
      BY DEF Overrides, Row
    <2>2. \A j \in 1..24 : Overrides[j].path = <<"cluster_vpc", "create">> => 11 < j
      BY DEF Overrides, Row
    <2>. QED BY <1>3, <2>1, <2>2 DEF Toggles
  <1>. QED BY <1>1, <1>2, <1>3

-----------------------------------------------------------------------------
(* What one row does.                                                      *)

\* A tree, by what it has at its paths and its zones.
IsTree(w) == w = [at |-> [p \in Paths |-> w.at[p]], zones |-> w.zones]

\* The paths of toggles, leaves and the proxy's block.
LEMMA PathsAre ==
  /\ Created \subseteq Paths /\ Leaves \subseteq Paths /\ Proxy \in Paths
  /\ Proxy \notin Leaves /\ Proxy \notin Created
  /\ \A t \in Toggles : <<t, "create">> \in Created
  /\ \A p \in Created : p[1] \in Toggles /\ p[2] = "create" /\ p = <<p[1], "create">>
  BY DEF Paths, Leaves, Created, Proxy, Rows, Row, Overrides, ToSet, State, Toggles

\* Every row is at a leaf; what it adopts is no setting of the proxy.
LEMMA RowPaths ==
  ASSUME NEW i \in 1..24
  PROVE  /\ Overrides[i] \in Rows
         /\ Overrides[i].env \in Names
         /\ Overrides[i].path \in Leaves
         /\ Overrides[i].path # Proxy
         /\ Overrides[i].shape = "adopt" => Overrides[i].path[1] # "flp" /\ Overrides[i].env # "LICENSE_MODE"
         /\ Overrides[i].path \in Created => Overrides[i].shape = "bool"
         /\ Overrides[i].path = <<"cluster", "create">> => Overrides[i].shape = "bool"
  <1>1. Overrides[i] \in Rows
    BY Table DEF Rows, ToSet
  <1>. QED BY <1>1 DEF Names, Leaves, Overrides, Row, Proxy, Created

\* A row sets its path, the toggle of what it adopts, and the block of the proxy.
Sets(row, v, p) ==
  \/ p = row.path
  \/ row.shape = "adopt" /\ p = <<row.path[1], "create">>
  \/ OpensProxy(row, v) /\ p = Proxy

\* And it sets them to this.
To(row, v, p) ==
  IF p = row.path THEN Stored(row, v) ELSE IF row.shape = "adopt" THEN "false" ELSE "present"

\* A row of a resource begins from the whole block of resources.
Opened(ws, row) == IF row.path[1] \in Toggles THEN Resources(ws) ELSE ws

\* resourcesCfg: the toggles are at their defaults unless some of them are there.
LEMMA ResourcesAt ==
  ASSUME NEW ws, IsTree(ws)
  PROVE  /\ IsTree(Resources(ws)) /\ Resources(ws).zones = ws.zones
         /\ \A p \in Paths : Resources(ws).at[p] =
              IF p \in Created /\ ~HasResources(ws) THEN Default(p) ELSE ws.at[p]
         /\ HasResources(Resources(ws))
  <1>1. CASE HasResources(ws)
    BY <1>1 DEF Resources
  <1>2. CASE ~HasResources(ws)
    <2>1. Resources(ws) = [at |-> [p \in Paths |-> IF p \in Created THEN Default(p) ELSE ws.at[p]],
                           zones |-> ws.zones]
      BY <1>2 DEF Resources, IsTree
    <2>2. "transit_gateway" \in Toggles /\ <<"transit_gateway", "create">> \in Created
          /\ <<"transit_gateway", "create">> \in Paths
      BY PathsAre DEF Toggles
    <2>3. Resources(ws).at[<<"transit_gateway", "create">>] = "true"
      BY <2>1, <2>2 DEF Default
    <2>4. HasResources(Resources(ws))
      BY <2>2, <2>3, AbsentAssumption DEF HasResources
    <2>. QED BY <1>2, <2>1, <2>4 DEF IsTree
  <1>. QED BY <1>1, <1>2

\* What a workspace becomes with a row's value put in.
Becomes(ws, row, v, u) ==
  /\ IsTree(u) /\ u.zones = ws.zones
  /\ \A p \in Paths : u.at[p] = IF Sets(row, v, p) THEN To(row, v, p) ELSE Opened(ws, row).at[p]

\* A row changes what it sets and nothing else.
LEMMA PutAt ==
  ASSUME NEW ws, IsTree(ws), NEW i \in 1..24, NEW v
  PROVE  Becomes(ws, Overrides[i], v, Put(ws, Overrides[i], v))
  <1>. DEFINE row  == Overrides[i]
              base == Opened(ws, row)
              set  == [base EXCEPT !.at[row.path] = Stored(row, v)]
              p1   == <<row.path[1], "create">>
  <1>. SUFFICES /\ IsTree(Put(ws, row, v)) /\ Put(ws, row, v).zones = ws.zones
                /\ \A p \in Paths : Put(ws, row, v).at[p] =
                     IF Sets(row, v, p) THEN To(row, v, p) ELSE Opened(ws, row).at[p]
    BY DEF Becomes
  <1>1. IsTree(base) /\ base.zones = ws.zones
    BY ResourcesAt DEF Opened
  <1>2. row.path \in Paths /\ row.path # Proxy /\ Proxy \in Paths
    BY PathsAre, RowPaths
  <1>3. row.shape = "adopt" => p1 \in Paths /\ p1 # row.path /\ ~OpensProxy(row, v)
    <2>. SUFFICES ASSUME row.shape = "adopt" PROVE p1 \in Paths /\ p1 # row.path /\ ~OpensProxy(row, v)
      OBVIOUS
    <2>1. row.path = <<row.path[1], "existing">> /\ row.path[1] \in Toggles
      BY AdoptRows
    <2>2. p1 \in Paths
      BY <2>1, PathsAre
    <2>. QED BY <2>1, <2>2, RowPaths DEF OpensProxy
  <1>4. Put(ws, row, v) = CASE row.shape = "adopt" -> [set EXCEPT !.at[p1] = "false"]
                            [] OpensProxy(row, v) -> [set EXCEPT !.at[Proxy] = "present"]
                            [] OTHER -> set
    BY DEF Put, Opened
  <1>. HIDE DEF row, base
  <1>5. IsTree(set) /\ set.zones = ws.zones
        /\ \A p \in Paths : set.at[p] = IF p = row.path THEN Stored(row, v) ELSE base.at[p]
    BY <1>1, <1>2 DEF IsTree
  <1>. HIDE DEF set, p1
  <1>6. CASE row.shape = "adopt"
    <2>1. Put(ws, row, v) = [set EXCEPT !.at[p1] = "false"]
      BY <1>3, <1>4, <1>6
    <2>2. /\ IsTree(Put(ws, row, v)) /\ Put(ws, row, v).zones = ws.zones
          /\ \A p \in Paths : Put(ws, row, v).at[p] = IF p = p1 THEN "false" ELSE set.at[p]
      BY <1>5, <2>1 DEF IsTree
    <2>. QED BY <1>3, <1>5, <1>6, <2>2 DEF Sets, To, p1, row, base
  <1>7. CASE row.shape # "adopt" /\ OpensProxy(row, v)
    <2>1. Put(ws, row, v) = [set EXCEPT !.at[Proxy] = "present"]
      BY <1>4, <1>7
    <2>2. /\ IsTree(Put(ws, row, v)) /\ Put(ws, row, v).zones = ws.zones
          /\ \A p \in Paths : Put(ws, row, v).at[p] = IF p = Proxy THEN "present" ELSE set.at[p]
      BY <1>5, <2>1 DEF IsTree
    <2>. QED BY <1>2, <1>5, <1>7, <2>2 DEF Sets, To, row, base
  <1>8. CASE row.shape # "adopt" /\ ~OpensProxy(row, v)
    <2>1. Put(ws, row, v) = set
      BY <1>4, <1>8
    <2>. QED BY <1>5, <1>8, <2>1 DEF Sets, To, row, base
  <1>. QED BY <1>6, <1>7, <1>8

-----------------------------------------------------------------------------
(* What the rows do, one over the other.                                   *)

\* Row i sets p, p gets this from it, some row up to the i-th opens the resources.
Used(env, i, p)  == Given(env, Overrides[i]) /\ Sets(Overrides[i], env.vars[Overrides[i].env], p)
Value(env, i, p) == To(Overrides[i], env.vars[Overrides[i].env], p)
Opens(env, i)    == \E j \in 1..i : Given(env, Overrides[j]) /\ Overrides[j].path[1] \in Toggles

\* w is ws after the first i rows: at a path the last row that sets it counts.
Passed(ws, env, w, i) ==
  /\ IsTree(w) /\ w.zones = ws.zones
  /\ Opens(env, i) \/ HasResources(ws) => HasResources(w)
  /\ \A p \in Paths : (\E j \in 1..i : Used(env, j, p)) =>
       \E j \in 1..i : /\ Used(env, j, p) /\ w.at[p] = Value(env, j, p)
                       /\ \A k \in (j + 1)..i : ~Used(env, k, p)
  /\ \A p \in Paths : (\A j \in 1..i : ~Used(env, j, p)) =>
       w.at[p] = IF Opens(env, i) THEN Resources(ws).at[p] ELSE ws.at[p]

\* A toggle is set to true or to false.
LEMMA TogglesUsed ==
  ASSUME NEW env, NEW i \in 1..24, NEW p \in Created, Used(env, i, p)
  PROVE  Value(env, i, p) \in {"true", "false"} /\ Overrides[i].path[1] \in Toggles
  <1>. DEFINE row == Overrides[i]
              v   == env.vars[row.env]
  <1>1. p # Proxy /\ p[1] \in Toggles
    BY PathsAre
  <1>2. CASE p = row.path
    <2>1. row.shape = "bool"
      BY <1>2, RowPaths
    <2>2. v \in {"true", "false"}
      BY <2>1 DEF Used, Given, Accepts
    <2>. QED BY <1>1, <1>2, <2>1, <2>2 DEF Value, To, Stored
  <1>3. CASE p # row.path
    <2>1. row.shape = "adopt"
      BY <1>1, <1>3 DEF Used, Sets
    <2>. QED BY <1>3, <2>1, AdoptRows DEF Value, To
  <1>. QED BY <1>2, <1>3

\* Before the first row, over a row with no value, and over one with a value.
LEMMA PassedStart == ASSUME NEW ws, NEW env, IsTree(ws) PROVE Passed(ws, env, ws, 0)
  BY DEF Passed, Opens

LEMMA PassedSkip ==
  ASSUME NEW ws, NEW env, NEW w, NEW i \in 0..23, Passed(ws, env, w, i),
         ~Given(env, Overrides[i + 1])
  PROVE  Passed(ws, env, w, i + 1)
  <1>1. \A p : ~Used(env, i + 1, p)
    BY DEF Used
  <1>2. Opens(env, i + 1) <=> Opens(env, i)
    BY DEF Opens
  <1>. QED BY <1>1, <1>2 DEF Passed

LEMMA PassedOne ==
  ASSUME NEW ws, IsTree(ws), NEW env, NEW w, NEW i \in 0..23, Passed(ws, env, w, i),
         Given(env, Overrides[i + 1])
  PROVE  Passed(ws, env, Put(w, Overrides[i + 1], env.vars[Overrides[i + 1].env]), i + 1)
  <1>. DEFINE row == Overrides[i + 1]
              v   == env.vars[row.env]
              u   == Put(w, row, v)
  <1>1. i + 1 \in 1..24 /\ IsTree(w) /\ w.zones = ws.zones
    BY DEF Passed
  <1>2. /\ IsTree(u) /\ u.zones = ws.zones
        /\ \A p \in Paths : u.at[p] =
             IF Used(env, i + 1, p) THEN Value(env, i + 1, p) ELSE Opened(w, row).at[p]
    <2>1. \A p : Used(env, i + 1, p) <=> Sets(row, v, p)
      BY DEF Used
    <2>2. \A p : Value(env, i + 1, p) = To(row, v, p)
      BY DEF Value
    <2>3. /\ IsTree(u) /\ u.zones = ws.zones
          /\ \A p \in Paths : u.at[p] = IF Sets(row, v, p) THEN To(row, v, p) ELSE Opened(w, row).at[p]
      <3>. DEFINE k == i + 1
      <3>1. k \in 1..24 /\ IsTree(w)
        BY <1>1
      <3>2. row = Overrides[k]
        OBVIOUS
      <3>. HIDE DEF k, row, v, u
      <3>3. Becomes(w, Overrides[k], v, Put(w, Overrides[k], v))
        BY <3>1, PutAt
      <3>. QED BY <1>1, <3>2, <3>3 DEF u, Becomes
    <2>. HIDE DEF u, row, v
    <2>. QED BY <2>1, <2>2, <2>3
  <1>3. Opens(env, i + 1) <=> Opens(env, i) \/ row.path[1] \in Toggles
    BY DEF Opens
  <1>. HIDE DEF u, row
  <1>4. Opens(env, i + 1) \/ HasResources(ws) => HasResources(u)
    <2>. SUFFICES ASSUME Opens(env, i + 1) \/ HasResources(ws) PROVE HasResources(u)
      OBVIOUS
    <2>1. HasResources(Opened(w, row))
      BY <1>1, <1>3, ResourcesAt DEF Passed, Opened
    <2>2. PICK t \in Toggles : Opened(w, row).at[<<t, "create">>] # None
      BY <2>1 DEF HasResources
    <2>3. <<t, "create">> \in Created /\ <<t, "create">> \in Paths
      BY PathsAre
    <2>4. u.at[<<t, "create">>] # None
      BY <1>1, <1>2, <2>2, <2>3, TogglesUsed, AbsentAssumption
    <2>. QED BY <2>4 DEF HasResources
  <1>5. ASSUME NEW p \in Paths, \E j \in 1..(i + 1) : Used(env, j, p)
        PROVE  \E j \in 1..(i + 1) : /\ Used(env, j, p) /\ u.at[p] = Value(env, j, p)
                                     /\ \A k \in (j + 1)..(i + 1) : ~Used(env, k, p)
    <2>1. CASE Used(env, i + 1, p)
      BY <1>1, <1>2, <2>1
    <2>2. CASE ~Used(env, i + 1, p)
      <3>1. PICK j \in 1..i : /\ Used(env, j, p) /\ w.at[p] = Value(env, j, p)
                              /\ \A k \in (j + 1)..i : ~Used(env, k, p)
        BY <1>5, <2>2 DEF Passed
      <3>2. u.at[p] = Opened(w, row).at[p]
        BY <1>2, <2>2
      <3>3. Opened(w, row).at[p] = w.at[p]
        <4>1. CASE p \in Created
          <5>1. Opens(env, i)
            <6>1. j \in 1..24 /\ Used(env, j, p)
              BY <3>1
            <6>2. Overrides[j].path[1] \in Toggles
              BY <4>1, <6>1, TogglesUsed
            <6>. QED BY <6>1, <6>2 DEF Opens, Used
          <5>2. HasResources(w)
            BY <5>1 DEF Passed
          <5>. QED BY <5>2 DEF Opened, Resources
        <4>2. CASE p \notin Created
          BY <1>1, <4>2, ResourcesAt DEF Opened
        <4>. QED BY <4>1, <4>2
      <3>. QED BY <2>2, <3>1, <3>2, <3>3
    <2>. QED BY <2>1, <2>2
  <1>6. ASSUME NEW p \in Paths, \A j \in 1..(i + 1) : ~Used(env, j, p)
        PROVE  u.at[p] = IF Opens(env, i + 1) THEN Resources(ws).at[p] ELSE ws.at[p]
    <2>1. u.at[p] = Opened(w, row).at[p]
      BY <1>1, <1>2, <1>6
    <2>2. w.at[p] = IF Opens(env, i) THEN Resources(ws).at[p] ELSE ws.at[p]
      BY <1>6 DEF Passed
    <2>3. CASE row.path[1] \notin Toggles
      BY <1>3, <2>1, <2>2, <2>3 DEF Opened
    <2>4. CASE row.path[1] \in Toggles
      <3>1. u.at[p] = Resources(w).at[p] /\ Opens(env, i + 1)
        BY <1>3, <2>1, <2>4 DEF Opened
      <3>2. CASE Opens(env, i)
        BY <2>2, <3>1, <3>2 DEF Passed, Resources
      <3>3. CASE ~Opens(env, i)
        <4>1. \A q \in Created : w.at[q] = ws.at[q]
          <5>1. ASSUME NEW q \in Created, NEW j \in 1..i, Used(env, j, q)
                PROVE  FALSE
            <6>1. j \in 1..24
              OBVIOUS
            <6>2. Overrides[j].path[1] \in Toggles
              BY <5>1, <6>1, TogglesUsed
            <6>. QED BY <3>3, <5>1, <6>2 DEF Opens, Used
          <5>. QED BY <3>3, <5>1, PathsAre DEF Passed
        <4>2. HasResources(w) <=> HasResources(ws)
          BY <4>1, PathsAre DEF HasResources
        <4>. QED BY <1>1, <2>2, <3>1, <3>3, <4>2, ResourcesAt
      <3>. QED BY <3>2, <3>3
    <2>. QED BY <2>3, <2>4
  <1>. QED BY <1>2, <1>4, <1>5, <1>6 DEF Passed, u, row

\* After all rows the last one that sets a path counts, by induction over the passes.
LEMMA PassedAll ==
  ASSUME NEW ws, IsTree(ws), NEW env
  PROVE  Passed(ws, env, Overridden(ws, env)[24], 24)
  <1>. DEFINE o == Overridden(ws, env)
              S == {n \in Nat : n <= 24 => Passed(ws, env, o[n], n)}
  <1>1. o = [i \in 0..24 |-> Pass(ws, env, o, i)]
    BY OverriddenIs, Table
  <1>. HIDE DEF o
  <1>2. 0 \in S
    <2>1. o[0] = ws
      BY <1>1 DEF Pass
    <2>. QED BY <2>1, PassedStart
  <1>3. ASSUME NEW n \in Nat, n \in S PROVE n + 1 \in S
    <2>. SUFFICES ASSUME n + 1 <= 24 PROVE Passed(ws, env, o[n + 1], n + 1)
      OBVIOUS
    <2>1. n \in 0..23 /\ Passed(ws, env, o[n], n) /\ (n + 1) - 1 = n
      BY <1>3
    <2>2. o[n + 1] = Pass(ws, env, o, n + 1)
      BY <1>1, <2>1
    <2>3. o[n + 1] = IF Given(env, Overrides[n + 1])
                     THEN Put(o[n], Overrides[n + 1], env.vars[Overrides[n + 1].env]) ELSE o[n]
      BY <2>1, <2>2 DEF Pass
    <2>4. CASE Given(env, Overrides[n + 1])
      <3>. HIDE DEF S
      <3>. QED BY <2>1, <2>3, <2>4, PassedOne
    <2>5. CASE ~Given(env, Overrides[n + 1])
      <3>. HIDE DEF S
      <3>. QED BY <2>1, <2>3, <2>5, PassedSkip
    <2>. QED BY <2>4, <2>5
  <1>4. Nat \subseteq S
    <2>. HIDE DEF S
    <2>. QED BY <1>2, <1>3, NatSetInduction
  <1>. QED BY <1>4 DEF o

-----------------------------------------------------------------------------
(* What is asked for, and what the overrides make of it.                   *)

\* What a file means without variables.
Meant(file, p) == IF file.at[p] # None THEN file.at[p]
                  ELSE IF p \in Created THEN Default(p) ELSE Empty.at[p]

\* A row is at some index, a path is a pair.
LEMMA RowsAre == \A row \in Rows : \E k \in 1..24 : row = Overrides[k]
  BY Table DEF Rows, ToSet

LEMMA Pairs2 == \A p \in Paths : p = <<p[1], p[2]>>
  <1>1. \A row \in Rows : row.path = <<row.path[1], row.path[2]>>
    BY RowsAre, PathsAt
  <1>. QED BY <1>1 DEF Paths, Leaves, Proxy, State

\* What is asked for at a path is the value of the last row that sets it.
LEMMA AskedUsed ==
  ASSUME NEW file, NEW env, NEW p \in Paths, NEW j \in 1..24, Used(env, j, p),
         \A k \in (j + 1)..24 : ~Used(env, k, p)
  PROVE  Asked(file, env).at[p] = Value(env, j, p)
  <1>. DEFINE row == Overrides[j]
              v   == env.vars[row.env]
  <1>0. Given(env, row) /\ Sets(row, v, p)
    BY DEF Used
  <1>1. ASSUME NEW y \in Says(env, p) PROVE y \in 1..24 /\ y <= j /\ Overrides[y].path = p
    <2>1. y \in 1..24 /\ Used(env, y, p) /\ Overrides[y].path = p
      BY Table DEF Says, Used, Sets
    <2>. QED BY <2>1
  <1>2. CASE row.path = p
    <2>1. j \in Says(env, p)
      BY <1>0, <1>2, Table DEF Says
    <2>2. Max(Says(env, p)) = j
      <3>1. \A y \in Says(env, p) : j >= y /\ y \in 1..24
        BY <1>1
      <3>2. ASSUME NEW x \in Says(env, p), \A y \in Says(env, p) : x >= y PROVE x = j
        BY <2>1, <3>1, <3>2
      <3>. QED BY <2>1, <3>1, <3>2 DEF Max
    <2>3. Asked(file, env).at[p] =
            IF row.shape \in {"int", "flag"} /\ v \in {"0", "false"} THEN None ELSE v
      <3>1. p # Proxy
        BY <1>2, RowPaths
      <3>. QED BY <2>1, <2>2, <3>1 DEF Asked
    <2>4. row.shape = "int" => v \in Numerals
      BY <1>0 DEF Given, Accepts
    <2>5. row.shape = "flag" => v \in {"true", "false"}
      BY <1>0 DEF Given, Accepts
    <2>6. Value(env, j, p) = Stored(row, v)
      BY <1>2 DEF Value, To
    <2>. QED BY <2>3, <2>4, <2>5, <2>6 DEF Stored, Numerals
  <1>3. CASE row.path # p /\ row.shape = "adopt"
    <2>1. p = <<row.path[1], "create">>
      BY <1>0, <1>3, RowPaths DEF Sets, OpensProxy
    <2>2. Says(env, p) = {}
      <3>. SUFFICES ASSUME NEW y \in Says(env, p) PROVE FALSE
        OBVIOUS
      <3>1. y \in 1..24 /\ y <= j /\ Overrides[y].path = p
        BY <1>1
      <3>2. Overrides[y].path = p => j < y
        BY <1>3, <2>1, <3>1, AdoptRows
      <3>. QED BY <3>1, <3>2
    <2>3. Adopts(env, p)
      BY <1>0, <1>3, <2>1, RowPaths DEF Adopts
    <2>4. Asked(file, env).at[p] = "false"
      <3>1. p # Proxy
        BY <2>1 DEF Proxy
      <3>. QED BY <2>2, <2>3, <3>1 DEF Asked
    <2>. QED BY <1>3, <2>4 DEF Value, To
  <1>4. CASE row.path # p /\ row.shape # "adopt"
    <2>1. p = Proxy /\ OpensProxy(row, v)
      BY <1>0, <1>4 DEF Sets
    <2>2. Says(env, p) = {}
      BY <1>1, <2>1, RowPaths
    <2>3. ~Adopts(env, p)
      BY <2>1 DEF Adopts, Proxy
    <2>4. \/ env.vars["LICENSE_MODE"] = "f5licenseproxy"
          \/ \E r \in Rows : r.path[1] = "flp" /\ Given(env, r)
      BY <1>0, <2>1, RowPaths DEF OpensProxy
    <2>5. Asked(file, env).at[p] = "present"
      BY <2>1, <2>2, <2>3, <2>4 DEF Asked
    <2>. QED BY <1>4, <2>5 DEF Value, To
  <1>. QED BY <1>2, <1>3, <1>4

\* And it is what the file means where no row does.
LEMMA AskedUnused ==
  ASSUME NEW file, NEW env, NEW p \in Paths, \A k \in 1..24 : ~Used(env, k, p)
  PROVE  Asked(file, env).at[p] = Meant(file, p)
  <1>1. Says(env, p) = {}
    BY Table DEF Says, Used, Sets
  <1>2. ~Adopts(env, p)
    <2>. SUFFICES ASSUME NEW row \in Rows, p[2] = "create", row.shape = "adopt",
                         row.path[1] = p[1], Given(env, row)
                  PROVE  FALSE
      BY DEF Adopts
    <2>1. PICK k \in 1..24 : row = Overrides[k]
      BY RowsAre
    <2>2. p = <<row.path[1], "create">>
      BY Pairs2
    <2>. QED BY <2>1, <2>2 DEF Used, Sets
  <1>3. ASSUME p = Proxy, env.vars["LICENSE_MODE"] = "f5licenseproxy" PROVE FALSE
    <2>1. Overrides[16].env = "LICENSE_MODE" /\ Overrides[16].shape = "text"
      BY DEF Overrides, Row
    <2>2. Given(env, Overrides[16])
      BY <1>3, <2>1, AbsentAssumption DEF Given, Accepts
    <2>. QED BY <1>3, <2>1, <2>2 DEF Used, Sets, OpensProxy
  <1>4. ASSUME p = Proxy, NEW row \in Rows, row.path[1] = "flp", Given(env, row) PROVE FALSE
    <2>1. PICK k \in 1..24 : row = Overrides[k]
      BY RowsAre
    <2>. QED BY <1>4, <2>1 DEF Used, Sets, OpensProxy
  <1>. QED BY <1>1, <1>2, <1>3, <1>4 DEF Asked, Meant

\* A workspace w that is ws with the environment over it.
Overlaid(ws, env, w) ==
  /\ IsTree(w)
  /\ w.zones = IF Whole(env) = <<>> THEN ws.zones ELSE Whole(env)
  /\ Opens(env, 24) \/ HasResources(ws) => HasResources(w)
  /\ \A p \in Paths : \/ /\ \E j \in 1..24 : Used(env, j, p) /\ w.at[p] = Value(env, j, p)
                         /\ \A file : w.at[p] = Asked(file, env).at[p]
                      \/ /\ \A j \in 1..24 : ~Used(env, j, p)
                         /\ \A file : Asked(file, env).at[p] = Meant(file, p)
                         /\ w.at[p] = IF Opens(env, 24) THEN Resources(ws).at[p] ELSE ws.at[p]

\* OverrideFromEnv gives what is asked for wherever a variable says something, and
\* leaves the rest as it was, or as resourcesCfg makes it.
LEMMA OverrideAt ==
  ASSUME NEW ws, IsTree(ws), NEW env
  PROVE  Overlaid(ws, env, OverrideFromEnv(ws, env))
  <1>. DEFINE o == Overridden(ws, env)[24]
              w == OverrideFromEnv(ws, env)
  <1>1. Passed(ws, env, o, 24)
    BY PassedAll
  <1>2. w = IF Whole(env) = <<>> THEN o ELSE [o EXCEPT !.zones = Whole(env)]
    BY Table DEF OverrideFromEnv
  <1>. HIDE DEF o, w
  <1>3. IsTree(o) /\ o.zones = ws.zones
    BY <1>1 DEF Passed
  <1>4. IsTree(w) /\ w.at = o.at /\ w.zones = IF Whole(env) = <<>> THEN ws.zones ELSE Whole(env)
    BY <1>2, <1>3 DEF IsTree
  <1>5. Opens(env, 24) \/ HasResources(ws) => HasResources(w)
    BY <1>1, <1>4 DEF Passed, HasResources
  <1>6. ASSUME NEW p \in Paths, \A j \in 1..24 : ~Used(env, j, p)
        PROVE  /\ \A file : Asked(file, env).at[p] = Meant(file, p)
               /\ w.at[p] = IF Opens(env, 24) THEN Resources(ws).at[p] ELSE ws.at[p]
    BY <1>1, <1>4, <1>6, AskedUnused DEF Passed
  <1>7. ASSUME NEW p \in Paths, \E j \in 1..24 : Used(env, j, p)
        PROVE  /\ \E j \in 1..24 : Used(env, j, p) /\ w.at[p] = Value(env, j, p)
               /\ \A file : w.at[p] = Asked(file, env).at[p]
    <2>1. PICK j \in 1..24 : /\ Used(env, j, p) /\ o.at[p] = Value(env, j, p)
                             /\ \A k \in (j + 1)..24 : ~Used(env, k, p)
      BY <1>1, <1>7 DEF Passed
    <2>. QED BY <1>4, <2>1, AskedUsed
  <1>8. \A p \in Paths : (\E j \in 1..24 : Used(env, j, p)) \/ (\A j \in 1..24 : ~Used(env, j, p))
    OBVIOUS
  <1>9. Overlaid(ws, env, w)
    BY <1>4, <1>5, <1>6, <1>7, <1>8 DEF Overlaid
  <1>. QED BY <1>9 DEF w

-----------------------------------------------------------------------------
(* The ways from one form to the other.                                    *)

\* What the zero workspace is.
LEMMA EmptyIs ==
  /\ IsTree(Empty) /\ Empty.zones = <<>> /\ ~HasResources(Empty)
  /\ \A p \in Paths : Empty.at[p] = IF p = <<"cluster", "create">> THEN "false" ELSE None
  /\ <<"cluster", "create">> \notin Created
  BY PathsAre DEF Empty, Tree, IsTree, HasResources, Created, Toggles

\* Zones of the environment come before those of the file.
LEMMA AskedZones ==
  ASSUME NEW file, NEW env
  PROVE  Asked(file, env).zones = IF Whole(env) # <<>> THEN Whole(env) ELSE file.zones
  BY DEF Asked

\* A default is a value.
LEMMA DefaultsAre == \A p : Default(p) \in {"true", "false"}
  BY DEF Default

\* An init of a file and variables makes of them what they ask for.
LEMMA ToldFromFile ==
  ASSUME NEW tree, NEW env
  PROVE  LET w == OverrideFromEnv(Decode(Resources(Empty), tree), env) IN
         /\ IsTree(w) /\ w.zones = Asked(tree, env).zones /\ HasResources(w)
         /\ \A p \in Paths : w.at[p] = Asked(tree, env).at[p]
         /\ \A p \in Paths : \/ \E j \in 1..24 : Used(env, j, p) /\ w.at[p] = Value(env, j, p)
                             \/ (\A j \in 1..24 : ~Used(env, j, p)) /\ w.at[p] = Meant(tree, p)
  <1>. DEFINE r == Resources(Empty)
              d == Decode(r, tree)
  <1>1. /\ IsTree(r) /\ r.zones = <<>> /\ HasResources(r)
        /\ \A p \in Paths : r.at[p] = IF p \in Created THEN Default(p) ELSE Empty.at[p]
    BY EmptyIs, ResourcesAt
  <1>. HIDE DEF r
  <1>2. d = [at |-> [p \in Paths |-> IF tree.at[p] # None THEN tree.at[p] ELSE r.at[p]],
             zones |-> IF tree.zones # <<>> THEN tree.zones ELSE r.zones]
    BY <1>1 DEF Decode
  <1>3. IsTree(d) /\ d.zones = tree.zones /\ \A p \in Paths : d.at[p] = Meant(tree, p)
    BY <1>1, <1>2 DEF IsTree, Meant
  <1>4. HasResources(d)
    <2>1. "transit_gateway" \in Toggles /\ <<"transit_gateway", "create">> \in Created
          /\ <<"transit_gateway", "create">> \in Paths
      BY PathsAre DEF Toggles
    <2>2. d.at[<<"transit_gateway", "create">>] # None
      BY <1>3, <2>1, DefaultsAre, AbsentAssumption DEF Meant
    <2>. QED BY <2>1, <2>2 DEF HasResources
  <1>. HIDE DEF d
  <1>5. Resources(d) = d
    BY <1>4 DEF Resources
  <1>. DEFINE w == OverrideFromEnv(d, env)
  <1>6. /\ IsTree(w)
        /\ w.zones = IF Whole(env) = <<>> THEN d.zones ELSE Whole(env)
        /\ HasResources(w)
        /\ \A p \in Paths : \/ /\ \E j \in 1..24 : Used(env, j, p) /\ w.at[p] = Value(env, j, p)
                               /\ \A file : w.at[p] = Asked(file, env).at[p]
                            \/ /\ \A j \in 1..24 : ~Used(env, j, p)
                               /\ \A file : Asked(file, env).at[p] = Meant(file, p)
                               /\ w.at[p] = d.at[p]
    <2>1. Overlaid(d, env, w)
      BY <1>3, <1>4, OverrideAt
    <2>. HIDE DEF w
    <2>. QED BY <1>3, <1>4, <1>5, <2>1 DEF Overlaid
  <1>. HIDE DEF w
  <1>7. w.zones = Asked(tree, env).zones
    BY <1>3, <1>6, AskedZones
  <1>8. /\ \A p \in Paths : w.at[p] = Asked(tree, env).at[p]
        /\ \A p \in Paths : \/ \E j \in 1..24 : Used(env, j, p) /\ w.at[p] = Value(env, j, p)
                            \/ (\A j \in 1..24 : ~Used(env, j, p)) /\ w.at[p] = Meant(tree, p)
    BY <1>3, <1>6
  <1>. QED BY <1>6, <1>7, <1>8 DEF w, d, r

\* So does an init of variables alone.
LEMMA ToldFromEnv ==
  ASSUME NEW env
  PROVE  LET w == OverrideFromEnv(Resources(Empty), env) IN
         /\ IsTree(w) /\ w.zones = Whole(env) /\ HasResources(w)
         /\ \A p \in Paths : w.at[p] = Asked(Empty, env).at[p]
         /\ \A p \in Paths : \/ \E j \in 1..24 : Used(env, j, p) /\ w.at[p] = Value(env, j, p)
                             \/ (\A j \in 1..24 : ~Used(env, j, p)) /\ w.at[p] = Meant(Empty, p)
  <1>. DEFINE r == Resources(Empty)
  <1>1. /\ IsTree(r) /\ r.zones = <<>> /\ HasResources(r)
        /\ \A p \in Paths : r.at[p] = IF p \in Created THEN Default(p) ELSE Empty.at[p]
    BY EmptyIs, ResourcesAt
  <1>2. \A p \in Paths : r.at[p] = Meant(Empty, p)
    BY <1>1, EmptyIs DEF Meant
  <1>. HIDE DEF r
  <1>3. Resources(r) = r
    BY <1>1 DEF Resources
  <1>. DEFINE w == OverrideFromEnv(r, env)
  <1>4. /\ IsTree(w)
        /\ w.zones = IF Whole(env) = <<>> THEN r.zones ELSE Whole(env)
        /\ HasResources(w)
        /\ \A p \in Paths : \/ /\ \E j \in 1..24 : Used(env, j, p) /\ w.at[p] = Value(env, j, p)
                               /\ \A file : w.at[p] = Asked(file, env).at[p]
                            \/ /\ \A j \in 1..24 : ~Used(env, j, p)
                               /\ \A file : Asked(file, env).at[p] = Meant(file, p)
                               /\ w.at[p] = r.at[p]
    <2>1. Overlaid(r, env, w)
      BY <1>1, OverrideAt
    <2>. HIDE DEF w
    <2>. QED BY <1>1, <1>3, <2>1 DEF Overlaid
  <1>. HIDE DEF w
  <1>5. w.zones = Whole(env)
    BY <1>1, <1>4
  <1>6. /\ \A p \in Paths : w.at[p] = Asked(Empty, env).at[p]
        /\ \A p \in Paths : \/ \E j \in 1..24 : Used(env, j, p) /\ w.at[p] = Value(env, j, p)
                            \/ (\A j \in 1..24 : ~Used(env, j, p)) /\ w.at[p] = Meant(Empty, p)
    BY <1>2, <1>4
  <1>. QED BY <1>4, <1>5, <1>6 DEF w, r

\* What a file says is kept when it is read and written again.
LEMMA YamlAgain ==
  ASSUME NEW tree, TogglesTogether(tree), InBlocks(tree), Storable(tree)
  PROVE  LET w == Decode(Empty, tree) IN
         /\ IsTree(w) /\ w.zones = tree.zones
         /\ \A p \in Paths : Meant(w, p) = Meant(tree, p)
         /\ TogglesTogether(w) /\ InBlocks(w) /\ Storable(w)
  <1>. DEFINE w == Decode(Empty, tree)
  <1>1. /\ IsTree(w) /\ w.zones = tree.zones
        /\ \A p \in Paths : w.at[p] = IF tree.at[p] # None THEN tree.at[p]
                                      ELSE IF HasResources(tree) /\ p \in Created THEN "false"
                                      ELSE Empty.at[p]
    BY EmptyIs DEF Decode, IsTree
  <1>. HIDE DEF w
  <1>2. \A p \in Created : HasResources(tree) => w.at[p] = tree.at[p] /\ w.at[p] # None
    BY <1>1, PathsAre DEF TogglesTogether
  <1>3. \A p \in Created : ~HasResources(tree) => w.at[p] = None /\ tree.at[p] = None
    BY <1>1, EmptyIs, PathsAre DEF HasResources
  <1>4. HasResources(w) <=> HasResources(tree)
    BY <1>2, <1>3, PathsAre DEF HasResources, Toggles
  <1>5. \A p \in Paths \ Created : w.at[p] = IF tree.at[p] # None THEN tree.at[p] ELSE Empty.at[p]
    BY <1>1
  <1>6. \A p \in Paths : Meant(w, p) = Meant(tree, p)
    BY <1>2, <1>3, <1>5 DEF Meant
  <1>7. TogglesTogether(w)
    BY <1>2, <1>4 DEF TogglesTogether
  <1>8. InBlocks(w)
    <2>. SUFFICES ASSUME NEW row \in Rows, w.at[row.path] # None
                  PROVE  /\ row.shape = "adopt" => HasResources(w)
                         /\ row.path[1] = "flp" => w.at[Proxy] # None
      BY DEF InBlocks
    <2>1. PICK i \in 1..24 : row = Overrides[i]
      BY RowsAre
    <2>2. row.path \in Paths
      BY <2>1, RowPaths, PathsAre
    <2>3. ASSUME row.shape = "adopt" \/ row.path[1] = "flp" PROVE tree.at[row.path] # None
      <3>1. row.path # <<"cluster", "create">> /\ row.path \notin Created
        <4>1. CASE row.shape = "adopt"
          BY <2>1, <4>1, RowPaths
        <4>2. CASE row.path[1] = "flp"
          BY <4>2, PathsAre DEF Toggles
        <4>. QED BY <2>3, <4>1, <4>2
      <3>. QED BY <1>5, <2>2, <3>1, EmptyIs
    <2>. QED BY <1>1, <1>4, <2>3, PathsAre DEF InBlocks
  <1>9. Storable(w)
    <2>. SUFFICES ASSUME NEW row \in Rows, w.at[row.path] # None, ~Secret(row.path)
                  PROVE  /\ Accepts(row.shape, w.at[row.path])
                         /\ Stored(row, w.at[row.path]) = w.at[row.path]
      BY DEF Storable
    <2>1. PICK i \in 1..24 : row = Overrides[i]
      BY RowsAre
    <2>2. row.path \in Paths
      BY <2>1, RowPaths, PathsAre
    <2>3. CASE w.at[row.path] = tree.at[row.path]
      BY <2>3 DEF Storable
    <2>4. CASE w.at[row.path] # tree.at[row.path]
      <3>1. w.at[row.path] = Empty.at[row.path]
        BY <1>2, <1>3, <1>5, <2>2, <2>4
      <3>2. row.path = <<"cluster", "create">> /\ w.at[row.path] = "false"
        BY <2>2, <3>1, EmptyIs
      <3>3. row.shape = "bool"
        BY <2>1, <3>2, RowPaths
      <3>. QED BY <3>2, <3>3 DEF Accepts, Stored
    <2>. QED BY <2>3, <2>4
  <1>. QED BY <1>1, <1>6, <1>7, <1>8, <1>9 DEF w

\* So it is when the variables are written out as a file.
LEMMA EnvRead ==
  ASSUME NEW env
  PROVE  LET w == OverrideFromEnv(Empty, env) IN
         /\ IsTree(w) /\ w.zones = Whole(env)
         /\ \A p \in Paths : Meant(w, p) = Asked(Empty, env).at[p]
         /\ TogglesTogether(w) /\ InBlocks(w) /\ Storable(w)
  <1>. DEFINE w == OverrideFromEnv(Empty, env)
              r == Resources(Empty)
  <1>1. /\ IsTree(w)
        /\ w.zones = Whole(env)
        /\ Opens(env, 24) => HasResources(w)
        /\ \A p \in Paths : \/ /\ \E j \in 1..24 : Used(env, j, p) /\ w.at[p] = Value(env, j, p)
                               /\ \A file : w.at[p] = Asked(file, env).at[p]
                            \/ /\ \A j \in 1..24 : ~Used(env, j, p)
                               /\ \A file : Asked(file, env).at[p] = Meant(file, p)
                               /\ w.at[p] = IF Opens(env, 24) THEN r.at[p] ELSE Empty.at[p]
    <2>1. Overlaid(Empty, env, w)
      BY EmptyIs, OverrideAt
    <2>. HIDE DEF w
    <2>. QED BY EmptyIs, <2>1 DEF Overlaid
  <1>2. \A p \in Paths : r.at[p] = IF p \in Created THEN Default(p) ELSE Empty.at[p]
    BY EmptyIs, ResourcesAt
  <1>. HIDE DEF w, r
  <1>3. ASSUME NEW p \in Created, NEW j \in 1..24, Used(env, j, p)
        PROVE  Value(env, j, p) \in {"true", "false"} /\ Opens(env, 24)
    BY <1>3, TogglesUsed DEF Opens, Used
  <1>4. \A p \in Created : IF Opens(env, 24) THEN w.at[p] \in {"true", "false"} ELSE w.at[p] = None
    <2>. SUFFICES ASSUME NEW p \in Created
                  PROVE  IF Opens(env, 24) THEN w.at[p] \in {"true", "false"} ELSE w.at[p] = None
      OBVIOUS
    <2>1. p \in Paths /\ Default(p) \in {"true", "false"} /\ Empty.at[p] = None
      BY EmptyIs, PathsAre, DefaultsAre
    <2>2. CASE \E j \in 1..24 : Used(env, j, p) /\ w.at[p] = Value(env, j, p)
      BY <1>3, <2>2
    <2>3. CASE w.at[p] = IF Opens(env, 24) THEN r.at[p] ELSE Empty.at[p]
      BY <1>2, <2>1, <2>3
    <2>. QED BY <1>1, <2>1, <2>2, <2>3
  <1>5. HasResources(w) <=> Opens(env, 24)
    BY <1>1, <1>4, PathsAre DEF HasResources
  \* Away from the toggles: what the row of the path stores, the block of the proxy, or
  \* what is there from the start.
  <1>6. ASSUME NEW p \in Paths \ Created, \A j \in 1..24 : ~Used(env, j, p)
        PROVE  w.at[p] = Empty.at[p]
    BY <1>1, <1>2, <1>6
  <1>7. ASSUME NEW p \in Paths \ Created, NEW j \in 1..24, Used(env, j, p)
        PROVE  \/ p = Overrides[j].path /\ Value(env, j, p) = Stored(Overrides[j], env.vars[Overrides[j].env])
               \/ p = Proxy /\ Value(env, j, p) = "present"
    <2>1. CASE p = Overrides[j].path
      BY <2>1 DEF Value, To
    <2>2. CASE p # Overrides[j].path
      <3>1. Overrides[j].shape # "adopt" \/ p # <<Overrides[j].path[1], "create">>
        BY <1>7, AdoptRows, PathsAre
      <3>2. p = Proxy /\ OpensProxy(Overrides[j], env.vars[Overrides[j].env])
        BY <1>7, <2>2, <3>1 DEF Used, Sets
      <3>3. Overrides[j].shape # "adopt"
        BY <3>2, RowPaths DEF OpensProxy
      <3>. QED BY <2>2, <3>2, <3>3 DEF Value, To
    <2>. QED BY <2>1, <2>2
  <1>8. \A p \in Paths : Meant(w, p) = Asked(Empty, env).at[p]
    <2>. SUFFICES ASSUME NEW p \in Paths PROVE Meant(w, p) = Asked(Empty, env).at[p]
      OBVIOUS
    <2>1. CASE p \in Created /\ \E j \in 1..24 : Used(env, j, p)
      BY <1>1, <1>3, <1>4, <2>1, AbsentAssumption DEF Meant
    <2>2. CASE p \in Created /\ \A j \in 1..24 : ~Used(env, j, p)
      BY <1>1, <1>2, <2>2, EmptyIs, DefaultsAre DEF Meant
    <2>3. CASE p \notin Created /\ \A j \in 1..24 : ~Used(env, j, p)
      BY <1>1, <1>6, <2>3 DEF Meant
    <2>4. CASE p \notin Created /\ \E j \in 1..24 : Used(env, j, p)
      <3>1. w.at[p] = Asked(Empty, env).at[p]
        BY <1>1, <2>4
      <3>2. p = <<"cluster", "create">> => w.at[p] # None
        <4>. SUFFICES ASSUME p = <<"cluster", "create">> PROVE w.at[p] # None
          OBVIOUS
        <4>1. PICK j \in 1..24 : Used(env, j, p) /\ w.at[p] = Value(env, j, p)
          BY <1>1, <2>4
        <4>2. p = Overrides[j].path /\ w.at[p] = Stored(Overrides[j], env.vars[Overrides[j].env])
          BY <1>7, <2>4, <4>1 DEF Proxy
        <4>3. Overrides[j].shape = "bool"
          BY <4>2, RowPaths
        <4>4. env.vars[Overrides[j].env] # None
          BY <4>1 DEF Used, Given
        <4>. QED BY <4>2, <4>3, <4>4 DEF Stored
      <3>. QED BY <2>4, <3>1, <3>2, EmptyIs DEF Meant
    <2>. QED BY <2>1, <2>2, <2>3, <2>4
  <1>9. TogglesTogether(w)
    BY <1>4, <1>5, AbsentAssumption DEF TogglesTogether
  <1>10. InBlocks(w)
    <2>. SUFFICES ASSUME NEW row \in Rows, w.at[row.path] # None
                  PROVE  /\ row.shape = "adopt" => HasResources(w)
                         /\ row.path[1] = "flp" => w.at[Proxy] # None
      BY DEF InBlocks
    <2>1. PICK i \in 1..24 : row = Overrides[i]
      BY RowsAre
    <2>. SUFFICES ASSUME row.shape = "adopt" \/ row.path[1] = "flp"
                  PROVE  /\ row.shape = "adopt" => HasResources(w)
                         /\ row.path[1] = "flp" => w.at[Proxy] # None
      OBVIOUS
    <2>2. row.path \in Paths \ Created /\ row.path # <<"cluster", "create">> /\ row.path # Proxy
      <3>1. row.path \in Paths /\ row.path # Proxy
        BY <2>1, RowPaths, PathsAre
      <3>2. CASE row.shape = "adopt"
        BY <2>1, <3>1, <3>2, RowPaths
      <3>3. CASE row.path[1] = "flp"
        BY <3>1, <3>3, PathsAre DEF Toggles
      <3>. QED BY <3>1, <3>2, <3>3
    <2>3. PICK j \in 1..24 : Used(env, j, row.path)
      BY <1>6, <2>2, EmptyIs
    <2>4. row.path = Overrides[j].path /\ Given(env, Overrides[j])
      BY <1>7, <2>2, <2>3 DEF Used
    <2>5. CASE row.shape = "adopt"
      <3>1. Overrides[j].path[1] \in Toggles
        BY <2>1, <2>4, <2>5, AdoptRows
      <3>. QED BY <1>5, <2>2, <2>4, <2>5, <3>1, PathsAre DEF Opens, Toggles
    <2>6. CASE row.path[1] = "flp"
      <3>1. Used(env, j, Proxy)
        BY <2>4, <2>6 DEF Used, Sets, OpensProxy
      <3>2. PICK k \in 1..24 : Used(env, k, Proxy) /\ w.at[Proxy] = Value(env, k, Proxy)
        BY <1>1, <3>1, PathsAre
      <3>3. w.at[Proxy] = "present"
        BY <1>7, <3>2, PathsAre, RowPaths
      <3>. QED BY <2>6, <3>3, AbsentAssumption, AdoptRows, <2>1 DEF Toggles
    <2>. QED BY <2>5, <2>6
  <1>11. Storable(w)
    <2>. SUFFICES ASSUME NEW row \in Rows, w.at[row.path] # None, ~Secret(row.path)
                  PROVE  /\ Accepts(row.shape, w.at[row.path])
                         /\ Stored(row, w.at[row.path]) = w.at[row.path]
      BY DEF Storable
    <2>1. PICK i \in 1..24 : row = Overrides[i]
      BY RowsAre
    <2>2. row.path \in Paths /\ row.path # Proxy
      BY <2>1, RowPaths, PathsAre
    <2>3. CASE row.path \in Created
      <3>1. row.shape = "bool" /\ w.at[row.path] \in {"true", "false"}
        BY <1>4, <2>1, <2>3, RowPaths
      <3>. QED BY <3>1 DEF Accepts, Stored
    <2>4. CASE row.path \notin Created /\ \A j \in 1..24 : ~Used(env, j, row.path)
      <3>1. row.path = <<"cluster", "create">> /\ w.at[row.path] = "false"
        BY <1>6, <2>2, <2>4, EmptyIs
      <3>2. row.shape = "bool"
        BY <2>1, <3>1, RowPaths
      <3>. QED BY <3>1, <3>2 DEF Accepts, Stored
    <2>5. CASE row.path \notin Created /\ \E j \in 1..24 : Used(env, j, row.path)
      <3>1. PICK j \in 1..24 : Used(env, j, row.path) /\ w.at[row.path] = Value(env, j, row.path)
        BY <1>1, <2>2, <2>5
      <3>2. /\ row.path = Overrides[j].path
            /\ w.at[row.path] = Stored(Overrides[j], env.vars[Overrides[j].env])
        BY <1>7, <2>2, <2>5, <3>1
      <3>3. j = i
        BY <2>1, <3>2, PathsDiffer
      <3>4. w.at[row.path] = env.vars[row.env]
        BY <2>1, <3>2, <3>3 DEF Stored
      <3>. QED BY <2>1, <3>1, <3>2, <3>3, <3>4 DEF Used, Given
    <2>. QED BY <2>3, <2>4, <2>5
  <1>. QED BY <1>1, <1>8, <1>9, <1>10, <1>11 DEF w

-----------------------------------------------------------------------------
(* The path of a variable is found.                                        *)

\* What is at another path than its own, when the variable of row i alone is given.
Beside(i, p) == IF Overrides[i].shape = "adopt" /\ p = <<Overrides[i].path[1], "create">> THEN "false"
                ELSE IF Overrides[i].path[1] \in Toggles THEN Resources(Empty).at[p] ELSE Empty.at[p]

\* A try of one variable with one value, path by path.
LEMMA TryAt ==
  ASSUME NEW i \in 1..24, NEW v, v # None
  PROVE  LET t == Try(Overrides[i].env, v) IN
         \A p \in Leaves : t[p] =
           IF ~Accepts(Overrides[i].shape, v) THEN Empty.at[p]
           ELSE IF p = Overrides[i].path THEN Stored(Overrides[i], v) ELSE Beside(i, p)
  <1>. DEFINE row == Overrides[i]
              env == [NoEnv EXCEPT !.vars[row.env] = v]
              w   == OverrideFromEnv(Empty, env)
  <1>1. row.env \in Names
    BY RowPaths
  <1>2. env.vars[row.env] = v /\ \A n \in Names : n # row.env => env.vars[n] = None
    BY <1>1 DEF NoEnv
  <1>. HIDE DEF env
  <1>3. \A j \in 1..24 : Given(env, Overrides[j]) <=> j = i /\ Accepts(row.shape, v)
    <2>. SUFFICES ASSUME NEW j \in 1..24
                  PROVE  Given(env, Overrides[j]) <=> j = i /\ Accepts(row.shape, v)
      OBVIOUS
    <2>1. CASE j = i
      BY <1>2, <2>1 DEF Given
    <2>2. CASE j # i
      <3>1. Overrides[j].env # row.env /\ Overrides[j].env \in Names
        BY <2>2, EnvsDiffer, RowPaths
      <3>. QED BY <1>2, <2>2, <3>1 DEF Given
    <2>. QED BY <2>1, <2>2
  <1>4. \A p \in Paths : \/ \E j \in 1..24 : Used(env, j, p) /\ w.at[p] = Value(env, j, p)
                         \/ /\ \A j \in 1..24 : ~Used(env, j, p)
                            /\ w.at[p] = IF Opens(env, 24) THEN Resources(Empty).at[p] ELSE Empty.at[p]
    <2>1. Overlaid(Empty, env, w)
      BY EmptyIs, OverrideAt
    <2>. HIDE DEF w
    <2>. QED BY EmptyIs, <2>1 DEF Overlaid
  <1>5. Try(row.env, v) = w.at
    BY DEF Try, env
  <1>. HIDE DEF w
  <1>. SUFFICES ASSUME NEW p \in Leaves
                PROVE  w.at[p] = IF ~Accepts(row.shape, v) THEN Empty.at[p]
                                 ELSE IF p = row.path THEN Stored(row, v) ELSE Beside(i, p)
    BY <1>5
  <1>6. p \in Paths /\ p # Proxy
    BY PathsAre
  <1>7. CASE ~Accepts(row.shape, v)
    BY <1>3, <1>4, <1>6, <1>7 DEF Used, Opens
  <1>8. CASE Accepts(row.shape, v)
    <2>1. Opens(env, 24) <=> row.path[1] \in Toggles
      BY <1>3, <1>8 DEF Opens
    <2>2. Used(env, i, p) <=> p = row.path \/ (row.shape = "adopt" /\ p = <<row.path[1], "create">>)
      BY <1>2, <1>3, <1>6, <1>8 DEF Used, Sets
    <2>3. \A j \in 1..24 : Used(env, j, p) => j = i
      BY <1>3 DEF Used
    <2>4. CASE Used(env, i, p)
      <3>1. w.at[p] = Value(env, i, p)
        BY <1>4, <1>6, <2>3, <2>4
      <3>. QED BY <1>2, <1>8, <2>2, <2>4, <3>1 DEF Value, To, Beside
    <2>5. CASE ~Used(env, i, p)
      BY <1>4, <1>6, <1>8, <2>1, <2>2, <2>3, <2>5 DEF Beside
    <2>. QED BY <2>4, <2>5
  <1>. QED BY <1>7, <1>8

\* The three pairs of values, and what a row makes of each: it takes both or neither, and
\* keeps them apart.
LEMMA PairCount == DOMAIN Pairs = 1..3
  BY DEF Pairs

LEMMA PairsAre ==
  ASSUME NEW i \in 1..24, NEW k \in 1..3
  PROVE  LET row == Overrides[i]
             v   == Pairs[k][1]
             w   == Pairs[k][2] IN
         /\ v # None /\ w # None
         /\ Accepts(row.shape, v) <=> Accepts(row.shape, w)
         /\ Accepts(row.shape, v) => Stored(row, v) # Stored(row, w)
  <1>. DEFINE row == Overrides[i]
  <1>1. /\ Pairs[1][1] = "a" /\ Pairs[1][2] = "b"
        /\ Pairs[2][1] = "true" /\ Pairs[2][2] = "false"
        /\ Pairs[3][1] = "97" /\ Pairs[3][2] = "98"
    BY DEF Pairs
  <1>2. \A x \in {"a", "b", "true", "false", "97", "98"} : x # None
    BY AbsentAssumption DEF Numerals
  <1>3. row.shape \in {"text", "bool", "list", "adopt", "int", "pointer", "flag"}
    BY Shapes
  <1>4. k = 1 \/ k = 2 \/ k = 3
    OBVIOUS
  <1>. HIDE DEF row
  <1>5. CASE row.shape \in {"bool", "flag"}
    <2>1. Accepts(row.shape, "true") /\ Accepts(row.shape, "false")
          /\ ~Accepts(row.shape, "a") /\ ~Accepts(row.shape, "b")
          /\ ~Accepts(row.shape, "97") /\ ~Accepts(row.shape, "98")
      BY <1>5 DEF Accepts
    <2>2. Stored(row, "true") = "true" /\ Stored(row, "false") \in {None, "false"}
      BY DEF Stored
    <2>. QED BY <1>1, <1>2, <1>4, <2>1, <2>2 DEF row
  <1>6. CASE row.shape \in {"int", "pointer"}
    <2>1. Accepts(row.shape, "97") /\ Accepts(row.shape, "98")
          /\ ~Accepts(row.shape, "a") /\ ~Accepts(row.shape, "b")
          /\ ~Accepts(row.shape, "true") /\ ~Accepts(row.shape, "false")
      BY <1>6 DEF Accepts, Numerals
    <2>2. Stored(row, "97") = "97" /\ Stored(row, "98") = "98"
      BY DEF Stored
    <2>. QED BY <1>1, <1>2, <1>4, <2>1, <2>2 DEF row
  <1>7. CASE row.shape \in {"text", "list", "adopt"}
    BY <1>1, <1>2, <1>4, <1>7 DEF Accepts, Stored, row
  <1>. QED BY <1>3, <1>5, <1>6, <1>7 DEF row

\* Some pair suits a row.
LEMMA PairsTried ==
  ASSUME NEW i \in 1..24
  PROVE  \E j \in 1..3 : Accepts(Overrides[i].shape, Pairs[j][1])
  <1>1. Pairs[1][1] = "a" /\ Pairs[2][1] = "true" /\ Pairs[3][1] = "97"
    BY DEF Pairs
  <1>2. \/ Accepts(Overrides[i].shape, "a") \/ Accepts(Overrides[i].shape, "true")
        \/ Accepts(Overrides[i].shape, "97")
    BY Shapes DEF Accepts, Numerals
  <1>. QED BY <1>1, <1>2

\* probePath: for every variable of the table, the path that is found by trying it on an
\* empty workspace is the one path it writes.
THEOREM PathFound ==
  ASSUME NEW i \in 1..24
  PROVE  PathOf(Overrides[i].env) = {Overrides[i].path}
  <1>. DEFINE row == Overrides[i]
              n   == row.env
              hits == {k \in DOMAIN Pairs : Moved(n, Pairs[k]) # {}}
              pair == Pairs[Min(hits)]
  <1>0. DOMAIN Pairs = 1..3 /\ row.path \in Leaves
    BY PairCount, RowPaths
  <1>1. ASSUME NEW k \in 1..3, Accepts(row.shape, Pairs[k][1])
        PROVE  Differs(n, Pairs[k]) = {row.path} /\ Moved(n, Pairs[k]) # {}
    <2>1. /\ Pairs[k][1] # None /\ Pairs[k][2] # None /\ Accepts(row.shape, Pairs[k][2])
          /\ Stored(row, Pairs[k][1]) # Stored(row, Pairs[k][2])
      BY <1>1, PairsAre
    <2>2. \A x \in 1..2, p \in Leaves : Try(n, Pairs[k][x])[p] =
            IF p = row.path THEN Stored(row, Pairs[k][x]) ELSE Beside(i, p)
      <3>1. \A p \in Leaves : Try(n, Pairs[k][1])[p] =
              IF p = row.path THEN Stored(row, Pairs[k][1]) ELSE Beside(i, p)
        BY <1>1, <2>1, TryAt
      <3>2. \A p \in Leaves : Try(n, Pairs[k][2])[p] =
              IF p = row.path THEN Stored(row, Pairs[k][2]) ELSE Beside(i, p)
        BY <2>1, TryAt
      <3>. QED BY <3>1, <3>2
    <2>3. Differs(n, Pairs[k]) = {row.path}
      BY <1>0, <2>1, <2>2 DEF Differs
    <2>4. row.path \in Moved(n, Pairs[k])
      BY <1>0, <2>1, <2>2 DEF Moved
    <2>. QED BY <2>3, <2>4
  <1>2. ASSUME NEW k \in 1..3, ~Accepts(row.shape, Pairs[k][1])
        PROVE  Moved(n, Pairs[k]) = {}
    <2>1. Pairs[k][1] # None /\ Pairs[k][2] # None /\ ~Accepts(row.shape, Pairs[k][2])
      BY <1>2, PairsAre
    <2>2. \A x \in 1..2, p \in Leaves : Try(n, Pairs[k][x])[p] = Empty.at[p]
      <3>1. \A p \in Leaves : Try(n, Pairs[k][1])[p] = Empty.at[p]
        BY <1>2, <2>1, TryAt
      <3>2. \A p \in Leaves : Try(n, Pairs[k][2])[p] = Empty.at[p]
        BY <2>1, TryAt
      <3>. QED BY <3>1, <3>2
    <2>. QED BY <2>2 DEF Moved
  <1>3. hits # {} /\ hits \subseteq 1..3
    <2>1. \E j \in 1..3 : Accepts(row.shape, Pairs[j][1])
      BY PairsTried
    <2>. QED BY <1>0, <1>1, <2>1
  <1>4. Min(hits) \in hits
    <2>. HIDE DEF hits
    <2>1. \E x \in hits : \A y \in hits : x <= y
      <3>1. CASE 1 \in hits
        BY <1>3, <3>1
      <3>2. CASE 1 \notin hits /\ 2 \in hits
        <4>1. \A y \in hits : 2 <= y
          BY <1>3, <3>2
        <4>. QED BY <3>2, <4>1
      <3>3. CASE 1 \notin hits /\ 2 \notin hits
        <4>1. \A y \in hits : y = 3
          BY <1>3, <3>3
        <4>2. PICK x \in hits : TRUE
          BY <1>3
        <4>. QED BY <4>1, <4>2
      <3>. QED BY <3>1, <3>2, <3>3
    <2>. QED BY <2>1 DEF Min
  <1>5. Min(hits) \in 1..3 /\ Accepts(row.shape, pair[1])
    BY <1>0, <1>2, <1>4
  <1>6. Differs(n, pair) = {row.path}
    BY <1>1, <1>5
  <1>7. Cardinality(Differs(n, pair)) = 1
    BY <1>6, FS_Singleton
  <1>8. PathOf(n) = IF hits = {} THEN {}
                    ELSE IF Cardinality(Differs(n, pair)) = 1 THEN Differs(n, pair) ELSE Moved(n, pair)
    BY DEF PathOf
  <1>. HIDE DEF hits, pair, n
  <1>. QED BY <1>3, <1>6, <1>7, <1>8 DEF n

-----------------------------------------------------------------------------
(* The zones.                                                              *)

\* Counting up to two.
LEMMA ZoneCounts ==
  /\ Cardinality(Zones) = 2
  /\ \A n \in 0..2 : Cardinality(1..n) = n /\ IsFiniteSet(1..n)
  /\ \A n \in 0..2 : \A z \in 1..n : (1..n) \cap (1..z) = 1..z
  <1>1. ASSUME NEW n \in 0..2 PROVE Cardinality(1..n) = n /\ IsFiniteSet(1..n)
    <2>1. 1 \in Int /\ n \in Int
      OBVIOUS
    <2>2. IsFiniteSet(1..n) /\ Cardinality(1..n) = IF 1 > n THEN 0 ELSE n - 1 + 1
      BY <2>1, FS_Interval, Zenon
    <2>. QED BY <2>2
  <1>2. ASSUME NEW n \in 0..2, NEW z \in 1..n PROVE (1..n) \cap (1..z) = 1..z
    OBVIOUS
  <1>3. Cardinality(Zones) = 2
    BY <1>1 DEF Zones
  <1>. QED BY <1>1, <1>2, <1>3

\* Zones that are whole up to the n-th and not there after it come out as they are.
LEMMA WholePrefix ==
  ASSUME NEW env, NEW n \in 0..2, WholeZones(env) = 1..n
  PROVE  Whole(env) = [z \in 1..n |-> env.zones[z]]
  <1>1. Cardinality(WholeZones(env)) = n
    BY ZoneCounts
  <1>2. ASSUME NEW i \in 1..n
        PROVE  (CHOOSE z \in WholeZones(env) : Cardinality(WholeZones(env) \cap 1..z) = i) = i
    <2>1. ASSUME NEW z \in 1..n PROVE Cardinality((1..n) \cap (1..z)) = z
      <3>1. z \in 0..2 /\ (1..n) \cap (1..z) = 1..z
        BY ZoneCounts
      <3>2. Cardinality(1..z) = z
        BY <3>1, ZoneCounts
      <3>. QED BY <3>1, <3>2
    <2>2. \A z \in 1..n : Cardinality((1..n) \cap (1..z)) = i <=> z = i
      BY <2>1
    <2>. QED BY <2>2
  <1>3. Whole(env) = [i \in 1..n |->
          env.zones[CHOOSE z \in WholeZones(env) : Cardinality(WholeZones(env) \cap 1..z) = i]]
    BY <1>1 DEF Whole
  <1>. QED BY <1>2, <1>3

\* No zones come of none.
LEMMA WholeNone ==
  ASSUME NEW env, \A z \in Zones, f \in Fields : env.zones[z][f] = None
  PROVE  Whole(env) = <<>>
  <1>1. WholeZones(env) = 1..0
    BY DEF WholeZones, Fields
  <1>2. Whole(env) = [z \in 1..0 |-> env.zones[z]]
    BY <1>1, WholePrefix
  <1>. QED BY <1>2

\* zoneFamilyPaths finds each zone at its own place.
LEMMA ZonesFound == \A z \in Zones : ZonePaths[z] = z
  <1>. DEFINE mark == <<"a", "b">>
              env  == [NoEnv EXCEPT !.zones = [z \in Zones |-> [f \in Fields |-> mark[z]]]]
              got  == OverrideFromEnv(Empty, env).zones
  <1>1. \A z \in Zones, f \in Fields : env.zones[z][f] = mark[z] /\ mark[z] # None
    BY AbsentAssumption DEF NoEnv, Zones
  <1>2. \A z \in Zones : env.zones[z] = [f \in Fields |-> mark[z]]
    BY DEF NoEnv
  <1>. HIDE DEF env
  <1>3. WholeZones(env) = 1..2
    BY <1>1 DEF WholeZones, Zones
  <1>4. Whole(env) = [z \in 1..2 |-> env.zones[z]]
    BY <1>3, WholePrefix
  <1>5. got = Whole(env)
    <2>1. Overlaid(Empty, env, OverrideFromEnv(Empty, env))
      BY EmptyIs, OverrideAt
    <2>. QED BY <1>4, <2>1 DEF Overlaid
  <1>6. ZonePaths = [z \in Zones |-> CHOOSE i \in DOMAIN got : got[i]["external"] = mark[z]]
    BY DEF ZonePaths, env
  <1>. HIDE DEF got
  <1>7. DOMAIN got = 1..2 /\ got[1]["external"] = "a" /\ got[2]["external"] = "b"
    BY <1>2, <1>4, <1>5 DEF Zones, Fields
  <1>8. ASSUME NEW z \in Zones PROVE (CHOOSE i \in DOMAIN got : got[i]["external"] = mark[z]) = z
    <2>1. z \in 1..2 /\ \A i \in 1..2 : got[i]["external"] = mark[z] <=> i = z
      BY <1>7 DEF Zones
    <2>. QED BY <1>7, <2>1
  <1>. QED BY <1>6, <1>8

-----------------------------------------------------------------------------
(* The variables that are written for a workspace say what it says.        *)

\* A variable that is no secret is asked for as it is stored, whatever other rows say.
LEMMA AskedSaid ==
  ASSUME NEW file, NEW env, NEW i \in 1..24, Given(env, Overrides[i]), ~Secret(Overrides[i].path)
  PROVE  Asked(file, env).at[Overrides[i].path] = Stored(Overrides[i], env.vars[Overrides[i].env])
  <1>. DEFINE p == Overrides[i].path
  <1>1. p \in Paths /\ p # Proxy
    BY RowPaths, PathsAre
  <1>2. Used(env, i, p) /\ Value(env, i, p) = Stored(Overrides[i], env.vars[Overrides[i].env])
    BY DEF Used, Sets, Value, To
  <1>3. ASSUME NEW k \in (i + 1)..24, Used(env, k, p) PROVE FALSE
    <2>1. k \in 1..24 /\ k > i
      OBVIOUS
    <2>2. Overrides[k].path # p
      <3>. SUFFICES ASSUME Overrides[i].path = Overrides[k].path PROVE FALSE
        OBVIOUS
      <3>1. i = k \/ Secret(Overrides[i].path)
        BY <2>1, PathsDiffer
      <3>. QED BY <2>1, <3>1
    <2>3. ~(Overrides[k].shape = "adopt" /\ p = <<Overrides[k].path[1], "create">>)
      <3>1. Overrides[k].shape = "adopt" /\ p = <<Overrides[k].path[1], "create">> => k < i
        BY <2>1, AdoptRows
      <3>. QED BY <2>1, <3>1
    <2>. QED BY <1>1, <1>3, <2>2, <2>3 DEF Used, Sets
  <1>. QED BY <1>1, <1>2, <1>3, AskedUsed

\* envLinesFor writes what differs from an empty workspace and is no secret.
LEMMA EnvLinesAt ==
  ASSUME NEW ws, NEW i \in 1..24
  PROVE  EnvLines(ws).vars[Overrides[i].env] =
           IF Secret(Overrides[i].path) \/ ws.at[Overrides[i].path] = Empty.at[Overrides[i].path]
           THEN None ELSE ws.at[Overrides[i].path]
  <1>. DEFINE n == Overrides[i].env
              p == Overrides[i].path
  <1>1. n \in Names
    BY RowPaths
  <1>2. OverridePaths[n] = {p}
    BY <1>1, PathFound DEF OverridePaths
  <1>3. Cardinality({p}) = 1
    BY FS_Singleton
  <1>4. (CHOOSE q \in {p} : TRUE) = p
    OBVIOUS
  <1>5. EnvLines(ws).vars[n] =
          LET ps == OverridePaths[n]
              c  == CHOOSE q \in ps : TRUE IN
          IF Cardinality(ps) # 1 THEN None
          ELSE IF Secret(c) \/ ws.at[c] = Empty.at[c] THEN None ELSE ws.at[c]
    BY <1>1 DEF EnvLines
  <1>. HIDE DEF n, p
  <1>. QED BY <1>2, <1>3, <1>4, <1>5 DEF n, p

\* And the zones as they are.
LEMMA EnvLinesZones ==
  ASSUME NEW ws, AllFields(ws.zones)
  PROVE  Whole(EnvLines(ws)) = ws.zones
  <1>. DEFINE env == EnvLines(ws)
  <1>1. PICK n \in 0..2 : ws.zones = [z \in 1..n |-> [f \in Fields |-> ws.zones[z][f]]]
    BY ZoneCounts DEF AllFields
  <1>2. DOMAIN ws.zones = 1..n /\ \A z \in 1..n, f \in Fields : ws.zones[z][f] # None
    BY <1>1 DEF AllFields
  <1>3. \A z \in Zones : env.zones[z] =
          [f \in Fields |-> IF z \in 1..n THEN ws.zones[z][f] ELSE None]
    BY <1>2, ZonesFound DEF EnvLines
  <1>. HIDE DEF env
  <1>4. WholeZones(env) = 1..n
    <2>1. \A z \in 1..n : z \in Zones
      BY DEF Zones
    <2>2. "external" \in Fields
      BY DEF Fields
    <2>3. ASSUME NEW z \in Zones PROVE (\A f \in Fields : env.zones[z][f] # None) <=> z \in 1..n
      <3>1. \A f \in Fields : env.zones[z][f] = IF z \in 1..n THEN ws.zones[z][f] ELSE None
        BY <1>3
      <3>. QED BY <1>2, <2>2, <3>1
    <2>. QED BY <2>1, <2>3 DEF WholeZones
  <1>5. Whole(env) = [z \in 1..n |-> env.zones[z]]
    BY <1>4, WholePrefix
  <1>6. \A z \in 1..n : env.zones[z] = [f \in Fields |-> ws.zones[z][f]]
    BY <1>3 DEF Zones
  <1>7. Whole(env) = ws.zones
    BY <1>1, <1>5, <1>6
  <1>. QED BY <1>7 DEF env

\* `config env` and back: what a workspace says at any path that has a variable and is no
\* secret is what the variables written for it ask for.
THEOREM EnvWritten ==
  ASSUME NEW ws, TogglesTogether(ws), InBlocks(ws), Storable(ws), NEW p \in Carried
  PROVE  Asked(Empty, EnvLines(ws)).at[p] = Meant(ws, p)
  <1>. DEFINE env == EnvLines(ws)
  <1>1. PICK i \in 1..24 : p = Overrides[i].path
    BY RowsAre DEF Carried
  <1>2. p \in Paths /\ p # Proxy /\ ~Secret(p)
    BY <1>1, RowPaths, PathsAre DEF Carried
  <1>3. \A j \in 1..24 : env.vars[Overrides[j].env] =
          IF Secret(Overrides[j].path) \/ ws.at[Overrides[j].path] = Empty.at[Overrides[j].path]
          THEN None ELSE ws.at[Overrides[j].path]
    BY EnvLinesAt
  <1>. HIDE DEF env
  <1>4. CASE env.vars[Overrides[i].env] # None
    <2>1. env.vars[Overrides[i].env] = ws.at[p] /\ ws.at[p] # None
      BY <1>1, <1>3, <1>4
    <2>2. Accepts(Overrides[i].shape, ws.at[p]) /\ Stored(Overrides[i], ws.at[p]) = ws.at[p]
      BY <1>1, <1>2, <2>1, RowPaths DEF Storable
    <2>3. Given(env, Overrides[i])
      BY <2>1, <2>2 DEF Given
    <2>4. Asked(Empty, env).at[p] = ws.at[p]
      BY <1>1, <1>2, <2>1, <2>2, <2>3, AskedSaid
    <2>. QED BY <2>1, <2>4 DEF Meant, env
  <1>5. CASE env.vars[Overrides[i].env] = None
    <2>1. ws.at[p] = None \/ ws.at[p] = Empty.at[p]
      BY <1>1, <1>2, <1>3, <1>5
    <2>2. ASSUME NEW j \in 1..24, Used(env, j, p)
          PROVE  /\ Overrides[j].shape = "adopt" /\ p = <<Overrides[j].path[1], "create">>
                 /\ HasResources(ws)
      <3>1. Overrides[j].path # p
        <4>. SUFFICES ASSUME Overrides[j].path = p PROVE FALSE
          OBVIOUS
        <4>1. i = j
          BY <1>1, <1>2, PathsDiffer
        <4>. QED BY <1>5, <2>2, <4>1 DEF Used, Given
      <3>2. Overrides[j].shape = "adopt" /\ p = <<Overrides[j].path[1], "create">>
        BY <1>2, <2>2, <3>1 DEF Used, Sets
      <3>3. ws.at[Overrides[j].path] # None
        <4>1. env.vars[Overrides[j].env] # None
          BY <2>2 DEF Used, Given
        <4>. QED BY <1>3, <4>1
      <3>. QED BY <3>2, <3>3, RowPaths DEF InBlocks
    <2>3. \A j \in 1..24 : ~Used(env, j, p)
      <3>. SUFFICES ASSUME NEW j \in 1..24, Used(env, j, p) PROVE FALSE
        OBVIOUS
      <3>1. Overrides[j].shape = "adopt" /\ p = <<Overrides[j].path[1], "create">> /\ HasResources(ws)
        BY <2>2
      <3>2. p \in Created
        BY <3>1, AdoptRows, PathsAre
      <3>3. ws.at[p] # None
        BY <3>1, <3>2 DEF TogglesTogether
      <3>. QED BY <1>2, <2>1, <3>2, <3>3, EmptyIs
    <2>4. Asked(Empty, env).at[p] = Meant(Empty, p)
      BY <1>2, <2>3, AskedUnused
    <2>5. Meant(ws, p) = Meant(Empty, p)
      BY <1>2, <2>1, EmptyIs DEF Meant
    <2>. QED BY <2>4, <2>5 DEF env
  <1>. QED BY <1>4, <1>5

-----------------------------------------------------------------------------
(* What was asked for is in the document until it is saved, and saved then. *)

\* What is compared, and two paths of it.
Compared == IF hops = 0 THEN Paths ELSE Carried
Namespace == <<"flp", "namespace">>
ClusterCreate == <<"cluster", "create">>

\* In each of its forms the document says what is wanted.
YamlSays == /\ TogglesTogether(doc.tree) /\ InBlocks(doc.tree) /\ Storable(doc.tree)
            /\ doc.tree.zones = wanted.zones
            /\ \A p \in Compared : Meant(doc.tree, p) = wanted.at[p]
EnvSays == /\ hops > 0 /\ Whole(doc.env) = wanted.zones
           /\ \A p \in Carried : Asked(Empty, doc.env).at[p] = wanted.at[p]
SavedSays == /\ \A p \in Compared : saved.at[p] = wanted.at[p]
             /\ saved.zones = wanted.zones /\ HasResources(saved)
             /\ saved.at[Namespace] # None => saved.at[Proxy] # None
             /\ saved.at[ClusterCreate] # None /\ \A p \in Created : saved.at[p] # None

\* The invariant: the document says it until it is saved, and then the workspace does.
SettingsInv ==
  /\ hops \in Nat
  /\ \/ doc = Yaml(doc.tree) /\ YamlSays /\ saved = None /\ AllFields(wanted.zones)
     \/ doc = DotEnv(doc.env) /\ EnvSays /\ saved = None /\ AllFields(wanted.zones)
     \/ doc = Served /\ SavedSays

\* It implies that a workspace says what was asked for.
LEMMA SavedIsAsAsked == ASSUME SettingsInv PROVE SavedAsAsked
  BY DEF SettingsInv, SavedAsAsked, SavedSays, Compared

\* What a variable carries is a path.
LEMMA CarriedIn == Carried \subseteq Paths /\ Compared \subseteq Paths
  <1>1. \A row \in Rows : row.path \in Paths
    BY RowsAre, RowPaths, PathsAre
  <1>. QED BY <1>1 DEF Carried, Compared

\* Without variables no row is used.
LEMMA NoEnvUnused == ASSUME NEW p \in Paths PROVE \A k \in 1..24 : ~Used(NoEnv, k, p)
  BY RowPaths DEF Used, Given, NoEnv

\* What is meant is not changed by being said.
LEMMA MeantTwice ==
  ASSUME NEW f, NEW g, NEW p \in Paths, g.at[p] = Meant(f, p)
  PROVE  Meant(g, p) = g.at[p]
  BY EmptyIs, DefaultsAre, AbsentAssumption DEF Meant

\* What is asked for depends on what the file means, not on how it says so.
LEMMA AskedOfMeant ==
  ASSUME NEW f, NEW g, NEW env, NEW p \in Paths, Meant(f, p) = Meant(g, p)
  PROVE  Asked(f, env).at[p] = Asked(g, env).at[p]
  <1>. DEFINE w == OverrideFromEnv(Empty, env)
  <1>1. \/ \A file : w.at[p] = Asked(file, env).at[p]
        \/ \A file : Asked(file, env).at[p] = Meant(file, p)
    <2>1. Overlaid(Empty, env, w)
      BY EmptyIs, OverrideAt
    <2>. HIDE DEF w
    <2>. QED BY EmptyIs, <2>1 DEF Overlaid
  <1>. QED BY <1>1

\* A workspace with a namespace of the proxy has its block.
LEMMA ProxyOpen ==
  ASSUME NEW tree, InBlocks(tree), NEW env, NEW w,
         \A p \in Paths : \/ \E j \in 1..24 : Used(env, j, p) /\ w.at[p] = Value(env, j, p)
                          \/ (\A j \in 1..24 : ~Used(env, j, p)) /\ w.at[p] = Meant(tree, p),
         w.at[Namespace] # None
  PROVE  w.at[Proxy] # None
  <1>1. \E i \in 1..24 : Overrides[i].path = Namespace
    <2>1. Overrides[21].path = Namespace
      BY DEF Overrides, Row, Namespace
    <2>. QED BY <2>1
  <1>2. Namespace \in Paths /\ Proxy \in Paths /\ Namespace # Proxy /\ Namespace \notin Created
        /\ Namespace # <<"cluster", "create">>
    BY <1>1, RowPaths, PathsAre DEF Namespace, Toggles
  <1>3. ASSUME NEW j \in 1..24, Used(env, j, Proxy) PROVE Value(env, j, Proxy) = "present"
    <2>1. Overrides[j].path # Proxy
      BY RowPaths
    <2>2. OpensProxy(Overrides[j], env.vars[Overrides[j].env])
      BY <1>3, <2>1, AdoptRows DEF Used, Sets, Proxy
    <2>3. Overrides[j].shape # "adopt"
      BY <2>2, RowPaths DEF OpensProxy
    <2>. QED BY <2>1, <2>3 DEF Value, To
  <1>4. CASE \E j \in 1..24 : Used(env, j, Proxy)
    BY <1>2, <1>3, <1>4, AbsentAssumption
  <1>5. CASE \A j \in 1..24 : ~Used(env, j, Proxy)
    <2>1. ASSUME NEW j \in 1..24, Used(env, j, Namespace) PROVE FALSE
      <3>1. \/ Overrides[j].path = Namespace
            \/ Overrides[j].shape = "adopt" /\ Namespace = <<Overrides[j].path[1], "create">>
        BY <1>2, <2>1 DEF Used, Sets
      <3>2. Overrides[j].path = Namespace
        BY <3>1 DEF Namespace
      <3>3. OpensProxy(Overrides[j], env.vars[Overrides[j].env])
        BY <3>2 DEF OpensProxy, Namespace
      <3>. QED BY <1>5, <2>1, <3>3 DEF Used, Sets
    <2>2. w.at[Namespace] = Meant(tree, Namespace)
      BY <1>2, <2>1
    <2>3. tree.at[Namespace] # None
      BY <1>2, <2>2, EmptyIs DEF Meant
    <2>4. tree.at[Proxy] # None
      BY <1>1, <2>3, RowPaths DEF InBlocks, Namespace
    <2>. QED BY <1>2, <1>5, <2>4 DEF Meant
  <1>. QED BY <1>4, <1>5

\* Every toggle is switched one way or the other.
LEMMA TogglesDecided ==
  ASSUME NEW tree, NEW env, NEW w, NEW p \in Created,
         \/ \E j \in 1..24 : Used(env, j, p) /\ w.at[p] = Value(env, j, p)
         \/ w.at[p] = Meant(tree, p)
  PROVE  w.at[p] # None
  <1>1. ASSUME NEW j \in 1..24, Used(env, j, p), w.at[p] = Value(env, j, p) PROVE w.at[p] # None
    BY <1>1, TogglesUsed, AbsentAssumption
  <1>2. ASSUME w.at[p] = Meant(tree, p) PROVE w.at[p] # None
    BY <1>2, DefaultsAre, AbsentAssumption DEF Meant
  <1>. QED BY <1>1, <1>2

\* Whether there is a cluster of its own to make is never left open.
LEMMA ClusterDecided ==
  ASSUME NEW tree, NEW env, NEW w,
         \A p \in Paths : \/ \E j \in 1..24 : Used(env, j, p) /\ w.at[p] = Value(env, j, p)
                          \/ (\A j \in 1..24 : ~Used(env, j, p)) /\ w.at[p] = Meant(tree, p)
  PROVE  w.at[ClusterCreate] # None
  <1>1. ClusterCreate \in Paths /\ ClusterCreate # Proxy /\ ClusterCreate \notin Created
        /\ Empty.at[ClusterCreate] = "false"
    <2>1. Overrides[6].path = ClusterCreate
      BY DEF Overrides, Row, ClusterCreate
    <2>2. ClusterCreate \in Paths /\ ClusterCreate # Proxy
      BY <2>1, RowPaths, PathsAre
    <2>3. ClusterCreate[1] \notin Toggles
      BY DEF ClusterCreate, Toggles
    <2>. QED BY <2>2, <2>3, EmptyIs, PathsAre DEF ClusterCreate
  <1>2. ASSUME NEW j \in 1..24, Used(env, j, ClusterCreate)
        PROVE  Value(env, j, ClusterCreate) # None
    <2>1. \/ Overrides[j].path = ClusterCreate
          \/ Overrides[j].shape = "adopt" /\ ClusterCreate = <<Overrides[j].path[1], "create">>
      BY <1>1, <1>2 DEF Used, Sets
    <2>2. Overrides[j].shape = "adopt" => Overrides[j].path[1] \in Toggles
      BY AdoptRows
    <2>3. Overrides[j].path = ClusterCreate
      BY <2>1, <2>2 DEF ClusterCreate, Toggles
    <2>4. Overrides[j].shape \notin {"int", "flag"}
      BY <2>3, RowPaths DEF ClusterCreate
    <2>5. Value(env, j, ClusterCreate) = env.vars[Overrides[j].env]
      BY <2>3, <2>4 DEF Value, To, Stored
    <2>. QED BY <1>2, <2>5 DEF Used, Given
  <1>3. CASE \E j \in 1..24 : Used(env, j, ClusterCreate)
    BY <1>1, <1>2, <1>3
  <1>4. CASE \A j \in 1..24 : ~Used(env, j, ClusterCreate)
    BY <1>1, <1>4, AbsentAssumption DEF Meant
  <1>. QED BY <1>3, <1>4

\* Step by step.
LEMMA InitSettings == SettingsInit => SettingsInv
  <1>. SUFFICES ASSUME SettingsInit PROVE SettingsInv
    OBVIOUS
  <1>1. PICK input \in Inputs :
          doc = Yaml(input.file) /\ overlay = input.env /\ wanted = Asked(input.file, NoEnv)
    BY DEF SettingsInit
  <1>2. hops = 0 /\ saved = None
    BY DEF SettingsInit
  <1>3. WellWritten(input.file)
    BY InputsAssumption
  <1>4. doc = Yaml(doc.tree) /\ doc.tree = input.file
    BY <1>1 DEF Yaml
  <1>5. \A p \in Paths : wanted.at[p] = Meant(input.file, p)
    BY <1>1, NoEnvUnused, AskedUnused
  <1>6. wanted.zones = input.file.zones
    <2>1. Whole(NoEnv) = <<>>
      BY WholeNone DEF NoEnv
    <2>. QED BY <1>1, <2>1, AskedZones
  <1>7. YamlSays
    BY <1>2, <1>3, <1>4, <1>5, <1>6 DEF YamlSays, WellWritten, Compared
  <1>. QED BY <1>2, <1>3, <1>4, <1>6, <1>7 DEF SettingsInv, WellWritten

\* Whatever form the document has, the workspace that is read from it means what was
\* asked for.
LEMMA SourceSays ==
  ASSUME SettingsInv, doc # Served
  PROVE  LET ws == LoadConfigSource IN
         /\ TogglesTogether(ws) /\ InBlocks(ws) /\ Storable(ws) /\ ws.zones = wanted.zones
         /\ \A p \in Carried : Meant(ws, p) = wanted.at[p]
  <1>. DEFINE ws == LoadConfigSource
  <1>1. CASE doc = Yaml(doc.tree) /\ YamlSays
    <2>1. doc.form = "yaml"
      BY <1>1 DEF Yaml
    <2>2. ws = Decode(Empty, doc.tree)
      BY <2>1 DEF LoadConfigSource
    <2>. HIDE DEF ws
    <2>3. /\ TogglesTogether(ws) /\ InBlocks(ws) /\ Storable(ws) /\ ws.zones = wanted.zones
          /\ \A p \in Paths : Meant(ws, p) = Meant(doc.tree, p)
      BY <1>1, <2>2, YamlAgain DEF YamlSays
    <2>4. Carried \subseteq Compared /\ Carried \subseteq Paths
      BY CarriedIn DEF Compared
    <2>. QED BY <1>1, <2>3, <2>4 DEF YamlSays, ws
  <1>2. CASE doc = DotEnv(doc.env) /\ EnvSays
    <2>1. doc.form = "env"
      BY <1>2 DEF DotEnv
    <2>2. ws = OverrideFromEnv(Empty, doc.env)
      BY <2>1 DEF LoadConfigSource
    <2>. HIDE DEF ws
    <2>3. /\ TogglesTogether(ws) /\ InBlocks(ws) /\ Storable(ws) /\ ws.zones = Whole(doc.env)
          /\ \A p \in Paths : Meant(ws, p) = Asked(Empty, doc.env).at[p]
      BY <2>2, EnvRead
    <2>. QED BY <1>2, <2>3, CarriedIn DEF EnvSays, ws
  <1>. QED BY <1>1, <1>2 DEF SettingsInv

\* An unserved document has no workspace yet.
LEMMA FormsAre ==
  ASSUME SettingsInv, doc # Served
  PROVE  saved = None /\ AllFields(wanted.zones) /\ hops \in Nat
  BY DEF SettingsInv

LEMMA ConvertStep == SettingsInv /\ Convert => SettingsInv'
  <1>. SUFFICES ASSUME SettingsInv, Convert PROVE SettingsInv'
    OBVIOUS
  <1>. DEFINE ws == LoadConfigSource
  <1>1. doc # Served /\ hops' = hops + 1 /\ UNCHANGED <<wanted, saved>>
        /\ (doc' = Yaml(ws) \/ doc' = DotEnv(EnvLines(ws)))
    BY DEF Convert
  <1>2. /\ TogglesTogether(ws) /\ InBlocks(ws) /\ Storable(ws) /\ ws.zones = wanted.zones
        /\ \A p \in Carried : Meant(ws, p) = wanted.at[p]
    BY <1>1, SourceSays
  <1>3. saved' = None /\ AllFields(wanted'.zones) /\ hops' \in Nat /\ hops' > 0
        /\ AllFields(ws.zones)
    BY <1>1, <1>2, FormsAre
  <1>. HIDE DEF ws
  <1>4. CASE doc' = Yaml(ws)
    <2>1. doc'.tree = ws /\ doc' = Yaml(doc'.tree)
      BY <1>4 DEF Yaml
    <2>2. YamlSays'
      BY <1>1, <1>2, <1>3, <2>1 DEF YamlSays, Compared
    <2>. QED BY <1>3, <2>1, <2>2 DEF SettingsInv
  <1>5. CASE doc' = DotEnv(EnvLines(ws))
    <2>1. doc'.env = EnvLines(ws) /\ doc' = DotEnv(doc'.env)
      BY <1>5 DEF DotEnv
    <2>2. Whole(EnvLines(ws)) = wanted'.zones
      BY <1>1, <1>2, <1>3, EnvLinesZones
    <2>3. \A p \in Carried : Asked(Empty, EnvLines(ws)).at[p] = wanted'.at[p]
      BY <1>1, <1>2, EnvWritten
    <2>4. EnvSays'
      BY <1>3, <2>1, <2>2, <2>3 DEF EnvSays
    <2>. QED BY <1>3, <2>1, <2>4 DEF SettingsInv
  <1>. QED BY <1>1, <1>4, <1>5

LEMMA InitFromConfigFileStep == SettingsInv /\ InitFromConfigFile => SettingsInv'
  <1>. SUFFICES ASSUME SettingsInv, InitFromConfigFile PROVE SettingsInv'
    OBVIOUS
  <1>1. PICK env \in {overlay, NoEnv} :
          /\ Save(OverrideFromEnv(Decode(Resources(Empty), doc.tree), env))
          /\ wanted' = Asked(wanted, env)
    BY DEF InitFromConfigFile
  <1>. DEFINE w == OverrideFromEnv(Decode(Resources(Empty), doc.tree), env)
  <1>2. doc.form = "yaml" /\ saved' = w /\ doc' = Served /\ hops' = hops
    BY <1>1 DEF InitFromConfigFile, Save
  <1>3. YamlSays
    BY <1>2 DEF SettingsInv, DotEnv, Served
  <1>4. /\ w.zones = Asked(doc.tree, env).zones /\ HasResources(w)
        /\ \A p \in Paths : w.at[p] = Asked(doc.tree, env).at[p]
        /\ w.at[Namespace] # None => w.at[Proxy] # None
        /\ w.at[ClusterCreate] # None /\ \A p \in Created : w.at[p] # None
    <2>. HIDE DEF w
    <2>1. /\ w.zones = Asked(doc.tree, env).zones /\ HasResources(w)
          /\ \A p \in Paths : w.at[p] = Asked(doc.tree, env).at[p]
          /\ \A p \in Paths : \/ \E j \in 1..24 : Used(env, j, p) /\ w.at[p] = Value(env, j, p)
                              \/ (\A j \in 1..24 : ~Used(env, j, p)) /\ w.at[p] = Meant(doc.tree, p)
      BY ToldFromFile DEF w
    <2>2. w.at[Namespace] # None => w.at[Proxy] # None
      BY <1>3, <2>1, ProxyOpen DEF YamlSays
    <2>3. w.at[ClusterCreate] # None
      BY <2>1, ClusterDecided
    <2>4. \A p \in Created : w.at[p] # None
      <3>. SUFFICES ASSUME NEW p \in Created PROVE w.at[p] # None
        OBVIOUS
      <3>1. \/ \E j \in 1..24 : Used(env, j, p) /\ w.at[p] = Value(env, j, p)
            \/ w.at[p] = Meant(doc.tree, p)
        BY <2>1, PathsAre
      <3>. QED BY <3>1, TogglesDecided
    <2>. QED BY <2>1, <2>2, <2>3, <2>4
  <1>. HIDE DEF w
  <1>5. w.zones = wanted'.zones
    BY <1>1, <1>3, <1>4, AskedZones DEF YamlSays
  <1>6. ASSUME NEW p \in Compared PROVE w.at[p] = wanted'.at[p]
    <2>1. p \in Paths /\ wanted.at[p] = Meant(doc.tree, p)
      BY <1>3, CarriedIn DEF YamlSays
    <2>2. Meant(wanted, p) = Meant(doc.tree, p)
      BY <2>1, MeantTwice
    <2>3. Asked(doc.tree, env).at[p] = Asked(wanted, env).at[p]
      BY <2>1, <2>2, AskedOfMeant
    <2>. QED BY <1>1, <1>4, <2>1, <2>3
  <1>7. SavedSays'
    BY <1>2, <1>4, <1>5, <1>6 DEF SavedSays, Compared
  <1>. QED BY <1>2, <1>7 DEF SettingsInv

LEMMA InitFromEnvStep == SettingsInv /\ InitFromEnv => SettingsInv'
  <1>. SUFFICES ASSUME SettingsInv, InitFromEnv PROVE SettingsInv'
    OBVIOUS
  <1>. DEFINE w == OverrideFromEnv(Resources(Empty), doc.env)
  <1>1. doc.form = "env" /\ saved' = w /\ doc' = Served /\ hops' = hops /\ wanted' = wanted
    BY DEF InitFromEnv, Save
  <1>2. EnvSays /\ hops \in Nat
    BY <1>1 DEF SettingsInv, Yaml, Served
  <1>3. InBlocks(Empty)
    <2>. SUFFICES ASSUME NEW row \in Rows, Empty.at[row.path] # None
                  PROVE  row.shape # "adopt" /\ row.path[1] # "flp"
      BY DEF InBlocks
    <2>1. PICK i \in 1..24 : row = Overrides[i]
      BY RowsAre
    <2>2. row.path \in Paths
      BY <2>1, RowPaths, PathsAre
    <2>3. row.path = <<"cluster", "create">>
      BY <2>2, EmptyIs
    <2>4. row.path[1] = "cluster"
      BY <2>3
    <2>5. row.shape = "bool"
      BY <2>1, <2>3, RowPaths
    <2>. QED BY <2>4, <2>5
  <1>4. /\ w.zones = Whole(doc.env) /\ HasResources(w)
        /\ \A p \in Paths : w.at[p] = Asked(Empty, doc.env).at[p]
        /\ \A p \in Paths : \/ \E j \in 1..24 : Used(doc.env, j, p) /\ w.at[p] = Value(doc.env, j, p)
                            \/ /\ \A j \in 1..24 : ~Used(doc.env, j, p)
                               /\ w.at[p] = Meant(Empty, p)
    BY ToldFromEnv
  <1>. HIDE DEF w
  <1>5. w.at[Namespace] # None => w.at[Proxy] # None
    BY <1>3, <1>4, ProxyOpen
  <1>8. w.at[ClusterCreate] # None
    BY <1>4, ClusterDecided
  <1>9. ASSUME NEW p \in Created PROVE w.at[p] # None
    <2>1. \/ \E j \in 1..24 : Used(doc.env, j, p) /\ w.at[p] = Value(doc.env, j, p)
          \/ w.at[p] = Meant(Empty, p)
      BY <1>4, PathsAre
    <2>. QED BY <2>1, TogglesDecided
  <1>6. Compared = Carried
    BY <1>2 DEF EnvSays, Compared
  <1>7. SavedSays'
    BY <1>1, <1>2, <1>4, <1>5, <1>6, <1>8, <1>9, CarriedIn DEF SavedSays, EnvSays, Compared
  <1>. QED BY <1>1, <1>2, <1>7 DEF SettingsInv

LEMMA SettingsStutter == SettingsInv /\ UNCHANGED settingsVars => SettingsInv'
  BY DEF SettingsInv, settingsVars, YamlSays, EnvSays, SavedSays, Compared

LEMMA SettingsStep == SettingsInv /\ (SettingsNext \/ UNCHANGED settingsVars) => SettingsInv'
  BY ConvertStep, InitFromConfigFileStep, InitFromEnvStep, SettingsStutter DEF SettingsNext

-----------------------------------------------------------------------------
(* Assignments.                                                            *)

\* What assignments say of a variable, what they leave alone, and what they speak of.
Gives(f, name, v) == name \in DOMAIN f /\ f[name] = v
Silent(f, name)   == name \notin DOMAIN f
Only(f, names)    == \A n : n \notin names => Silent(f, n)

\* What a part says is in the whole if no part before it says otherwise.
LEMMA MergedFirst ==
  ASSUME NEW p, NEW n \in Nat, DOMAIN p = 1..n, NEW x
  PROVE  /\ Silent(Merge(p), x) <=> \A i \in 1..n : Silent(p[i], x)
         /\ \A i \in 1..n : \A v :
              (\A j \in 1..n : j < i => Silent(p[j], x)) /\ Gives(p[i], x, v)
                => Gives(Merge(p), x, v)
  <1>. DEFINE at(y) == {i \in DOMAIN p : y \in DOMAIN p[i]}
              all   == UNION {DOMAIN p[i] : i \in DOMAIN p}
  <1>1. Merge(p) = [y \in all |-> p[Min(at(y))][y]]
    BY DEF Merge
  <1>2. x \in all <=> \E i \in 1..n : x \in DOMAIN p[i]
    OBVIOUS
  <1>3. Silent(Merge(p), x) <=> \A i \in 1..n : Silent(p[i], x)
    <2>. HIDE DEF all, at
    <2>. QED BY <1>1, <1>2 DEF Silent
  <1>4. ASSUME NEW i \in 1..n, NEW v, Gives(p[i], x, v),
               \A j \in 1..n : j < i => Silent(p[j], x)
        PROVE  Gives(Merge(p), x, v)
    <2>1. i \in at(x) /\ at(x) \subseteq 1..n
      BY <1>4 DEF Gives
    <2>2. \A k \in at(x) : i <= k /\ k \in Nat
      BY <1>4 DEF Silent
    <2>. HIDE DEF at, all
    <2>3. Min(at(x)) = i
      <3>1. i \in at(x) /\ \A k \in at(x) : i <= k
        BY <2>1, <2>2
      <3>2. ASSUME NEW k \in at(x), \A y \in at(x) : k <= y PROVE k = i
        BY <2>1, <2>2, <3>2
      <3>. QED BY <3>1, <3>2 DEF Min
    <2>4. x \in all /\ p[i][x] = v
      BY <1>2, <1>4 DEF Gives
    <2>5. x \in DOMAIN Merge(p) /\ Merge(p)[x] = p[Min(at(x))][x]
      BY <1>1, <2>4
    <2>. QED BY <2>3, <2>4, <2>5 DEF Gives
  <1>. QED BY <1>3, <1>4

\* Of two parts, and of three.
LEMMA Merged ==
  ASSUME NEW f, NEW g, NEW name
  PROVE  /\ Silent(Merge(<<f, g>>), name) <=> Silent(f, name) /\ Silent(g, name)
         /\ \A v : Gives(f, name, v) => Gives(Merge(<<f, g>>), name, v)
         /\ \A v : Silent(f, name) /\ Gives(g, name, v) => Gives(Merge(<<f, g>>), name, v)
  <1>. DEFINE p == <<f, g>>
  <1>1. DOMAIN p = 1..2 /\ p[1] = f /\ p[2] = g
    OBVIOUS
  <1>. HIDE DEF p
  <1>2. /\ Silent(Merge(p), name) <=> \A i \in 1..2 : Silent(p[i], name)
        /\ \A i \in 1..2 : \A v :
             (\A j \in 1..2 : j < i => Silent(p[j], name)) /\ Gives(p[i], name, v)
               => Gives(Merge(p), name, v)
    BY <1>1, MergedFirst
  <1>3. ASSUME NEW v, Gives(f, name, v) PROVE Gives(Merge(p), name, v)
    BY <1>1, <1>2, <1>3
  <1>4. ASSUME NEW v, Silent(f, name), Gives(g, name, v) PROVE Gives(Merge(p), name, v)
    BY <1>1, <1>2, <1>4
  <1>. QED BY <1>1, <1>2, <1>3, <1>4 DEF p

LEMMA MergedThree ==
  ASSUME NEW f, NEW g, NEW h, NEW name
  PROVE  LET t == Merge(<<f, g, h>>) IN
         /\ Silent(t, name) <=> Silent(f, name) /\ Silent(g, name) /\ Silent(h, name)
         /\ \A v : Gives(f, name, v) => Gives(t, name, v)
         /\ \A v : Silent(f, name) /\ Gives(g, name, v) => Gives(t, name, v)
         /\ \A v : Silent(f, name) /\ Silent(g, name) /\ Gives(h, name, v) => Gives(t, name, v)
  <1>. DEFINE p == <<f, g, h>>
  <1>1. DOMAIN p = 1..3 /\ p[1] = f /\ p[2] = g /\ p[3] = h
    OBVIOUS
  <1>. HIDE DEF p
  <1>2. /\ Silent(Merge(p), name) <=> \A i \in 1..3 : Silent(p[i], name)
        /\ \A i \in 1..3 : \A v :
             (\A j \in 1..3 : j < i => Silent(p[j], name)) /\ Gives(p[i], name, v)
               => Gives(Merge(p), name, v)
    BY <1>1, MergedFirst
  <1>3. ASSUME NEW v, Gives(f, name, v) PROVE Gives(Merge(p), name, v)
    BY <1>1, <1>2, <1>3
  <1>4. ASSUME NEW v, Silent(f, name), Gives(g, name, v) PROVE Gives(Merge(p), name, v)
    BY <1>1, <1>2, <1>4
  <1>5. ASSUME NEW v, Silent(f, name), Silent(g, name), Gives(h, name, v)
        PROVE  Gives(Merge(p), name, v)
    BY <1>1, <1>2, <1>5
  <1>. QED BY <1>1, <1>2, <1>3, <1>4, <1>5 DEF p

\* One assignment speaks of one variable, none of none.
LEMMA Assigned ==
  ASSUME NEW name, NEW v
  PROVE  Gives(Assign(name, v), name, v) /\ \A n : n # name => Silent(Assign(name, v), n)
  BY DEF Gives, Silent, Assign

LEMMA Emitted ==
  ASSUME NEW name, NEW v
  PROVE  /\ v # None => Gives(Emit(name, v), name, v) /\ Gives(EmitName(name, v), name, <<v>>)
         /\ v = None => \A n : Silent(Emit(name, v), n) /\ Silent(EmitName(name, v), n)
         /\ \A n : n # name => Silent(Emit(name, v), n) /\ Silent(EmitName(name, v), n)
  BY DEF Gives, Silent, Emit, EmitName, Assign

LEMMA Nothing == \A n : Silent(<<>>, n)
  BY DEF Silent

-----------------------------------------------------------------------------
(* What each part of the file says.                                        *)

\* renderClusterFields: a cluster that is made gets its name and its gateway, one that is not
\* is named.
LEMMA ClusterTold ==
  ASSUME NEW ws, NEW plan
  PROVE  LET f == ToldCluster(ws, plan)
             create == Get(ws, "cluster", "create") IN
         /\ create # None => Gives(f, "create_roks_cluster", create)
         /\ create = "true" => Gives(f, "openshift_cluster_name", plan.cluster)
         /\ create = "true" /\ Get(ws, "cluster", "public_gateway") # None =>
              Gives(f, "cluster_public_gateway", Get(ws, "cluster", "public_gateway"))
         /\ create # "true" /\ Get(ws, "cluster", "name") # None =>
              Gives(f, "roks_cluster_id_or_name", <<Get(ws, "cluster", "name")>>)
         /\ Only(f, {"create_roks_cluster", "openshift_cluster_name", "cluster_public_gateway",
                     "roks_cluster_id_or_name"})
  <1>. DEFINE create == Get(ws, "cluster", "create")
              gw   == Get(ws, "cluster", "public_gateway")
              name == Get(ws, "cluster", "name")
              c == Emit("create_roks_cluster", create)
              a == Assign("openshift_cluster_name", plan.cluster)
              s == Emit("cluster_public_gateway", gw)
              o == EmitName("roks_cluster_id_or_name", name)
              f == ToldCluster(ws, plan)
  <1>1. f = IF create = "true" THEN Merge(<<c, Merge(<<a, s>>)>>) ELSE Merge(<<c, o>>)
    BY DEF ToldCluster, ToldSizing, Is
  <1>2. /\ create # None => Gives(c, "create_roks_cluster", create)
        /\ Only(c, {"create_roks_cluster"})
    BY Emitted DEF Only
  <1>3. Gives(a, "openshift_cluster_name", plan.cluster) /\ Only(a, {"openshift_cluster_name"})
    BY Assigned DEF Only
  <1>4. /\ gw # None => Gives(s, "cluster_public_gateway", gw)
        /\ Only(s, {"cluster_public_gateway"})
    BY Emitted DEF Only
  <1>5. /\ name # None => Gives(o, "roks_cluster_id_or_name", <<name>>)
        /\ Only(o, {"roks_cluster_id_or_name"})
    BY Emitted DEF Only
  <1>. HIDE DEF create, gw, name, c, a, s, o, f
  <1>6. create # None => Gives(f, "create_roks_cluster", create)
    BY <1>1, <1>2, Merged
  <1>7. /\ create = "true" => Gives(f, "openshift_cluster_name", plan.cluster)
        /\ create = "true" /\ gw # None => Gives(f, "cluster_public_gateway", gw)
    BY <1>1, <1>2, <1>3, <1>4, Merged DEF Only
  <1>8. create # "true" /\ name # None => Gives(f, "roks_cluster_id_or_name", <<name>>)
    BY <1>1, <1>2, <1>5, Merged DEF Only
  <1>9. Only(f, {"create_roks_cluster", "openshift_cluster_name", "cluster_public_gateway",
                 "roks_cluster_id_or_name"})
    BY <1>1, <1>2, <1>3, <1>4, <1>5, Merged DEF Only
  <1>. QED BY <1>6, <1>7, <1>8, <1>9 DEF create, gw, name, f

\* The VPC is there unless another is adopted, and subnets come along when they are adopted.
LEMMA NetworkTold ==
  ASSUME NEW ws, NEW plan
  PROVE  LET f == ToldNetwork(ws, plan)
             adopts  == Get(ws, "cluster_vpc", "create") = "false"
                        /\ Get(ws, "cluster_vpc", "existing") # None
             subnets == Get(ws, "cluster", "existing_subnet_ids") IN
         /\ Gives(f, "roks_cluster_vpc_name", plan.cluster_vpc)
         /\ adopts => Gives(f, "use_existing_cluster_vpc", "true")
                      /\ Gives(f, "existing_cluster_vpc_id", <<Get(ws, "cluster_vpc", "existing")>>)
         /\ ~adopts => Silent(f, "use_existing_cluster_vpc")
         /\ subnets # None => Gives(f, "use_existing_cluster_subnets", "true")
         /\ Only(f, {"roks_cluster_vpc_name", "use_existing_cluster_vpc", "existing_cluster_vpc_id",
                     "use_existing_cluster_subnets", "existing_cluster_subnet_ids"})
  <1>. DEFINE adopts == Get(ws, "cluster_vpc", "create") = "false"
                        /\ Get(ws, "cluster_vpc", "existing") # None
              their   == <<Get(ws, "cluster_vpc", "existing")>>
              subnets == Get(ws, "cluster", "existing_subnet_ids")
              a  == Assign("roks_cluster_vpc_name", plan.cluster_vpc)
              b1 == Assign("use_existing_cluster_vpc", "true")
              b2 == Assign("existing_cluster_vpc_id", their)
              c1 == Assign("use_existing_cluster_subnets", "true")
              c2 == Assign("existing_cluster_subnet_ids", subnets)
              b  == IF adopts THEN Merge(<<b1, b2>>) ELSE <<>>
              c  == IF subnets # None THEN Merge(<<c1, c2>>) ELSE <<>>
              f  == ToldNetwork(ws, plan)
  <1>1. f = Merge(<<a, b, c>>)
    BY DEF ToldNetwork
  <1>2. Gives(a, "roks_cluster_vpc_name", plan.cluster_vpc) /\ Only(a, {"roks_cluster_vpc_name"})
    BY Assigned DEF Only
  <1>3. /\ Gives(b1, "use_existing_cluster_vpc", "true") /\ Only(b1, {"use_existing_cluster_vpc"})
        /\ Gives(b2, "existing_cluster_vpc_id", their) /\ Only(b2, {"existing_cluster_vpc_id"})
    BY Assigned DEF Only
  <1>4. /\ Gives(c1, "use_existing_cluster_subnets", "true")
        /\ Only(c1, {"use_existing_cluster_subnets"}) /\ Only(c2, {"existing_cluster_subnet_ids"})
    BY Assigned DEF Only
  <1>5. /\ b = IF adopts THEN Merge(<<b1, b2>>) ELSE <<>>
        /\ c = IF subnets # None THEN Merge(<<c1, c2>>) ELSE <<>>
    OBVIOUS
  <1>. HIDE DEF adopts, their, subnets, a, b1, b2, c1, c2, b, c, f
  <1>6. /\ adopts => Gives(b, "use_existing_cluster_vpc", "true")
                     /\ Gives(b, "existing_cluster_vpc_id", their)
        /\ ~adopts => Silent(b, "use_existing_cluster_vpc")
        /\ Only(b, {"use_existing_cluster_vpc", "existing_cluster_vpc_id"})
    <2>1. CASE adopts
      <3>1. b = Merge(<<b1, b2>>)
        BY <1>5, <2>1
      <3>2. Silent(b1, "existing_cluster_vpc_id")
        BY <1>3 DEF Only
      <3>3. Gives(b, "existing_cluster_vpc_id", their)
        BY <1>3, <3>1, <3>2, Merged
      <3>4. Gives(b, "use_existing_cluster_vpc", "true")
        BY <1>3, <3>1, Merged
      <3>. QED BY <1>3, <2>1, <3>1, <3>3, <3>4, Merged DEF Only
    <2>2. CASE ~adopts
      BY <1>5, <2>2, Nothing DEF Only
    <2>. QED BY <2>1, <2>2
  <1>7. /\ subnets # None => Gives(c, "use_existing_cluster_subnets", "true")
        /\ Only(c, {"use_existing_cluster_subnets", "existing_cluster_subnet_ids"})
    BY <1>4, <1>5, Merged, Nothing DEF Only
  <1>8. Gives(f, "roks_cluster_vpc_name", plan.cluster_vpc)
    BY <1>1, <1>2, MergedThree
  <1>9. /\ adopts => Gives(f, "use_existing_cluster_vpc", "true")
                     /\ Gives(f, "existing_cluster_vpc_id", their)
        /\ ~adopts => Silent(f, "use_existing_cluster_vpc")
    BY <1>1, <1>2, <1>6, <1>7, MergedThree DEF Only
  <1>10. subnets # None => Gives(f, "use_existing_cluster_subnets", "true")
    <2>1. Silent(a, "use_existing_cluster_subnets") /\ Silent(b, "use_existing_cluster_subnets")
      BY <1>2, <1>6 DEF Only
    <2>. QED BY <1>1, <1>7, <2>1, MergedThree
  <1>11. Only(f, {"roks_cluster_vpc_name", "use_existing_cluster_vpc", "existing_cluster_vpc_id",
                  "use_existing_cluster_subnets", "existing_cluster_subnet_ids"})
    BY <1>1, <1>2, <1>6, <1>7, MergedThree DEF Only
  <1>. QED BY <1>8, <1>9, <1>10, <1>11 DEF adopts, their, subnets, f

\* A resource gets the name it is made under, or the one it is looked up by.
LEMMA ResourceTold ==
  ASSUME NEW ws, NEW plan, NEW kind, Variables[kind][1] # Variables[kind][2]
  PROVE  LET f == ToldResource(ws, plan, kind)
             create == Get(ws, kind, "create")
             theirs == Get(ws, kind, "existing") IN
         /\ create # None => Gives(f, Variables[kind][1], create)
         /\ create = "true" => Gives(f, Variables[kind][2], NameFor(ws, plan, kind))
         /\ create # "true" /\ theirs # None => Gives(f, Variables[kind][2], <<theirs>>)
         /\ Only(f, {Variables[kind][1], Variables[kind][2]})
  <1>. DEFINE create == Get(ws, kind, "create")
              theirs == Get(ws, kind, "existing")
              v == Variables[kind][1]
              n == Variables[kind][2]
              c == Emit(v, create)
              a == Assign(n, NameFor(ws, plan, kind))
              o == EmitName(n, theirs)
              f == ToldResource(ws, plan, kind)
  <1>1. f = IF create = "true" THEN Merge(<<c, a>>) ELSE Merge(<<c, o>>)
    BY DEF ToldResource, Is
  <1>2. (create # None => Gives(c, v, create)) /\ Only(c, {v})
    BY Emitted DEF Only
  <1>3. Gives(a, n, NameFor(ws, plan, kind)) /\ Only(a, {n})
    BY Assigned DEF Only
  <1>4. (theirs # None => Gives(o, n, <<theirs>>)) /\ Only(o, {n})
    BY Emitted DEF Only
  <1>5. v # n
    OBVIOUS
  <1>. HIDE DEF create, theirs, v, n, c, a, o, f
  <1>6. create # None => Gives(f, v, create)
    BY <1>1, <1>2, Merged
  <1>7. /\ create = "true" => Gives(f, n, NameFor(ws, plan, kind))
        /\ create # "true" /\ theirs # None => Gives(f, n, <<theirs>>)
    BY <1>1, <1>2, <1>3, <1>4, <1>5, Merged DEF Only
  <1>8. Only(f, {v, n})
    BY <1>1, <1>2, <1>3, <1>4, Merged DEF Only
  <1>. QED BY <1>6, <1>7, <1>8 DEF create, theirs, v, n, f

\* A jumphost gets its toggle and its name.
LEMMA JumphostTold ==
  ASSUME NEW ws, NEW plan
  PROVE  LET f == ToldJumphost(ws, plan)
             create == Get(ws, "tgw_jumphost", "create") IN
         /\ create # None => Gives(f, "testing_create_tgw_jumphost", create)
         /\ Only(f, {"testing_create_tgw_jumphost", "testing_tgw_jumphost_name"})
  <1>. DEFINE create == Get(ws, "tgw_jumphost", "create")
              f == ToldJumphost(ws, plan)
              c == Emit("testing_create_tgw_jumphost", create)
              a == Assign("testing_tgw_jumphost_name", plan.tgw_jumphost)
  <1>1. f = Merge(<<c, a>>) \/ f = Merge(<<c, <<>>>>)
    BY DEF ToldJumphost
  <1>2. /\ create # None => Gives(c, "testing_create_tgw_jumphost", create)
        /\ Only(c, {"testing_create_tgw_jumphost"}) /\ Only(a, {"testing_tgw_jumphost_name"})
    BY Assigned, Emitted DEF Only
  <1>. HIDE DEF create, c, a, f
  <1>3. create # None => Gives(f, "testing_create_tgw_jumphost", create)
    BY <1>1, <1>2, Merged
  <1>4. Only(f, {"testing_create_tgw_jumphost", "testing_tgw_jumphost_name"})
    BY <1>1, <1>2, Merged, Nothing DEF Only
  <1>. QED BY <1>3, <1>4 DEF create, f

\* Each of the settings of the pods is told when it is set.
LEMMA PodsTold ==
  ASSUME NEW ws
  PROVE  /\ Get(ws, "gateway", "backend_port") # None =>
              Gives(ToldGateway(ws), "gateway_backend_port", Get(ws, "gateway", "backend_port"))
         /\ Only(ToldGateway(ws), {"gateway_backend_port"})
         /\ Get(ws, "cos", "bucket") # None =>
              Gives(ToldCOS(ws), "ibmcloud_resources_cos_bucket", Get(ws, "cos", "bucket"))
         /\ Only(ToldCOS(ws), {"ibmcloud_resources_cos_bucket"})
         /\ Get(ws, "bnk", "license_mode") # None =>
              Gives(ToldLicense(ws), "license_mode", Get(ws, "bnk", "license_mode"))
         /\ Only(ToldLicense(ws), {"license_mode"})
         /\ ws.zones # <<>> => Gives(ToldZones(ws), "cneinstance_network_zones", ws.zones)
         /\ Only(ToldZones(ws), {"cneinstance_network_zones"})
  <1>1. /\ Get(ws, "gateway", "backend_port") # None =>
             Gives(ToldGateway(ws), "gateway_backend_port", Get(ws, "gateway", "backend_port"))
        /\ Only(ToldGateway(ws), {"gateway_backend_port"})
    BY Emitted DEF ToldGateway, Only
  <1>2. /\ Get(ws, "cos", "bucket") # None =>
             Gives(ToldCOS(ws), "ibmcloud_resources_cos_bucket", Get(ws, "cos", "bucket"))
        /\ Only(ToldCOS(ws), {"ibmcloud_resources_cos_bucket"})
    BY Emitted DEF ToldCOS, Only
  <1>3. /\ Get(ws, "bnk", "license_mode") # None =>
             Gives(ToldLicense(ws), "license_mode", Get(ws, "bnk", "license_mode"))
        /\ Only(ToldLicense(ws), {"license_mode"})
    BY Emitted DEF ToldLicense, Only
  <1>4. /\ ws.zones # <<>> => Gives(ToldZones(ws), "cneinstance_network_zones", ws.zones)
        /\ Only(ToldZones(ws), {"cneinstance_network_zones"})
    BY Assigned, Nothing DEF ToldZones, Only
  <1>. QED BY <1>1, <1>2, <1>3, <1>4

\* The proxy is told of in its block, and gets a VPC only when one is asked for.
LEMMA ProxyTold ==
  ASSUME NEW ws
  PROVE  LET f == ToldProxy(ws) IN
         /\ Get(ws, "bnk", "flp") # None /\ Get(ws, "flp", "namespace") # None =>
              Gives(f, "flp_namespace", Get(ws, "flp", "namespace"))
         /\ ~Is(ws, "flp", "vsi_create_vpc") => Silent(f, "flp_vsi_create_vpc")
         /\ Only(f, {"flp_namespace", "flp_vsi_create_vpc"})
  <1>. DEFINE n == Get(ws, "flp", "namespace")
              is == Is(ws, "flp", "vsi_create_vpc")
              e == Emit("flp_namespace", n)
              a == Assign("flp_vsi_create_vpc", "true")
              f == ToldProxy(ws)
  <1>1. f = IF Get(ws, "bnk", "flp") = None THEN <<>>
            ELSE Merge(<<e, IF is THEN a ELSE <<>>>>)
    BY DEF ToldProxy
  <1>2. (n # None => Gives(e, "flp_namespace", n)) /\ Only(e, {"flp_namespace"})
    BY Emitted DEF Only
  <1>3. Only(a, {"flp_vsi_create_vpc"})
    BY Assigned DEF Only
  <1>. HIDE DEF n, is, e, a, f
  <1>4. Get(ws, "bnk", "flp") # None /\ n # None => Gives(f, "flp_namespace", n)
    BY <1>1, <1>2, Merged
  <1>5. /\ ~is => Silent(f, "flp_vsi_create_vpc")
        /\ Only(f, {"flp_namespace", "flp_vsi_create_vpc"})
    BY <1>1, <1>2, <1>3, Merged, Nothing DEF Only
  <1>. QED BY <1>4, <1>5 DEF n, is, f

-----------------------------------------------------------------------------
(* The whole file: every variable is said by one part of it.               *)

\* The variables that each part speaks of.
Named == <<
  {"create_roks_cluster", "openshift_cluster_name", "cluster_public_gateway",
   "roks_cluster_id_or_name"},
  {"roks_cluster_vpc_name", "use_existing_cluster_vpc", "existing_cluster_vpc_id",
   "use_existing_cluster_subnets", "existing_cluster_subnet_ids"},
  {"create_roks_registry_cos_instance", "roks_cos_instance_name"},
  {"create_roks_transit_gateway", "roks_transit_gateway_name"},
  {"testing_create_client_vpc", "testing_client_vpc_name"},
  {"testing_create_tgw_jumphost", "testing_tgw_jumphost_name"},
  {"ibmcloud_resources_cos_bucket"}, {"license_mode"},
  {"flp_namespace", "flp_vsi_create_vpc"}, {"cneinstance_network_zones"},
  {"gateway_backend_port"} >>

\* No part speaks of another's.
LEMMA PartsAre ==
  ASSUME NEW ws, NEW plan, NEW i \in 1..11
  PROVE  Only(Parts(ws, plan)[i], Named[i])
  <1>. DEFINE p == Parts(ws, plan)
  <1>1. /\ p[1] = ToldCluster(ws, plan) /\ p[2] = ToldNetwork(ws, plan)
        /\ p[3] = ToldResource(ws, plan, "registry_cos")
        /\ p[4] = ToldResource(ws, plan, "transit_gateway")
        /\ p[5] = ToldResource(ws, plan, "client_vpc")
        /\ p[6] = ToldJumphost(ws, plan) /\ p[7] = ToldCOS(ws) /\ p[8] = ToldLicense(ws)
        /\ p[9] = ToldProxy(ws) /\ p[10] = ToldZones(ws) /\ p[11] = ToldGateway(ws)
    BY DEF Parts
  <1>. HIDE DEF p
  <1>2. Only(p[1], Named[1])
    BY <1>1, ClusterTold DEF Named
  <1>3. Only(p[2], Named[2])
    BY <1>1, NetworkTold DEF Named
  <1>4. Only(p[3], Named[3])
    <2>1. Variables["registry_cos"][1] = "create_roks_registry_cos_instance"
          /\ Variables["registry_cos"][2] = "roks_cos_instance_name"
      BY DEF Variables
    <2>2. Variables["registry_cos"][1] # Variables["registry_cos"][2]
      BY <2>1
    <2>3. Only(p[3], {Variables["registry_cos"][1], Variables["registry_cos"][2]})
      BY <1>1, <2>2, ResourceTold
    <2>. QED BY <2>1, <2>3 DEF Named
  <1>5. Only(p[4], Named[4])
    <2>1. Variables["transit_gateway"][1] = "create_roks_transit_gateway"
          /\ Variables["transit_gateway"][2] = "roks_transit_gateway_name"
      BY DEF Variables
    <2>2. Variables["transit_gateway"][1] # Variables["transit_gateway"][2]
      BY <2>1
    <2>3. Only(p[4], {Variables["transit_gateway"][1], Variables["transit_gateway"][2]})
      BY <1>1, <2>2, ResourceTold
    <2>. QED BY <2>1, <2>3 DEF Named
  <1>6. Only(p[5], Named[5])
    <2>1. Variables["client_vpc"][1] = "testing_create_client_vpc"
          /\ Variables["client_vpc"][2] = "testing_client_vpc_name"
      BY DEF Variables
    <2>2. Variables["client_vpc"][1] # Variables["client_vpc"][2]
      BY <2>1
    <2>3. Only(p[5], {Variables["client_vpc"][1], Variables["client_vpc"][2]})
      BY <1>1, <2>2, ResourceTold
    <2>. QED BY <2>1, <2>3 DEF Named
  <1>7. Only(p[6], Named[6])
    BY <1>1, JumphostTold DEF Named
  <1>8. Only(p[7], Named[7]) /\ Only(p[8], Named[8]) /\ Only(p[10], Named[10])
        /\ Only(p[11], Named[11])
    BY <1>1, PodsTold DEF Named
  <1>9. Only(p[9], Named[9])
    BY <1>1, ProxyTold DEF Named
  <1>. QED BY <1>2, <1>3, <1>4, <1>5, <1>6, <1>7, <1>8, <1>9 DEF p

\* So the whole file says of a variable what its part does.
LEMMA FileTold ==
  ASSUME NEW ws, HasResources(ws), NEW i \in 1..11, NEW name \in Named[i]
  PROVE  LET f == Parts(ws, Derive(Get(ws, "top", "prefix")))[i] IN
         /\ \A x : Gives(f, name, x) => Gives(RenderTFVars(ws), name, x)
         /\ Silent(f, name) => Silent(RenderTFVars(ws), name)
  <1>. DEFINE p == Parts(ws, Derive(Get(ws, "top", "prefix")))
  <1>1. RenderTFVars(ws) = Merge(p)
    BY DEF RenderTFVars, Resources
  <1>2. DOMAIN p = 1..11
    BY DEF Parts
  <1>3. \A j \in 1..11 : Only(p[j], Named[j])
    BY PartsAre
  <1>4. \A j \in 1..11 : j # i => name \notin Named[j]
    BY DEF Named
  <1>. HIDE DEF p
  <1>5. \A j \in 1..11 : j # i => Silent(p[j], name)
    BY <1>3, <1>4 DEF Only
  <1>6. \A j \in 1..11 : j < i => Silent(p[j], name)
    BY <1>5
  <1>7. /\ Silent(Merge(p), name) <=> \A j \in 1..11 : Silent(p[j], name)
        /\ \A x : Gives(p[i], name, x) => Gives(Merge(p), name, x)
    BY <1>2, <1>6, MergedFirst
  <1>. QED BY <1>1, <1>5, <1>7 DEF p

\* And nothing of a variable that no part speaks of.
LEMMA Unsaid ==
  ASSUME NEW ws, HasResources(ws), NEW name, \A i \in 1..11 : name \notin Named[i]
  PROVE  Silent(RenderTFVars(ws), name)
  <1>. DEFINE p == Parts(ws, Derive(Get(ws, "top", "prefix")))
  <1>1. RenderTFVars(ws) = Merge(p)
    BY DEF RenderTFVars, Resources
  <1>2. DOMAIN p = 1..11
    BY DEF Parts
  <1>3. \A j \in 1..11 : Only(p[j], Named[j])
    BY PartsAre
  <1>. HIDE DEF p
  <1>4. \A j \in 1..11 : Silent(p[j], name)
    BY <1>3 DEF Only
  <1>5. Silent(Merge(p), name) <=> \A j \in 1..11 : Silent(p[j], name)
    <2>1. 1 \in 1..11 /\ \A j \in 1..11 : j < 1 => Silent(p[j], name)
      BY <1>4
    <2>. QED BY <1>2, <2>1, MergedFirst
  <1>. QED BY <1>1, <1>4, <1>5

\* The variables of the resources.
LEMMA ResourceVariables ==
  /\ Variables["registry_cos"][1] = "create_roks_registry_cos_instance"
  /\ Variables["registry_cos"][2] = "roks_cos_instance_name"
  /\ Variables["transit_gateway"][1] = "create_roks_transit_gateway"
  /\ Variables["transit_gateway"][2] = "roks_transit_gateway_name"
  /\ Variables["client_vpc"][1] = "testing_create_client_vpc"
  /\ Variables["client_vpc"][2] = "testing_client_vpc_name"
  /\ DOMAIN Variables = {"registry_cos", "transit_gateway", "client_vpc"}
  BY DEF Variables

-----------------------------------------------------------------------------
(* What terraform makes of it.                                             *)

\* Terraform takes a variable that is told, and the default of one that is not.
LEMMA WithDefault ==
  ASSUME NEW told, NEW name
  PROVE  /\ \A x : Gives(told, name, x) => Planned(told)[name] = x
         /\ name \in DOMAIN RootDefaults /\ Silent(told, name)
              => Planned(told)[name] = RootDefaults[name]
  <1>1. name \in DOMAIN RootDefaults => Gives(RootDefaults, name, RootDefaults[name])
    BY DEF Gives
  <1>2. \A x : Gives(Planned(told), name, x) => Planned(told)[name] = x
    BY DEF Gives
  <1>. QED BY <1>1, <1>2, Merged DEF Planned

\* What a plan makes, and what it looks up, kind by kind.
LEMMA MakesAre ==
  ASSUME NEW told
  PROVE  LET v == Planned(told) IN
         /\ Makes(told)["cluster"] =
              IF v["create_roks_cluster"] = "true" THEN v["openshift_cluster_name"] ELSE None
         /\ Makes(told)["cluster_vpc"] =
              IF v["use_existing_cluster_vpc"] = "true" \/ v["cluster_absent"] = "true" THEN None
              ELSE v["roks_cluster_vpc_name"]
         /\ \A kind \in DOMAIN Variables : Makes(told)[kind] =
              IF v[Variables[kind][1]] = "true" /\ MadeFor(v, kind) THEN v[Variables[kind][2]] ELSE None
  <1>. DEFINE v == Planned(told)
  <1>1. "cluster" \notin DOMAIN Variables /\ "cluster_vpc" \notin DOMAIN Variables
    BY ResourceVariables
  <1>. DEFINE two  == [cluster |-> IF v.create_roks_cluster = "true" THEN v.openshift_cluster_name ELSE None,
           cluster_vpc |-> IF v.use_existing_cluster_vpc = "true" \/ v.cluster_absent = "true" THEN None ELSE v.roks_cluster_vpc_name]
              rest == [kind \in DOMAIN Variables |-> IF v[Variables[kind][1]] = "true" /\ MadeFor(v, kind) THEN v[Variables[kind][2]] ELSE None]
  <1>2. Makes(told) = Merge(<<two, rest>>)
    BY DEF Makes
  <1>3. /\ DOMAIN two = {"cluster", "cluster_vpc"}
        /\ two["cluster"] = IF v.create_roks_cluster = "true" THEN v.openshift_cluster_name ELSE None
        /\ two["cluster_vpc"] = IF v.use_existing_cluster_vpc = "true" \/ v.cluster_absent = "true" THEN None ELSE v.roks_cluster_vpc_name
    OBVIOUS
  <1>4. /\ DOMAIN rest = DOMAIN Variables
        /\ \A kind \in DOMAIN Variables : rest[kind] = IF v[Variables[kind][1]] = "true" /\ MadeFor(v, kind) THEN v[Variables[kind][2]] ELSE None
    OBVIOUS
  <1>5. \A kind \in DOMAIN Variables : kind \notin DOMAIN two
    BY <1>1, <1>3
  <1>. HIDE DEF two, rest, v
  <1>6. \A kind \in DOMAIN Variables : Merge(<<two, rest>>)[kind] = rest[kind]
    <2>. SUFFICES ASSUME NEW kind \in DOMAIN Variables PROVE Merge(<<two, rest>>)[kind] = rest[kind]
      OBVIOUS
    <2>1. Silent(two, kind) /\ Gives(rest, kind, rest[kind])
      BY <1>4, <1>5 DEF Silent, Gives
    <2>2. Gives(Merge(<<two, rest>>), kind, rest[kind])
      BY <2>1, Merged
    <2>. QED BY <2>2 DEF Gives
  <1>7. Merge(<<two, rest>>)["cluster"] = two["cluster"] /\ Merge(<<two, rest>>)["cluster_vpc"] = two["cluster_vpc"]
    <2>1. Gives(two, "cluster", two["cluster"]) /\ Gives(two, "cluster_vpc", two["cluster_vpc"])
      BY <1>3 DEF Gives
    <2>2. /\ Gives(Merge(<<two, rest>>), "cluster", two["cluster"])
          /\ Gives(Merge(<<two, rest>>), "cluster_vpc", two["cluster_vpc"])
      BY <2>1, Merged
    <2>. QED BY <2>2 DEF Gives
  <1>. QED BY <1>2, <1>3, <1>4, <1>6, <1>7 DEF v

LEMMA LooksUpAre ==
  ASSUME NEW told
  PROVE  LET v == Planned(told) IN
         /\ LooksUp(told)["cluster"] =
              IF v["create_roks_cluster"] = "true" \/ v["cluster_absent"] = "true" THEN None
              ELSE v["roks_cluster_id_or_name"]
         /\ LooksUp(told)["cluster_vpc"] =
              IF v["use_existing_cluster_vpc"] = "true" THEN v["existing_cluster_vpc_id"] ELSE None
         /\ \A kind \in DOMAIN Variables : LooksUp(told)[kind] =
              IF v[Variables[kind][1]] # "true" /\ LookedUpFor(v, kind) THEN v[Variables[kind][2]] ELSE None
  <1>. DEFINE v == Planned(told)
  <1>1. "cluster" \notin DOMAIN Variables /\ "cluster_vpc" \notin DOMAIN Variables
    BY ResourceVariables
  <1>. DEFINE two  == [cluster |-> IF v.create_roks_cluster = "true" \/ v.cluster_absent = "true" THEN None ELSE v.roks_cluster_id_or_name,
           cluster_vpc |-> IF v.use_existing_cluster_vpc = "true" THEN v.existing_cluster_vpc_id ELSE None]
              rest == [kind \in DOMAIN Variables |-> IF v[Variables[kind][1]] # "true" /\ LookedUpFor(v, kind) THEN v[Variables[kind][2]] ELSE None]
  <1>2. LooksUp(told) = Merge(<<two, rest>>)
    BY DEF LooksUp
  <1>3. /\ DOMAIN two = {"cluster", "cluster_vpc"}
        /\ two["cluster"] = IF v.create_roks_cluster = "true" \/ v.cluster_absent = "true" THEN None ELSE v.roks_cluster_id_or_name
        /\ two["cluster_vpc"] = IF v.use_existing_cluster_vpc = "true" THEN v.existing_cluster_vpc_id ELSE None
    OBVIOUS
  <1>4. /\ DOMAIN rest = DOMAIN Variables
        /\ \A kind \in DOMAIN Variables : rest[kind] = IF v[Variables[kind][1]] # "true" /\ LookedUpFor(v, kind) THEN v[Variables[kind][2]] ELSE None
    OBVIOUS
  <1>5. \A kind \in DOMAIN Variables : kind \notin DOMAIN two
    BY <1>1, <1>3
  <1>. HIDE DEF two, rest, v
  <1>6. \A kind \in DOMAIN Variables : Merge(<<two, rest>>)[kind] = rest[kind]
    <2>. SUFFICES ASSUME NEW kind \in DOMAIN Variables PROVE Merge(<<two, rest>>)[kind] = rest[kind]
      OBVIOUS
    <2>1. Silent(two, kind) /\ Gives(rest, kind, rest[kind])
      BY <1>4, <1>5 DEF Silent, Gives
    <2>2. Gives(Merge(<<two, rest>>), kind, rest[kind])
      BY <2>1, Merged
    <2>. QED BY <2>2 DEF Gives
  <1>7. Merge(<<two, rest>>)["cluster"] = two["cluster"] /\ Merge(<<two, rest>>)["cluster_vpc"] = two["cluster_vpc"]
    <2>1. Gives(two, "cluster", two["cluster"]) /\ Gives(two, "cluster_vpc", two["cluster_vpc"])
      BY <1>3 DEF Gives
    <2>2. /\ Gives(Merge(<<two, rest>>), "cluster", two["cluster"])
          /\ Gives(Merge(<<two, rest>>), "cluster_vpc", two["cluster_vpc"])
      BY <2>1, Merged
    <2>. QED BY <2>2 DEF Gives
  <1>. QED BY <1>2, <1>3, <1>4, <1>6, <1>7 DEF v

-----------------------------------------------------------------------------
(* Kind by kind.                                                           *)

\* There is a cluster, made or not, and it and the jumphost have the toggles that are told.
LEMMA TogglesPlanned ==
  ASSUME NEW ws, HasResources(ws)
  PROVE  LET v == Planned(RenderTFVars(ws)) IN
         /\ v["cluster_absent"] = "false"
         /\ Get(ws, "cluster", "create") # None
              => v["create_roks_cluster"] = Get(ws, "cluster", "create")
         /\ Get(ws, "tgw_jumphost", "create") # None
              => v["testing_create_tgw_jumphost"] = Get(ws, "tgw_jumphost", "create")
  <1>. DEFINE told == RenderTFVars(ws)
              plan == Derive(Get(ws, "top", "prefix"))
              c == Get(ws, "cluster", "create")
              j == Get(ws, "tgw_jumphost", "create")
  <1>1. /\ "cluster_absent" \in DOMAIN RootDefaults /\ RootDefaults["cluster_absent"] = "false"
        /\ \A i \in 1..11 : "cluster_absent" \notin Named[i]
    BY DEF RootDefaults, Named
  <1>2. Silent(told, "cluster_absent")
    BY <1>1, Unsaid
  <1>3. Parts(ws, plan)[1] = ToldCluster(ws, plan) /\ Parts(ws, plan)[6] = ToldJumphost(ws, plan)
    BY DEF Parts
  <1>4. "create_roks_cluster" \in Named[1] /\ "testing_create_tgw_jumphost" \in Named[6]
    BY DEF Named
  <1>5. /\ c # None => Gives(ToldCluster(ws, plan), "create_roks_cluster", c)
        /\ j # None => Gives(ToldJumphost(ws, plan), "testing_create_tgw_jumphost", j)
    BY ClusterTold, JumphostTold
  <1>6. c # None => Gives(told, "create_roks_cluster", c)
    BY <1>3, <1>4, <1>5, FileTold
  <1>7. j # None => Gives(told, "testing_create_tgw_jumphost", j)
    BY <1>3, <1>4, <1>5, FileTold
  <1>. HIDE DEF told, c, j
  <1>8. /\ Planned(told)["cluster_absent"] = "false"
        /\ c # None => Planned(told)["create_roks_cluster"] = c
        /\ j # None => Planned(told)["testing_create_tgw_jumphost"] = j
    BY <1>1, <1>2, <1>6, <1>7, WithDefault
  <1>. QED BY <1>8 DEF told, c, j

\* A cluster that is to be made is made under its name, one that is not is looked up.
LEMMA ClusterPlanned ==
  ASSUME NEW ws, HasResources(ws), Get(ws, "cluster", "create") # None
  PROVE  LET told == RenderTFVars(ws)
             plan == Derive(Get(ws, "top", "prefix"))
             create == Get(ws, "cluster", "create")
             theirs == Get(ws, "cluster", "name") IN
         /\ create = "true" => Makes(told)["cluster"] = plan["cluster"]
         /\ create # "true" => Makes(told)["cluster"] = None
         /\ create # "true" /\ theirs # None => LooksUp(told)["cluster"] = <<theirs>>
         /\ create = "true" /\ Get(ws, "cluster", "public_gateway") # None =>
              Planned(told).cluster_public_gateway = Get(ws, "cluster", "public_gateway")
  <1>. DEFINE told == RenderTFVars(ws)
              plan == Derive(Get(ws, "top", "prefix"))
              create == Get(ws, "cluster", "create")
              theirs == Get(ws, "cluster", "name")
              gw == Get(ws, "cluster", "public_gateway")
              f == ToldCluster(ws, plan)
              v == Planned(told)
  <1>1. /\ create # None => Gives(f, "create_roks_cluster", create)
        /\ create = "true" => Gives(f, "openshift_cluster_name", plan.cluster)
        /\ create = "true" /\ gw # None => Gives(f, "cluster_public_gateway", gw)
        /\ create # "true" /\ theirs # None => Gives(f, "roks_cluster_id_or_name", <<theirs>>)
    BY ClusterTold
  <1>2. Parts(ws, plan)[1] = f
    BY DEF Parts
  <1>3. ASSUME NEW name \in Named[1], NEW x, Gives(f, name, x) PROVE v[name] = x
    <2>1. Gives(told, name, x)
      BY <1>2, <1>3, FileTold
    <2>. HIDE DEF told
    <2>. QED BY <2>1, WithDefault
  <1>4. /\ "create_roks_cluster" \in Named[1] /\ "openshift_cluster_name" \in Named[1]
        /\ "cluster_public_gateway" \in Named[1] /\ "roks_cluster_id_or_name" \in Named[1]
    BY DEF Named
  <1>5. /\ Makes(told)["cluster"] =
             IF v["create_roks_cluster"] = "true" THEN v["openshift_cluster_name"] ELSE None
        /\ LooksUp(told)["cluster"] =
             IF v["create_roks_cluster"] = "true" THEN None ELSE v["roks_cluster_id_or_name"]
    BY MakesAre, LooksUpAre, TogglesPlanned
  <1>6. create # None
    OBVIOUS
  <1>. HIDE DEF told, plan, create, theirs, gw, f, v
  <1>7. v["create_roks_cluster"] = create
    BY <1>1, <1>3, <1>4, <1>6
  <1>8. /\ create = "true" => v["openshift_cluster_name"] = plan["cluster"]
        /\ create = "true" /\ gw # None => v["cluster_public_gateway"] = gw
        /\ create # "true" /\ theirs # None => v["roks_cluster_id_or_name"] = <<theirs>>
    BY <1>1, <1>3, <1>4
  <1>9. /\ create = "true" => Makes(told)["cluster"] = plan["cluster"]
        /\ create # "true" => Makes(told)["cluster"] = None
        /\ create # "true" /\ theirs # None => LooksUp(told)["cluster"] = <<theirs>>
        /\ create = "true" /\ gw # None => v["cluster_public_gateway"] = gw
    BY <1>5, <1>7, <1>8
  <1>. QED BY <1>9 DEF told, plan, create, theirs, gw, v

\* The VPC is made unless another is adopted, and that one is looked up.
LEMMA NetworkPlanned ==
  ASSUME NEW ws, HasResources(ws)
  PROVE  LET told == RenderTFVars(ws)
             plan == Derive(Get(ws, "top", "prefix"))
             theirs == Get(ws, "cluster_vpc", "existing")
             adopts == Get(ws, "cluster_vpc", "create") = "false" /\ theirs # None IN
         /\ ~adopts => Makes(told)["cluster_vpc"] = plan["cluster_vpc"]
         /\ adopts => Makes(told)["cluster_vpc"] = None /\ LooksUp(told)["cluster_vpc"] = <<theirs>>
         /\ Get(ws, "cluster", "existing_subnet_ids") # None =>
              Planned(told).use_existing_cluster_subnets = "true"
  <1>. DEFINE told == RenderTFVars(ws)
              plan == Derive(Get(ws, "top", "prefix"))
              theirs == Get(ws, "cluster_vpc", "existing")
              adopts == Get(ws, "cluster_vpc", "create") = "false" /\ theirs # None
              subnets == Get(ws, "cluster", "existing_subnet_ids")
              f == ToldNetwork(ws, plan)
              v == Planned(told)
  <1>1. /\ Gives(f, "roks_cluster_vpc_name", plan.cluster_vpc)
        /\ adopts => Gives(f, "use_existing_cluster_vpc", "true")
                     /\ Gives(f, "existing_cluster_vpc_id", <<theirs>>)
        /\ ~adopts => Silent(f, "use_existing_cluster_vpc")
        /\ subnets # None => Gives(f, "use_existing_cluster_subnets", "true")
    BY NetworkTold
  <1>2. Parts(ws, plan)[2] = f
    BY DEF Parts
  <1>3. ASSUME NEW name \in Named[2], NEW x, Gives(f, name, x) PROVE v[name] = x
    <2>1. Gives(told, name, x)
      BY <1>2, <1>3, FileTold
    <2>. HIDE DEF told
    <2>. QED BY <2>1, WithDefault
  <1>4. /\ "roks_cluster_vpc_name" \in Named[2] /\ "use_existing_cluster_vpc" \in Named[2]
        /\ "existing_cluster_vpc_id" \in Named[2] /\ "use_existing_cluster_subnets" \in Named[2]
    BY DEF Named
  <1>5. Silent(f, "use_existing_cluster_vpc") => v["use_existing_cluster_vpc"] = "false"
    <2>1. /\ RootDefaults["use_existing_cluster_vpc"] = "false"
          /\ "use_existing_cluster_vpc" \in DOMAIN RootDefaults
      BY DEF RootDefaults
    <2>2. Silent(f, "use_existing_cluster_vpc") => Silent(told, "use_existing_cluster_vpc")
      BY <1>2, <1>4, FileTold
    <2>. QED BY <2>1, <2>2, WithDefault
  <1>6. /\ Makes(told)["cluster_vpc"] =
             IF v["use_existing_cluster_vpc"] = "true" THEN None ELSE v["roks_cluster_vpc_name"]
        /\ LooksUp(told)["cluster_vpc"] =
             IF v["use_existing_cluster_vpc"] = "true" THEN v["existing_cluster_vpc_id"] ELSE None
    BY MakesAre, LooksUpAre, TogglesPlanned
  <1>. HIDE DEF told, plan, theirs, adopts, subnets, f, v
  <1>7. /\ v["roks_cluster_vpc_name"] = plan["cluster_vpc"]
        /\ adopts => v["use_existing_cluster_vpc"] = "true"
                     /\ v["existing_cluster_vpc_id"] = <<theirs>>
        /\ subnets # None => v["use_existing_cluster_subnets"] = "true"
    BY <1>1, <1>3, <1>4
  <1>8. /\ ~adopts => Makes(told)["cluster_vpc"] = plan["cluster_vpc"]
        /\ adopts => Makes(told)["cluster_vpc"] = None /\ LooksUp(told)["cluster_vpc"] = <<theirs>>
        /\ subnets # None => v["use_existing_cluster_subnets"] = "true"
    BY <1>1, <1>5, <1>6, <1>7
  <1>. QED BY <1>8 DEF told, plan, theirs, adopts, subnets, v

\* A resource is made under its name, or looked up under theirs, if what it is for is made.
LEMMA ResourcePlanned ==
  ASSUME NEW ws, HasResources(ws), NEW kind \in DOMAIN Variables,
         Get(ws, kind, "create") # None
  PROVE  LET told == RenderTFVars(ws)
             plan == Derive(Get(ws, "top", "prefix"))
             create == Get(ws, kind, "create")
             theirs == Get(ws, kind, "existing")
             v      == Planned(told) IN
         /\ create = "true" /\ MadeFor(v, kind) => Makes(told)[kind] = NameFor(ws, plan, kind)
         /\ create # "true" \/ ~MadeFor(v, kind) => Makes(told)[kind] = None
         /\ create # "true" /\ theirs # None /\ LookedUpFor(v, kind)
              => LooksUp(told)[kind] = <<theirs>>
  <1>. DEFINE told == RenderTFVars(ws)
              plan == Derive(Get(ws, "top", "prefix"))
              create == Get(ws, kind, "create")
              theirs == Get(ws, kind, "existing")
              a == Variables[kind][1]
              b == Variables[kind][2]
              f == ToldResource(ws, plan, kind)
              v == Planned(told)
              name == NameFor(ws, plan, kind)
              made == MadeFor(v, kind)
              used == LookedUpFor(v, kind)
  <1>1. a # b
    BY ResourceVariables
  <1>2. /\ create # None => Gives(f, a, create)
        /\ create = "true" => Gives(f, b, name)
        /\ create # "true" /\ theirs # None => Gives(f, b, <<theirs>>)
    BY <1>1, ResourceTold
  <1>3. PICK i \in {3, 4, 5} : Parts(ws, plan)[i] = f /\ a \in Named[i] /\ b \in Named[i]
    <2>1. CASE kind = "registry_cos"
      <3>1. Parts(ws, plan)[3] = f
        BY <2>1 DEF Parts
      <3>2. a \in Named[3] /\ b \in Named[3]
        BY <2>1, ResourceVariables DEF Named
      <3>. QED BY <3>1, <3>2
    <2>2. CASE kind = "transit_gateway"
      <3>1. Parts(ws, plan)[4] = f
        BY <2>2 DEF Parts
      <3>2. a \in Named[4] /\ b \in Named[4]
        BY <2>2, ResourceVariables DEF Named
      <3>. QED BY <3>1, <3>2
    <2>3. CASE kind = "client_vpc"
      <3>1. Parts(ws, plan)[5] = f
        BY <2>3 DEF Parts
      <3>2. a \in Named[5] /\ b \in Named[5]
        BY <2>3, ResourceVariables DEF Named
      <3>. QED BY <3>1, <3>2
    <2>. QED BY <2>1, <2>2, <2>3, ResourceVariables
  <1>4. ASSUME NEW n \in Named[i], NEW x, Gives(f, n, x) PROVE v[n] = x
    <2>1. i \in 1..11
      OBVIOUS
    <2>2. Gives(told, n, x)
      BY <1>3, <1>4, <2>1, FileTold
    <2>. HIDE DEF told
    <2>. QED BY <2>2, WithDefault
  <1>5. /\ Makes(told)[kind] = IF v[a] = "true" /\ made THEN v[b] ELSE None
        /\ LooksUp(told)[kind] = IF v[a] # "true" /\ used THEN v[b] ELSE None
    BY MakesAre, LooksUpAre
  <1>6. create # None
    OBVIOUS
  <1>. HIDE DEF told, plan, create, theirs, a, b, f, v, name, made, used
  <1>7. /\ v[a] = create
        /\ create = "true" => v[b] = name
        /\ create # "true" /\ theirs # None => v[b] = <<theirs>>
    BY <1>2, <1>3, <1>4, <1>6
  <1>8. /\ create = "true" /\ made => Makes(told)[kind] = name
        /\ create # "true" \/ ~made => Makes(told)[kind] = None
        /\ create # "true" /\ theirs # None /\ used => LooksUp(told)[kind] = <<theirs>>
    BY <1>5, <1>7
  <1>. QED BY <1>8 DEF told, plan, create, theirs, v, name, made, used

\* The settings of the pods arrive.
LEMMA PodsPlanned ==
  ASSUME NEW ws, HasResources(ws)
  PROVE  LET told == RenderTFVars(ws) IN
         /\ Get(ws, "gateway", "backend_port") # None =>
              told["gateway_backend_port"] = Get(ws, "gateway", "backend_port")
         /\ Get(ws, "bnk", "license_mode") # None =>
              told["license_mode"] = Get(ws, "bnk", "license_mode")
         /\ Get(ws, "cos", "bucket") # None =>
              told["ibmcloud_resources_cos_bucket"] = Get(ws, "cos", "bucket")
         /\ Get(ws, "flp", "namespace") # None /\ Get(ws, "bnk", "flp") # None =>
              told["flp_namespace"] = Get(ws, "flp", "namespace")
         /\ ws.zones # <<>> => told["cneinstance_network_zones"] = ws.zones
         /\ ~Is(ws, "flp", "vsi_create_vpc") =>
              Planned(told).flp_vsi_create_vpc = "false"
  <1>. DEFINE told == RenderTFVars(ws)
              p == Parts(ws, Derive(Get(ws, "top", "prefix")))
  <1>1. /\ p[7] = ToldCOS(ws) /\ p[8] = ToldLicense(ws) /\ p[9] = ToldProxy(ws)
        /\ p[10] = ToldZones(ws) /\ p[11] = ToldGateway(ws)
    BY DEF Parts
  <1>2. ASSUME NEW i \in 1..11, NEW name \in Named[i]
        PROVE  /\ \A x : Gives(p[i], name, x) => told[name] = x
               /\ Silent(p[i], name) => Silent(told, name)
    BY FileTold DEF Gives
  <1>3. /\ "ibmcloud_resources_cos_bucket" \in Named[7] /\ "license_mode" \in Named[8]
        /\ "flp_namespace" \in Named[9] /\ "flp_vsi_create_vpc" \in Named[9]
        /\ "cneinstance_network_zones" \in Named[10] /\ "gateway_backend_port" \in Named[11]
    BY DEF Named
  <1>. HIDE DEF p, told
  <1>4. Get(ws, "gateway", "backend_port") # None =>
          told["gateway_backend_port"] = Get(ws, "gateway", "backend_port")
    BY <1>1, <1>2, <1>3, PodsTold
  <1>5. Get(ws, "bnk", "license_mode") # None =>
          told["license_mode"] = Get(ws, "bnk", "license_mode")
    BY <1>1, <1>2, <1>3, PodsTold
  <1>6. Get(ws, "cos", "bucket") # None =>
          told["ibmcloud_resources_cos_bucket"] = Get(ws, "cos", "bucket")
    BY <1>1, <1>2, <1>3, PodsTold
  <1>7. Get(ws, "flp", "namespace") # None /\ Get(ws, "bnk", "flp") # None =>
          told["flp_namespace"] = Get(ws, "flp", "namespace")
    BY <1>1, <1>2, <1>3, ProxyTold
  <1>8. ws.zones # <<>> => told["cneinstance_network_zones"] = ws.zones
    BY <1>1, <1>2, <1>3, PodsTold
  <1>9. ~Is(ws, "flp", "vsi_create_vpc") => Planned(told).flp_vsi_create_vpc = "false"
    <2>1. /\ RootDefaults["flp_vsi_create_vpc"] = "false"
          /\ "flp_vsi_create_vpc" \in DOMAIN RootDefaults
      BY DEF RootDefaults
    <2>2. ~Is(ws, "flp", "vsi_create_vpc") => Silent(told, "flp_vsi_create_vpc")
      BY <1>1, <1>2, <1>3, ProxyTold
    <2>. QED BY <2>1, <2>2, WithDefault
  <1>. QED BY <1>4, <1>5, <1>6, <1>7, <1>8, <1>9 DEF told

-----------------------------------------------------------------------------
(* From what was asked for to the plan.                                    *)

\* The settings that reach terraform.
Rendered == {
  <<"top", "prefix">>, <<"cluster", "name">>, <<"cluster", "create">>,
  <<"cluster", "public_gateway">>, <<"cluster", "existing_subnet_ids">>,
  <<"registry_cos", "create">>, <<"registry_cos", "existing">>,
  <<"transit_gateway", "create">>, <<"transit_gateway", "existing">>,
  <<"cluster_vpc", "create">>, <<"cluster_vpc", "existing">>,
  <<"client_vpc", "create">>, <<"client_vpc", "existing">>, <<"client_vpc", "name">>,
  <<"tgw_jumphost", "create">>,
  <<"bnk", "license_mode">>, <<"gateway", "backend_port">>, <<"cos", "bucket">>,
  <<"flp", "namespace">>, <<"flp", "vsi_vpc">>, <<"flp", "vsi_create_vpc">>}

\* They have variables of their own and are no secrets.
LEMMA RenderedCarried == Rendered \subseteq Carried
  <1>. DEFINE path(i) == Overrides[i].path
  <1>1. \A i \in 1..24 : path(i) \in {r.path : r \in Rows} /\ path(i) \in Paths
    BY RowPaths, PathsAre
  <1>2. /\ path(3) = <<"top", "prefix">> /\ path(4) = <<"cluster", "name">>
        /\ path(6) = <<"cluster", "create">> /\ path(8) = <<"cluster", "public_gateway">>
        /\ path(9) = <<"cluster", "existing_subnet_ids">>
        /\ path(7) = <<"registry_cos", "create">> /\ path(5) = <<"registry_cos", "existing">>
        /\ path(18) = <<"transit_gateway", "create">> /\ path(10) = <<"transit_gateway", "existing">>
        /\ path(17) = <<"cluster_vpc", "create">> /\ path(11) = <<"cluster_vpc", "existing">>
        /\ path(13) = <<"client_vpc", "create">> /\ path(14) = <<"client_vpc", "existing">>
        /\ path(15) = <<"client_vpc", "name">> /\ path(12) = <<"tgw_jumphost", "create">>
    BY DEF Overrides, Row
  <1>3. /\ path(16) = <<"bnk", "license_mode">> /\ path(19) = <<"gateway", "backend_port">>
        /\ path(24) = <<"cos", "bucket">> /\ path(21) = <<"flp", "namespace">>
        /\ path(22) = <<"flp", "vsi_vpc">> /\ path(23) = <<"flp", "vsi_create_vpc">>
    BY DEF Overrides, Row
  <1>. HIDE DEF path
  <1>4. ASSUME NEW p \in Rendered PROVE \E i \in 1..24 : p = path(i)
    BY <1>2, <1>3 DEF Rendered
  <1>5. \A p \in Rendered : p[2] # "api_key_b64"
    BY DEF Rendered
  <1>. QED BY <1>1, <1>4, <1>5 DEF Carried, Secret

\* What the invariant says of a workspace.
LEMMA SavedIs ==
  ASSUME SettingsInv, saved # None
  PROVE  /\ HasResources(saved) /\ saved.zones = wanted.zones
         /\ saved.at[ClusterCreate] # None /\ \A p \in Created : saved.at[p] # None
         /\ saved.at[Namespace] # None => saved.at[Proxy] # None
         /\ \A p \in Rendered : saved.at[p] = wanted.at[p]
  BY RenderedCarried, CarriedIn DEF SettingsInv, SavedSays, Compared

\* The plan makes, adopts and sets what was asked for.
LEMMA ToldIsAsAsked == ASSUME SettingsInv PROVE ToldAsAsked
  <1>. DEFINE told  == RenderTFVars(saved)
              makes == Makes(told)
              looks == LooksUp(told)
              plan  == Derive(wanted.at[<<"top", "prefix">>])
              v     == Planned(told)
              want(kind) == wanted.at[<<kind, "create">>]
              theirs(kind) == wanted.at[Existing(kind)]
              named == wanted.at[<<"client_vpc", "name">>]
              name(kind) == IF kind = "client_vpc" /\ named # None THEN <<named>> ELSE plan[kind]
              home(kind) == /\ kind = "registry_cos" => want("cluster") = "true"
                            /\ kind = "client_vpc"   => want("tgw_jumphost") = "true"
              used(kind) == home(kind) /\ (kind = "transit_gateway" => want("tgw_jumphost") = "true")
              vpc == want("cluster_vpc") = "false" /\ theirs("cluster_vpc") # None
  <1>1. SavedAsAsked
    BY SavedIsAsAsked
  <1>2. ASSUME saved # None, ~Refused(saved)
        PROVE  /\ \A kind \in Made :
                    /\ want(kind) = "true" /\ home(kind) => makes[kind] = name(kind)
                    /\ want(kind) = "false" /\ theirs(kind) # None /\ used(kind) => looks[kind] = <<theirs(kind)>>
                    /\ \/ want(kind) = "false" /\ (kind # "cluster_vpc" \/ theirs(kind) # None)
                       \/ ~home(kind)
                       => makes[kind] = None
               /\ makes["cluster"] # None /\ wanted.at[<<"cluster", "public_gateway">>] = "false"
                    => v.cluster_public_gateway = "false"
               /\ wanted.at[<<"cluster", "existing_subnet_ids">>] # None
                    => looks["cluster_vpc"] = <<theirs("cluster_vpc")>>
                       /\ v.use_existing_cluster_subnets = "true"
               /\ wanted.at[<<"flp", "vsi_vpc">>] # None => v.flp_vsi_create_vpc = "false"
               /\ wanted.zones # <<>> => told["cneinstance_network_zones"] = wanted.zones
               /\ \A row \in {<<"gateway", "backend_port", "gateway_backend_port">>,
                              <<"bnk", "license_mode", "license_mode">>,
                              <<"cos", "bucket", "ibmcloud_resources_cos_bucket">>,
                              <<"flp", "namespace", "flp_namespace">>} :
                    wanted.at[<<row[1], row[2]>>] # None
                      => told[row[3]] = wanted.at[<<row[1], row[2]>>]
    <2>1. /\ HasResources(saved) /\ saved.zones = wanted.zones
          /\ saved.at[ClusterCreate] # None /\ \A p \in Created : saved.at[p] # None
          /\ saved.at[Namespace] # None => saved.at[Proxy] # None
          /\ \A p \in Rendered : saved.at[p] = wanted.at[p]
      BY <1>2, SavedIs
    <2>2. \A b, f : <<b, f>> \in Rendered => Get(saved, b, f) = wanted.at[<<b, f>>]
      BY <2>1 DEF Get
    <2>3. None \notin {"true", "false"} /\ "true" # "false"
      BY AbsentAssumption
    <2>4. /\ <<"top", "prefix">> \in Rendered /\ <<"cluster", "create">> \in Rendered
          /\ <<"cluster", "name">> \in Rendered /\ <<"cluster", "public_gateway">> \in Rendered
          /\ <<"cluster", "existing_subnet_ids">> \in Rendered
          /\ <<"cluster_vpc", "create">> \in Rendered /\ <<"cluster_vpc", "existing">> \in Rendered
          /\ <<"flp", "vsi_vpc">> \in Rendered /\ <<"flp", "vsi_create_vpc">> \in Rendered
          /\ <<"flp", "namespace">> \in Rendered /\ <<"cos", "bucket">> \in Rendered
          /\ <<"bnk", "license_mode">> \in Rendered /\ <<"gateway", "backend_port">> \in Rendered
          /\ \A kind \in DOMAIN Variables :
               <<kind, "create">> \in Rendered /\ <<kind, "existing">> \in Rendered
          /\ <<"tgw_jumphost", "create">> \in Rendered /\ <<"client_vpc", "name">> \in Rendered
      BY ResourceVariables DEF Rendered
    <2>5. Derive(Get(saved, "top", "prefix")) = plan
      BY <2>2, <2>4
    <2>6. /\ want("cluster") = "true" => makes["cluster"] = plan["cluster"]
          /\ want("cluster") # "true" => makes["cluster"] = None
          /\ want("cluster") # "true" /\ theirs("cluster") # None
               => looks["cluster"] = <<theirs("cluster")>>
          /\ want("cluster") = "true" /\ wanted.at[<<"cluster", "public_gateway">>] # None
               => v.cluster_public_gateway = wanted.at[<<"cluster", "public_gateway">>]
      <3>1. /\ Get(saved, "cluster", "create") = want("cluster")
            /\ Get(saved, "cluster", "name") = theirs("cluster")
            /\ Get(saved, "cluster", "public_gateway") = wanted.at[<<"cluster", "public_gateway">>]
        BY <2>2, <2>4 DEF Existing
      <3>2. Get(saved, "cluster", "create") # None
        BY <2>1 DEF Get, ClusterCreate
      <3>. HIDE DEF told, makes, looks, plan, v, want, theirs
      <3>. QED BY <2>1, <2>5, <3>1, <3>2, ClusterPlanned DEF told, makes, looks, v
    <2>7. /\ ~vpc => makes["cluster_vpc"] = plan["cluster_vpc"]
          /\ vpc => makes["cluster_vpc"] = None /\ looks["cluster_vpc"] = <<theirs("cluster_vpc")>>
          /\ wanted.at[<<"cluster", "existing_subnet_ids">>] # None
               => v.use_existing_cluster_subnets = "true"
      <3>1. /\ Get(saved, "cluster_vpc", "create") = want("cluster_vpc")
            /\ Get(saved, "cluster_vpc", "existing") = theirs("cluster_vpc")
            /\ Get(saved, "cluster", "existing_subnet_ids")
                 = wanted.at[<<"cluster", "existing_subnet_ids">>]
        BY <2>2, <2>4 DEF Existing
      <3>. HIDE DEF told, makes, looks, plan, v, want, theirs
      <3>. QED BY <2>1, <2>5, <3>1, NetworkPlanned DEF told, makes, looks, v
    <2>8. ASSUME NEW kind \in DOMAIN Variables
          PROVE  /\ want(kind) = "true" /\ home(kind) => makes[kind] = name(kind)
                 /\ want(kind) # "true" \/ ~home(kind) => makes[kind] = None
                 /\ want(kind) # "true" /\ theirs(kind) # None /\ used(kind)
                      => looks[kind] = <<theirs(kind)>>
      <3>1. kind # "cluster"
        BY ResourceVariables
      <3>2. /\ Get(saved, kind, "create") = want(kind) /\ Get(saved, kind, "existing") = theirs(kind)
            /\ Get(saved, "cluster", "create") = want("cluster")
            /\ Get(saved, "tgw_jumphost", "create") = want("tgw_jumphost")
            /\ Get(saved, "client_vpc", "name") = named
        BY <2>2, <2>4, <3>1 DEF Existing
      <3>3. /\ Get(saved, kind, "create") # None /\ Get(saved, "cluster", "create") # None
            /\ Get(saved, "tgw_jumphost", "create") # None
        <4>1. <<kind, "create">> \in Created /\ <<"tgw_jumphost", "create">> \in Created
          BY ResourceVariables, PathsAre DEF Toggles
        <4>. QED BY <2>1, <4>1 DEF Get, ClusterCreate
      <3>4. v["create_roks_cluster"] = want("cluster")
            /\ v["testing_create_tgw_jumphost"] = want("tgw_jumphost")
        BY <2>1, <3>2, <3>3, TogglesPlanned
      <3>5. MadeFor(v, kind) <=> home(kind)
        BY <3>4 DEF MadeFor
      <3>6. LookedUpFor(v, kind) <=> used(kind)
        BY <3>4, <3>5 DEF LookedUpFor
      <3>7. NameFor(saved, plan, kind) = name(kind)
        BY <3>2 DEF NameFor
      <3>. HIDE DEF told, makes, looks, plan, v, want, theirs, name, home, used
      <3>. QED BY <2>1, <2>5, <3>2, <3>3, <3>5, <3>6, <3>7, ResourcePlanned DEF told, makes, looks, v
    <2>9. /\ \A kind \in Made :
               /\ want(kind) = "true" /\ home(kind) => makes[kind] = name(kind)
               /\ want(kind) = "false" /\ theirs(kind) # None /\ used(kind) => looks[kind] = <<theirs(kind)>>
               /\ \/ want(kind) = "false" /\ (kind # "cluster_vpc" \/ theirs(kind) # None)
                  \/ ~home(kind)
                  => makes[kind] = None
      <3>. SUFFICES ASSUME NEW kind \in Made
           PROVE  /\ want(kind) = "true" /\ home(kind) => makes[kind] = name(kind)
                  /\ want(kind) = "false" /\ theirs(kind) # None /\ used(kind) => looks[kind] = <<theirs(kind)>>
                  /\ \/ want(kind) = "false" /\ (kind # "cluster_vpc" \/ theirs(kind) # None)
                     \/ ~home(kind)
                     => makes[kind] = None
        OBVIOUS
      <3>4. \/ kind = "cluster" /\ name("cluster") = plan["cluster"] /\ home("cluster")
            \/ kind = "cluster_vpc" /\ name("cluster_vpc") = plan["cluster_vpc"] /\ home("cluster_vpc")
            \/ kind \in DOMAIN Variables
        BY DEF Made
      <3>. HIDE DEF told, makes, looks, plan, v, want, theirs, name, home, used
      <3>1. CASE kind = "cluster" /\ name("cluster") = plan["cluster"] /\ home("cluster")
        BY <2>3, <2>6, <3>1
      <3>2. CASE kind = "cluster_vpc" /\ name("cluster_vpc") = plan["cluster_vpc"] /\ home("cluster_vpc")
        BY <2>3, <2>7, <3>2
      <3>3. CASE kind \in DOMAIN Variables
        BY <2>3, <2>8, <3>3
      <3>. QED BY <3>1, <3>2, <3>3, <3>4
    <2>10. makes["cluster"] # None /\ wanted.at[<<"cluster", "public_gateway">>] = "false"
             => v.cluster_public_gateway = "false"
      <3>. HIDE DEF told, makes, looks, plan, v, want, theirs
      <3>. QED BY <2>3, <2>6
    <2>11. wanted.at[<<"cluster", "existing_subnet_ids">>] # None
             => looks["cluster_vpc"] = <<theirs("cluster_vpc")>>
                /\ v.use_existing_cluster_subnets = "true"
      <3>1. wanted.at[<<"cluster", "existing_subnet_ids">>] # None => vpc
        BY <1>2, <2>2, <2>4 DEF Refused, Existing
      <3>. HIDE DEF told, makes, looks, plan, v, want, theirs, named, name, home, used, vpc
      <3>. QED BY <2>7, <3>1
    <2>12. wanted.at[<<"flp", "vsi_vpc">>] # None => v.flp_vsi_create_vpc = "false"
      <3>1. wanted.at[<<"flp", "vsi_vpc">>] # None => ~Is(saved, "flp", "vsi_create_vpc")
        BY <1>2, <2>2, <2>4 DEF Refused
      <3>. QED BY <2>1, <3>1, PodsPlanned
    <2>13. wanted.zones # <<>> => told["cneinstance_network_zones"] = wanted.zones
      BY <2>1, PodsPlanned
    <2>14. /\ wanted.at[<<"gateway", "backend_port">>] # None
                => told["gateway_backend_port"] = wanted.at[<<"gateway", "backend_port">>]
           /\ wanted.at[<<"bnk", "license_mode">>] # None
                => told["license_mode"] = wanted.at[<<"bnk", "license_mode">>]
           /\ wanted.at[<<"cos", "bucket">>] # None
                => told["ibmcloud_resources_cos_bucket"] = wanted.at[<<"cos", "bucket">>]
           /\ wanted.at[<<"flp", "namespace">>] # None
                => told["flp_namespace"] = wanted.at[<<"flp", "namespace">>]
      <3>1. /\ Get(saved, "gateway", "backend_port") = wanted.at[<<"gateway", "backend_port">>]
            /\ Get(saved, "bnk", "license_mode") = wanted.at[<<"bnk", "license_mode">>]
            /\ Get(saved, "cos", "bucket") = wanted.at[<<"cos", "bucket">>]
            /\ Get(saved, "flp", "namespace") = wanted.at[<<"flp", "namespace">>]
        BY <2>2, <2>4
      <3>2. Get(saved, "flp", "namespace") # None => Get(saved, "bnk", "flp") # None
        BY <2>1 DEF Get, Namespace, Proxy
      <3>. HIDE DEF told
      <3>. QED BY <2>1, <3>1, <3>2, PodsPlanned DEF told
    <2>15. \A row \in {<<"gateway", "backend_port", "gateway_backend_port">>,
                       <<"bnk", "license_mode", "license_mode">>,
                       <<"cos", "bucket", "ibmcloud_resources_cos_bucket">>,
                       <<"flp", "namespace", "flp_namespace">>} :
             wanted.at[<<row[1], row[2]>>] # None
               => told[row[3]] = wanted.at[<<row[1], row[2]>>]
      <3>. HIDE DEF told
      <3>. QED BY <2>14
    <2>. HIDE DEF told, makes, looks, plan, v, want, theirs, named, name, home, used, vpc
    <2>. QED BY <2>9, <2>10, <2>11, <2>12, <2>13, <2>15
  <1>. QED BY <1>1, <1>2 DEF ToldAsAsked

-----------------------------------------------------------------------------
(* The sweep: its invariant.                                               *)

Connections == [Nets -> {None, "pending", "attached", "failed", "detaching", "deleting"}]
Gateway     == [list : Connections, detach : SUBSET Nets, blind : BOOLEAN]
SweepType   == [pc : {"idle", "next", "settle", "detach", "clear", "gateway"}, runs : Nat,
                found : SUBSET Kinds, at : Nat, failed : BOOLEAN, gateway : Gateway]

TypeOK ==
  /\ cloud \in [Kinds -> {"there", "going", "gone"}]
  /\ conns \in Connections
  /\ sweep \in SweepType

\* While a sweep runs there is a workspace, and nothing is stranded.
Begun == sweep.pc # "idle" => saved # None /\ sweep.runs > 0

\* It is at the gateway because it deletes it.
AtGateway == sweep.pc \notin {"idle", "next"} => "transit_gateway" \in Active

\* The workspace's own connection is on the list, if there is one.
OwnListed == sweep.pc = "settle" /\ conns["own"] # None => sweep.gateway.list["own"] # None

DetachOurs == sweep.pc = "detach" => \A n \in sweep.gateway.detach : Ours(n)

SweepInv == TypeOK /\ Begun /\ AtGateway /\ OwnListed /\ DetachOurs /\ OwnConnectionFirst

-----------------------------------------------------------------------------
(* The steps.                                                              *)

LEMMA NetsAre == Nets = {"own", "foreign"} /\ "own" \in Nets
  BY DEF Nets

LEMMA InitSweep == Init => SweepInv
  <1>. SUFFICES ASSUME Init PROVE SweepInv
    OBVIOUS
  <1>1. /\ cloud = [k \in Kinds |-> "gone"] /\ conns = [n \in Nets |-> None]
        /\ sweep = NoSweep
    BY DEF Init, CleanupInit
  <1>2. NoGateway \in Gateway
    BY DEF NoGateway, Gateway, Connections
  <1>3. NoSweep \in SweepType /\ NoSweep.pc = "idle"
    BY <1>2 DEF NoSweep, SweepType
  <1>4. TypeOK
    BY <1>1, <1>3 DEF TypeOK, Connections
  <1>. QED BY <1>1, <1>3, <1>4
           DEF SweepInv, Begun, AtGateway, OwnListed, DetachOurs, OwnConnectionFirst

\* What a step may do to the sweep that runs.
SweepsOn ==
  /\ UNCHANGED saved /\ sweep.pc # "idle"
  /\ sweep' \in SweepType /\ sweep'.found = sweep.found /\ sweep'.runs = sweep.runs

LEMMA SweepKeeps ==
  ASSUME SweepInv, SweepsOn,
         cloud' \in [Kinds -> {"there", "going", "gone"}], conns' \in Connections,
         sweep'.pc \notin {"idle", "next"} => "transit_gateway" \in Active,
         OwnListed', OwnConnectionFirst',
         sweep'.pc = "detach" => \A n \in sweep'.gateway.detach : Ours(n)
  PROVE  SweepInv'
  <1>1. UNCHANGED <<Active>> /\ \A n : Ours(n)' = Ours(n)
    BY DEF SweepsOn, Active, Adopted, Spared, Ours
  <1>2. Begun'
    BY DEF SweepInv, Begun, SweepsOn
  <1>3. AtGateway' /\ DetachOurs'
    BY <1>1 DEF AtGateway, DetachOurs
  <1>. QED BY <1>2, <1>3 DEF SweepInv, TypeOK, SweepsOn

\* The next of the list.
LEMMA AfterIs ==
  ASSUME SweepInv, UNCHANGED saved, sweep.pc # "idle",
         sweep' = After \/ sweep' = [After EXCEPT !.failed = TRUE],
         cloud' \in [Kinds -> {"there", "going", "gone"}], conns' \in Connections
  PROVE  SweepInv'
  <1>1. sweep \in SweepType
    BY DEF SweepInv, TypeOK
  <1>2. NoGateway \in Gateway
    BY DEF NoGateway, Gateway, Connections
  <1>3. After \in SweepType /\ After.pc = "next" /\ After.found = sweep.found
        /\ After.runs = sweep.runs
    <2>1. sweep.at + 1 \in Nat
      BY <1>1 DEF SweepType
    <2>. DEFINE at == sweep.at + 1
    <2>. HIDE DEF at
    <2>2. After = [sweep EXCEPT !.pc = "next", !.at = at, !.gateway = NoGateway]
      BY DEF After, at
    <2>. QED BY <1>1, <1>2, <2>1, <2>2 DEF SweepType, at
  <1>4. sweep' \in SweepType /\ sweep'.pc = "next" /\ sweep'.found = sweep.found
        /\ sweep'.runs = sweep.runs
    BY <1>3 DEF SweepType
  <1>. QED BY <1>1, <1>4, SweepKeeps DEF SweepsOn, OwnListed, OwnConnectionFirst

\* ... or another step at the same gateway.
LEMMA GoIs ==
  ASSUME SweepInv, UNCHANGED saved, sweep.pc # "idle",
         NEW pc \in {"idle", "next", "clear", "gateway"}, Go(pc),
         cloud' \in [Kinds -> {"there", "going", "gone"}], conns' \in Connections,
         pc \notin {"idle", "next"} => "transit_gateway" \in Active,
         pc = "gateway" => conns'["own"] = None
  PROVE  SweepInv'
  <1>1. sweep \in SweepType
    BY DEF SweepInv, TypeOK
  <1>2. sweep' \in SweepType /\ sweep'.pc = pc /\ sweep'.found = sweep.found
        /\ sweep'.runs = sweep.runs
    BY <1>1 DEF Go, SweepType
  <1>. QED BY <1>1, <1>2, SweepKeeps DEF SweepsOn, OwnListed, OwnConnectionFirst

LEMMA BlindlyIs ==
  ASSUME SweepInv, UNCHANGED <<saved, cloud, conns>>, sweep.pc # "idle", Blindly,
         "transit_gateway" \in Active
  PROVE  SweepInv'
  <1>1. sweep \in SweepType
    BY DEF SweepInv, TypeOK
  <1>2. sweep' \in SweepType /\ sweep'.pc = "gateway" /\ sweep'.found = sweep.found
        /\ sweep'.runs = sweep.runs /\ sweep'.gateway.blind = TRUE
    BY <1>1 DEF Blindly, SweepType, Gateway
  <1>. QED BY <1>1, <1>2, SweepKeeps DEF SweepsOn, OwnListed, OwnConnectionFirst, SweepInv, TypeOK

\* The gateway as it is listed.
LEMMA ListedIs ==
  ASSUME SweepInv, UNCHANGED <<saved, cloud, conns>>, sweep.pc # "idle",
         sweep' = [sweep EXCEPT !.pc = "settle", !.gateway.list = conns],
         "transit_gateway" \in Active
  PROVE  SweepInv'
  <1>1. sweep \in SweepType /\ conns \in Connections
    BY DEF SweepInv, TypeOK
  <1>2. sweep' \in SweepType /\ sweep'.pc = "settle" /\ sweep'.found = sweep.found
        /\ sweep'.runs = sweep.runs /\ sweep'.gateway.list = conns
    BY <1>1 DEF SweepType, Gateway
  <1>. QED BY <1>1, <1>2, SweepKeeps DEF SweepsOn, OwnListed, OwnConnectionFirst, SweepInv, TypeOK

\* With nothing foreign on it, what a list leaves to detach is ours; and a list with
\* nothing to detach or to wait for is empty.
LEMMA PartitionIs ==
  ASSUME NEW list, Foreign(list) = {}
  PROVE  /\ \A n \in Detach(list) : Ours(n)
         /\ Detach(list) = {} /\ Settling(list) = {} => list["own"] = None
         /\ Detach(list) \subseteq Nets
  BY NetsAre DEF Foreign, Settling, Detach, Listed, InFlight, Departing

LEMMA PartitionKeeps ==
  ASSUME SweepInv, UNCHANGED saved, Partition
  PROVE  SweepInv'
  <1>. DEFINE list == sweep.gateway.list
              pc   == IF Detach(list) # {} THEN "detach"
                      ELSE IF Settling(list) # {} THEN "clear" ELSE "gateway"
              gw   == [NoGateway EXCEPT !.detach = Detach(list)]
  <1>1. /\ sweep.pc = "settle" /\ UNCHANGED <<cloud, conns>> /\ sweep \in SweepType
        /\ cloud \in [Kinds -> {"there", "going", "gone"}] /\ conns \in Connections
        /\ "transit_gateway" \in Active
        /\ conns["own"] # None => list["own"] # None
    BY DEF Partition, SweepInv, TypeOK, AtGateway, OwnListed
  <1>2. CASE Fail
    BY <1>1, <1>2, AfterIs DEF Fail
  <1>3. CASE /\ Foreign(list) = {}
             /\ sweep' = [sweep EXCEPT !.pc = pc, !.gateway = gw]
    <2>1. /\ \A n \in Detach(list) : Ours(n)
          /\ Detach(list) = {} /\ Settling(list) = {} => list["own"] = None
          /\ Detach(list) \subseteq Nets
      BY <1>3, PartitionIs
    <2>2. gw \in Gateway /\ gw.detach = Detach(list)
      BY <2>1 DEF NoGateway, Gateway, Connections
    <2>3. pc \in {"detach", "clear", "gateway"} /\ (pc = "gateway" => conns["own"] = None)
      BY <1>1, <2>1
    <2>. HIDE DEF pc, gw, list
    <2>4. sweep' \in SweepType /\ sweep'.pc = pc /\ sweep'.found = sweep.found
          /\ sweep'.runs = sweep.runs /\ sweep'.gateway = gw
      BY <1>1, <1>3, <2>2, <2>3 DEF SweepType
    <2>. QED BY <1>1, <2>1, <2>2, <2>3, <2>4, SweepKeeps
             DEF SweepsOn, OwnListed, OwnConnectionFirst
  <1>. QED BY <1>2, <1>3 DEF Partition

LEMMA DisconnectKeeps ==
  ASSUME SweepInv, UNCHANGED saved, Disconnect
  PROVE  SweepInv'
  <1>1. /\ sweep.pc = "detach" /\ UNCHANGED cloud
        /\ cloud \in [Kinds -> {"there", "going", "gone"}] /\ conns \in Connections
        /\ "transit_gateway" \in Active
    BY DEF Disconnect, SweepInv, TypeOK, AtGateway
  <1>2. conns' \in Connections
    BY <1>1 DEF Disconnect, Connections
  <1>3. Go("clear") \/ Fail
    BY DEF Disconnect, Detached
  <1>4. CASE Go("clear")
    BY <1>1, <1>2, <1>4, GoIs
  <1>5. CASE Fail
    BY <1>1, <1>2, <1>5, AfterIs DEF Fail
  <1>. QED BY <1>3, <1>4, <1>5

LEMMA SweepStep ==
  ASSUME SweepInv, UNCHANGED saved, Sweep
  PROVE  SweepInv'
  <1>1. /\ cloud \in [Kinds -> {"there", "going", "gone"}] /\ conns \in Connections
        /\ sweep.pc \notin {"idle", "next"} => "transit_gateway" \in Active
    BY DEF SweepInv, TypeOK, AtGateway
  <1>2. CASE Skip \/ Delete \/ DeleteGateway
    <2>1. /\ sweep.pc # "idle"
          /\ sweep' = After \/ sweep' = [After EXCEPT !.failed = TRUE]
          /\ cloud' \in [Kinds -> {"there", "going", "gone"}] /\ conns' \in Connections
      BY <1>1, <1>2 DEF Skip, Delete, DeleteGateway, Done, Fail
    <2>. QED BY <2>1, AfterIs
  <1>3. CASE Return
    BY <1>1, <1>3, GoIs DEF Return
  <1>4. CASE List
    <2>1. /\ sweep.pc = "next" /\ "transit_gateway" \in Active /\ UNCHANGED <<cloud, conns>>
          /\ \/ Blindly
             \/ Fail
             \/ sweep' = [sweep EXCEPT !.pc = "settle", !.gateway.list = conns]
      BY <1>4 DEF List
    <2>. QED BY <1>1, <2>1, BlindlyIs, AfterIs, ListedIs DEF Fail
  <1>5. CASE Settle
    <2>1. /\ sweep.pc = "settle" /\ UNCHANGED <<cloud, conns>> /\ sweep \in SweepType
          /\ sweep' = [sweep EXCEPT !.gateway.list = conns]
      BY <1>5 DEF Settle, SweepInv, TypeOK
    <2>2. sweep' = [sweep EXCEPT !.pc = "settle", !.gateway.list = conns]
      BY <2>1 DEF SweepType
    <2>. QED BY <1>1, <2>1, <2>2, ListedIs
  <1>6. CASE Partition
    BY <1>6, PartitionKeeps
  <1>7. CASE Disconnect
    BY <1>7, DisconnectKeeps
  <1>8. CASE Clear
    <2>1. /\ sweep.pc = "clear" /\ UNCHANGED <<cloud, conns>>
          /\ (Go("gateway") /\ conns["own"] = None) \/ Blindly \/ Fail
      BY <1>8, NetsAre DEF Clear, Listed
    <2>. QED BY <1>1, <2>1, GoIs, BlindlyIs, AfterIs DEF Fail
  <1>. QED BY <1>2, <1>3, <1>4, <1>5, <1>6, <1>7, <1>8 DEF Sweep

-----------------------------------------------------------------------------
(* The world.                                                              *)

\* Connections come to rest and go, and others make theirs.
LEMMA WorldKeeps ==
  ASSUME SweepInv, UNCHANGED <<saved, sweep>>, Settled \/ Cleared \/ Vanish \/ Others
  PROVE  SweepInv'
  <1>1. /\ cloud \in [Kinds -> {"there", "going", "gone"}] /\ conns \in Connections
        /\ sweep \in SweepType
    BY DEF SweepInv, TypeOK
  <1>2. /\ cloud' \in [Kinds -> {"there", "going", "gone"}] /\ conns' \in Connections
        /\ conns["own"] = None => conns'["own"] = None
    BY <1>1, NetsAre, NoneAssumption DEF Settled, Cleared, Vanish, Others, Connections
  <1>3. UNCHANGED <<Active>> /\ \A n : Ours(n)' = Ours(n)
    BY DEF Active, Adopted, Spared, Ours
  <1>. QED BY <1>1, <1>2, <1>3
           DEF SweepInv, TypeOK, Begun, AtGateway, OwnListed, DetachOurs, OwnConnectionFirst

\* A sweep begins, or is stopped; what it is to find is there before.
LEMMA EdgeKeeps ==
  ASSUME SweepInv, UNCHANGED saved, Strand \/ Scan \/ Stop
  PROVE  SweepInv'
  <1>1. /\ cloud \in [Kinds -> {"there", "going", "gone"}] /\ conns \in Connections
        /\ sweep \in SweepType
    BY DEF SweepInv, TypeOK
  <1>2. NoGateway \in Gateway
    BY DEF NoGateway, Gateway, Connections
  <1>3. CASE Strand
    <2>1. /\ UNCHANGED sweep /\ sweep.runs = 0
          /\ cloud' \in [Kinds -> {"there", "going", "gone"}]
          /\ conns' \in [Nets -> {None, "pending", "attached", "failed", "detaching"}]
      BY <1>3 DEF Strand
    <2>2. conns' \in Connections
      BY <2>1 DEF Connections
    <2>3. sweep.pc = "idle"
      BY <1>1, <2>1 DEF SweepInv, Begun, SweepType
    <2>. QED BY <1>1, <2>1, <2>2, <2>3
             DEF SweepInv, TypeOK, Begun, AtGateway, OwnListed, DetachOurs, OwnConnectionFirst
  <1>4. CASE Scan \/ Stop
    <2>1. UNCHANGED <<cloud, conns>>
      BY <1>4 DEF Scan, Stop
    <2>2. sweep' \in SweepType /\ sweep'.pc \in {"idle", "next"}
          /\ (sweep'.pc = "next" => saved # None /\ sweep'.runs > 0)
      <3>1. CASE Stop
        BY <1>1, <1>2, <3>1 DEF Stop, NoSweep, SweepType
      <3>2. CASE Scan
        <4>1. PICK missed \in SUBSET Kinds :
                sweep' = [NoSweep EXCEPT !.pc = "next", !.runs = sweep.runs + 1,
                            !.found = {k \in Kinds : cloud[k] # "gone"} \ missed]
          BY <3>2 DEF Scan
        <4>. DEFINE found == {k \in Kinds : cloud[k] # "gone"} \ missed
        <4>2. found \subseteq Kinds
          OBVIOUS
        <4>. HIDE DEF found
        <4>3. sweep' = [NoSweep EXCEPT !.pc = "next", !.runs = sweep.runs + 1, !.found = found]
          BY <4>1 DEF found
        <4>4. saved # None
          BY <3>2 DEF Scan
        <4>5. sweep.runs + 1 \in Nat /\ sweep.runs + 1 > 0
          BY <1>1 DEF SweepType
        <4>. DEFINE runs == sweep.runs + 1
        <4>. HIDE DEF runs
        <4>6. sweep' = [NoSweep EXCEPT !.pc = "next", !.runs = runs, !.found = found]
          BY <4>3 DEF runs
        <4>7. sweep' \in SweepType /\ sweep'.pc = "next" /\ sweep'.runs = runs
          BY <1>2, <4>2, <4>5, <4>6 DEF NoSweep, SweepType, runs
        <4>. QED BY <4>4, <4>5, <4>7 DEF runs
      <3>. QED BY <1>4, <3>1, <3>2
    <2>. QED BY <1>1, <2>1, <2>2
             DEF SweepInv, TypeOK, Begun, AtGateway, OwnListed, DetachOurs, OwnConnectionFirst
  <1>. QED BY <1>3, <1>4

\* A workspace is made once, so nothing of it changes under a sweep.
LEMMA SettingsKeep ==
  ASSUME SettingsInv, SweepInv, SettingsNext, UNCHANGED cleanupVars
  PROVE  SweepInv'
  <1>0. doc # Served
    BY DEF SettingsNext, Convert, InitFromConfigFile, InitFromEnv, Served
  <1>1. saved = None /\ UNCHANGED <<cloud, conns, sweep>>
    BY <1>0 DEF SettingsInv, cleanupVars
  <1>2. sweep.pc = "idle"
    BY <1>1 DEF SweepInv, Begun
  <1>. QED BY <1>1, <1>2
           DEF SweepInv, TypeOK, Begun, AtGateway, OwnListed, DetachOurs, OwnConnectionFirst

\* A sweep leaves the configuration as it is.
LEMMA NextSettings == SettingsInv /\ [Next]_vars => SettingsInv'
  <1>. SUFFICES ASSUME SettingsInv, [Next]_vars PROVE SettingsInv'
    OBVIOUS
  <1>1. SettingsNext \/ UNCHANGED settingsVars
    BY DEF Next, vars
  <1>. QED BY <1>1, SettingsStep

LEMMA SettingsSafe == Spec => []SettingsInv
  <1>1. Init => SettingsInv
    BY InitSettings DEF Init
  <1>. QED BY <1>1, NextSettings, PTL DEF Spec

LEMMA NextSweep == SettingsInv /\ SweepInv /\ [Next]_vars => SweepInv'
  <1>. SUFFICES ASSUME SettingsInv, SweepInv, [Next]_vars PROVE SweepInv'
    OBVIOUS
  <1>1. CASE SettingsNext /\ UNCHANGED cleanupVars
    BY <1>1, SettingsKeep
  <1>2. CASE CleanupNext /\ UNCHANGED settingsVars
    <2>1. UNCHANGED saved
      BY <1>2 DEF settingsVars
    <2>2. CASE Sweep
      BY <2>1, <2>2, SweepStep
    <2>3. CASE Strand \/ Scan \/ Stop
      BY <2>1, <2>3, EdgeKeeps
    <2>4. CASE Settled \/ Cleared \/ Vanish \/ Others
      BY <2>1, <2>4, WorldKeeps DEF Settled, Cleared, Vanish, Others
    <2>. QED BY <1>2, <2>2, <2>3, <2>4 DEF CleanupNext
  <1>3. CASE UNCHANGED vars
    <2>1. UNCHANGED <<saved, cloud, conns, sweep>>
      BY <1>3 DEF vars, settingsVars, cleanupVars
    <2>. QED BY <2>1 DEF SweepInv, TypeOK, Begun, AtGateway, OwnListed, DetachOurs,
                         OwnConnectionFirst, Active, Adopted, Spared, Ours
  <1>. QED BY <1>1, <1>2, <1>3 DEF Next

LEMMA SweepSafe == Spec => []SweepInv
  BY InitSweep, NextSweep, SettingsSafe, PTL DEF Spec

\* The gateway is deleted under the workspace's own connection only when a listing
\* failed (deleteTransitGateway).
THEOREM OwnGoesFirst == Spec => []OwnConnectionFirst
  <1>1. SweepInv => OwnConnectionFirst
    BY DEF SweepInv
  <1>. QED BY <1>1, SweepSafe, PTL

-----------------------------------------------------------------------------
(* What a step may take.                                                   *)

\* A sweep detaches only the connection of a VPC it deletes as well (sweptVPCCRNs,
\* partitionTGWConnections).
THEOREM DetachesOurs == Spec => DetachIsOurs
  <1>1. ASSUME SweepInv, [Next]_vars, NEW n \in Nets,
               conns[n] # "deleting", conns'[n] = "deleting"
        PROVE  n = "own" /\ "vpc" \in Active
    <2>1. conns \in Connections
      BY <1>1 DEF SweepInv, TypeOK
    <2>2. CASE Disconnect
      <3>1. n \in sweep.gateway.detach /\ sweep.pc = "detach"
        BY <1>1, <2>2 DEF Disconnect
      <3>. QED BY <1>1, <3>1 DEF SweepInv, DetachOurs, Ours
    <2>3. CASE Settled \/ Cleared \/ Others \/ Strand
      <3>1. conns'[n] # "deleting"
        BY <1>1, <2>1, <2>3, NoneAssumption
           DEF Settled, Cleared, Others, Strand, Connections
      <3>. QED BY <1>1, <3>1
    <2>4. CASE UNCHANGED conns
      BY <1>1, <2>4
    <2>5. \/ UNCHANGED conns \/ Disconnect
          \/ Settled \/ Cleared \/ Others \/ Strand
      BY <1>1 DEF Next, CleanupNext, Sweep, Skip, Return, Delete, List, Settle, Partition,
                  Clear, DeleteGateway, Scan, Stop, Vanish, vars, cleanupVars
    <2>. QED BY <2>2, <2>3, <2>4, <2>5
  <1>2. SweepInv /\ [Next]_vars =>
          [\A n \in Nets : (conns[n] # "deleting" /\ conns'[n] = "deleting")
                           => (n = "own" /\ "vpc" \in Active)]_vars
    BY <1>1
  <1>. QED BY <1>2, SweepSafe, PTL DEF Spec, DetachIsOurs

-----------------------------------------------------------------------------
(* What was asked for, in a plan and in a sweep.                           *)

\* The keys that adopt a resource have variables, and are no secrets.
LEMMA KeysAre ==
  ASSUME NEW k \in Kinds
  PROVE  {AdoptKeys(k).create, AdoptKeys(k).value} \subseteq Carried \cap Paths
  <1>. DEFINE path(i) == Overrides[i].path
  <1>1. DOMAIN Overrides = 1 .. 24
    BY DEF Overrides
  <1>2. /\ path(6) = <<"cluster", "create">> /\ path(4) = <<"cluster", "name">>
        /\ path(18) = <<"transit_gateway", "create">>
        /\ path(10) = <<"transit_gateway", "existing">>
        /\ path(7) = <<"registry_cos", "create">> /\ path(5) = <<"registry_cos", "existing">>
        /\ path(17) = <<"cluster_vpc", "create">> /\ path(11) = <<"cluster_vpc", "existing">>
    BY DEF Overrides, Row
  <1>3. \A i \in 1 .. 24 : path(i) \in {r.path : r \in Rows}
    BY <1>1 DEF Rows, ToSet
  <1>. HIDE DEF path
  <1>4. {path(4), path(5), path(6), path(7), path(10), path(11), path(17), path(18)}
          \subseteq {r.path : r \in Rows}
    BY <1>3
  <1>5. AdoptKeys(k).create \in {path(6), path(18), path(7), path(17)}
        /\ AdoptKeys(k).value \in {path(4), path(10), path(5), path(11)}
        /\ ~Secret(AdoptKeys(k).create) /\ ~Secret(AdoptKeys(k).value)
    BY <1>2 DEF AdoptKeys, Kinds, Secret
  <1>. QED BY <1>4, <1>5 DEF Carried, Paths, Leaves

\* The sweep takes a resource only if its configuration does not spare it.
LEMMA TakesNoSpared ==
  ASSUME SweepInv, [Next]_vars, NEW k \in Kinds,
         cloud[k] = "there", cloud'[k] # "there"
  PROVE  saved # None /\ ~Spared(saved, k)
  <1>1. cloud \in [Kinds -> {"there", "going", "gone"}]
    BY DEF SweepInv, TypeOK
  <1>2. ASSUME k \in Active, sweep.pc # "idle"
        PROVE  saved # None /\ ~Spared(saved, k)
    BY <1>2 DEF SweepInv, Begun, Active, Adopted
  <1>3. CASE Delete
    <2>1. k = Order[sweep.at] /\ Order[sweep.at] \in Active /\ sweep.pc = "next"
      BY <1>1, <1>3 DEF Delete
    <2>. QED BY <1>2, <2>1
  <1>4. CASE DeleteGateway
    <2>1. k = "transit_gateway" /\ sweep.pc = "gateway"
      BY <1>1, <1>4 DEF DeleteGateway
    <2>. QED BY <1>2, <2>1 DEF SweepInv, AtGateway
  <1>5. CASE Strand
    BY <1>5 DEF Strand
  <1>6. CASE Vanish
    BY <1>1, <1>6 DEF Vanish
  <1>7. CASE UNCHANGED cloud
    BY <1>7
  <1>8. UNCHANGED cloud \/ Delete \/ DeleteGateway \/ Strand \/ Vanish
    BY DEF Next, CleanupNext, Sweep, Skip, Return, List, Settle, Partition, Disconnect,
           Clear, Scan, Stop, Settled, Cleared, Others, vars, cleanupVars
  <1>. QED BY <1>3, <1>4, <1>5, <1>6, <1>7, <1>8

\* However long the way from a file or variables through conversions to a workspace, it
\* says what was asked for, and the plan of it makes, adopts and sets just that
\* (OverrideFromEnv, LoadConfigSource, envLinesFor, runInit, WriteTFVars).
THEOREM ToldAsItWasAsked == Spec => []ToldAsAsked
  <1>1. SettingsInv => ToldAsAsked
    BY ToldIsAsAsked
  <1>. QED BY <1>1, SettingsSafe, PTL

\* What the operator said is adopted, in a file or a variable and before any conversion,
\* is never deleted (adoptedRefs, runCleanup).
THEOREM AdoptedStays == Spec => AdoptedKept
  <1>1. ASSUME SweepInv, SettingsInv, [Next]_vars, NEW k \in Kinds,
               Spared(wanted, k), cloud[k] = "there"
        PROVE  cloud'[k] = "there"
    <2>. SUFFICES ASSUME cloud'[k] # "there" PROVE FALSE
      OBVIOUS
    <2>1. saved # None /\ ~Spared(saved, k)
      BY <1>1, TakesNoSpared
    <2>2. \A p \in Carried \cap Paths : saved.at[p] = wanted.at[p]
      BY <1>1, <2>1, SavedIsAsAsked DEF SavedAsAsked
    <2>. QED BY <1>1, <2>1, <2>2, KeysAre DEF Spared
  <1>2. SweepInv /\ SettingsInv /\ [Next]_vars =>
          [\A k \in Kinds : (Spared(wanted, k) /\ cloud[k] = "there")
                            => cloud'[k] = "there"]_vars
    BY <1>1
  <1>. QED BY <1>2, SweepSafe, SettingsSafe, PTL DEF Spec, AdoptedKept
=============================================================================
