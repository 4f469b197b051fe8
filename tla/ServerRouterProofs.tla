------------------------- MODULE ServerRouterProofs -------------------------
(***************************************************************************)
(* Proofs about ServerRouter, for any routes, names, tags and number of    *)
(* calls.                                                                  *)
(***************************************************************************)
EXTENDS ServerRouter, TLAPS, WellFoundedInduction

\* Before the commit, the Vec mirrors the calls: the i-th entry is the i-th call,
\* with id i - 1.
Pending ==
    ~routes_commited =>
        /\ Len(routes_to_add) = Len(calls)
        /\ router_incremental = Len(calls)
        /\ \A i \in 1..Len(calls) :
               /\ calls[i].when = "in_time"
               /\ routes_to_add[i] =
                      [handler_id |-> i - 1, s_types |-> calls[i].s_types,
                       route |-> calls[i].route, name |-> calls[i].name]
        /\ routes = EmptyMap
        /\ routes_text_names = EmptyMap

\* A committed id is the index of a call.
IdsAreCalls == \A n \in DOMAIN routes_text_names : routes_text_names[n] < Len(calls)

\* What every step preserves.
RouterInv ==
    /\ TypeOK
    /\ Len(calls) <= MaxCalls
    /\ Pending
    /\ IdsAreCalls
    /\ EveryCallHasItsId
    /\ NamesResolve
    /\ SnapshotsAgree
-----------------------------------------------------------------------------
\* A non-empty set of indices has a last one, so LastWhere is well defined.
LEMMA LastIndex ==
  ASSUME NEW N \in Nat, NEW S, S \subseteq 1..N, S # {}
  PROVE  \E m \in S : \A x \in S : x <= m
PROOF
  <1> DEFINE R == OpToRel(<, Nat)
             T == {N - x : x \in S}
  <1>1. IsWellFoundedOn(R, Nat)
    BY NatLessThanWellFounded
  <1>2. \A x \in S : x \in 1..N /\ N - x \in Nat
    <2>1. \A x \in 1..N : N - x \in Nat
      OBVIOUS
    <2> QED BY <2>1
  <1>3. T \subseteq Nat /\ T # {}
    BY <1>2
  <1>4. \E m \in T : \A y \in T : ~(<<y, m>> \in R)
    <2> HIDE DEF R, T
    <2> QED BY <1>1, <1>3, WFMin
  <1>5. \A x, y \in Nat : x < y => <<x, y>> \in R
    BY DEF OpToRel
  <1>6. PICK m \in T : \A y \in T : ~(y < m)
    <2> HIDE DEF R, T
    <2> QED BY <1>3, <1>4, <1>5
  <1>7. PICK k \in S : m = N - k
    OBVIOUS
  <1>8. ASSUME NEW x \in S PROVE x <= k
    <2>1. ~(N - x < N - k)
      BY <1>6, <1>7
    <2>2. x \in Int /\ k \in Int
      BY <1>2
    <2> QED BY <2>1, <2>2
  <1> QED BY <1>8

\* The state TfServerRouter::new returns satisfies the invariant.
LEMMA InitRouter == Init => RouterInv
PROOF
  <1> SUFFICES ASSUME Init PROVE RouterInv
    OBVIOUS
  <1> USE DEF Init
  <1>1. EmptyMap \in RouteMaps /\ EmptyMap \in NameMaps
    <2>1. EmptyMap \in [{} -> Entry] /\ EmptyMap \in [{} -> Ids]
      BY DEF EmptyMap
    <2> QED BY <2>1 DEF RouteMaps, NameMaps
  <1>2. TypeOK
    <2>1. routes_to_add \in Seq(Registration) /\ calls \in Seq(Call)
      OBVIOUS
    <2>2. router_incremental \in 0..MaxCalls
      BY RouterConstants
    <2> QED BY <1>1, <2>1, <2>2 DEF TypeOK
  <1>3. DOMAIN routes_text_names = {}
    BY DEF EmptyMap
  <1>4. Pending /\ Len(calls) <= MaxCalls
    BY RouterConstants DEF Pending
  <1>5. IdsAreCalls /\ NamesResolve
    BY <1>3 DEF IdsAreCalls, NamesResolve
  <1>6. EveryCallHasItsId /\ SnapshotsAgree
    BY DEF EveryCallHasItsId, SnapshotsAgree
  <1> QED
    BY <1>2, <1>4, <1>5, <1>6 DEF RouterInv

\* A registration, in time or too late, preserves the invariant.
LEMMA AddRoute ==
  ASSUME RouterInv, NEW route \in Routes, NEW name \in Names,
         NEW s_types \in SUBSET STypes, add_route(route, name, s_types)
  PROVE  RouterInv'
PROOF
  <1> USE RouterConstants DEF RouterInv, CallTime
  <1> DEFINE c == [s_types |-> s_types, route |-> route, name |-> name,
                   when |-> CallTime]
  <1>1. /\ calls' = Append(calls, c)
        /\ Len(calls) < MaxCalls
        /\ UNCHANGED <<routes, routes_text_names, routes_commited, shared, snapshots>>
    BY DEF add_route
  <1>2. c \in Call
    BY DEF TypeOK, Call
  <1>3. /\ calls' \in Seq(Call)
        /\ Len(calls') = Len(calls) + 1
        /\ \A i \in 1..Len(calls) : calls'[i] = calls[i]
        /\ calls'[Len(calls) + 1] = c
    BY <1>1, <1>2 DEF TypeOK
  <1>4. CASE routes_commited
    <2>1. UNCHANGED <<routes_to_add, router_incremental>>
      BY <1>4 DEF add_route
    <2>2. TypeOK'
      BY <1>1, <1>3, <2>1 DEF TypeOK
    <2>3. IdsAreCalls'
      BY <1>1, <1>3 DEF IdsAreCalls, TypeOK, NameMaps, Ids
    <2>4. EveryCallHasItsId'
      <3>1. InTime' = InTime
        <4>1. ASSUME NEW i \in 1..Len(calls'), calls'[i].when = "in_time"
              PROVE  i \in 1..Len(calls)
          BY <1>3, <1>4, <4>1 DEF TypeOK
        <4>2. 1..Len(calls) \subseteq 1..Len(calls')
          BY <1>3 DEF TypeOK
        <4> QED BY <1>3, <4>1, <4>2 DEF InTime
      <3>2. \A i \in InTime : calls'[i] = calls[i]
        BY <1>3 DEF InTime
      <3> QED BY <1>1, <1>4, <3>1, <3>2 DEF EveryCallHasItsId
    <2>5. NamesResolve'
      <3> SUFFICES ASSUME NEW n \in DOMAIN routes_text_names
                   PROVE  /\ routes_text_names[n] \in DOMAIN routes
                          /\ LET i == routes_text_names[n] + 1
                             IN  /\ calls'[i].name = n /\ calls'[i].when = "in_time"
                                 /\ \A j \in (i + 1)..Len(calls') :
                                        ~(calls'[j].when = "in_time" /\ calls'[j].name = n)
        BY <1>1 DEF NamesResolve
      <3> DEFINE i == routes_text_names[n] + 1
      <3>1. i \in 1..Len(calls)
        BY DEF TypeOK, NameMaps, Ids, IdsAreCalls
      <3>2. ASSUME NEW j \in (i + 1)..Len(calls')
            PROVE  ~(calls'[j].when = "in_time" /\ calls'[j].name = n)
        <4>1. CASE j = Len(calls) + 1
          BY <1>3, <1>4, <4>1
        <4>2. CASE j # Len(calls) + 1
          <5>1. j \in (i + 1)..Len(calls) /\ j \in 1..Len(calls)
            BY <1>3, <3>1, <4>2 DEF TypeOK
          <5>2. ~(calls[j].when = "in_time" /\ calls[j].name = n)
            BY <5>1 DEF NamesResolve
          <5> QED BY <1>3, <5>1, <5>2
        <4> QED BY <4>1, <4>2
      <3> QED BY <1>3, <3>1, <3>2 DEF NamesResolve
    <2>6. SnapshotsAgree'
      BY <1>1 DEF SnapshotsAgree
    <2> QED BY <1>1, <1>3, <1>4, <2>2, <2>3, <2>4, <2>5, <2>6 DEF Pending, TypeOK
  <1>5. CASE ~routes_commited
    <2> DEFINE e == [handler_id |-> router_incremental, s_types |-> s_types,
                     route |-> route, name |-> name]
    <2>1. /\ routes_to_add' = Append(routes_to_add, e)
          /\ router_incremental' = router_incremental + 1
      BY <1>5 DEF add_route
    <2>2. router_incremental = Len(calls) /\ router_incremental \in Ids
      BY <1>1, <1>5 DEF Pending, TypeOK, Ids
    <2>3. e \in Registration
      BY <2>2 DEF Registration
    <2>4. /\ routes_to_add' \in Seq(Registration)
          /\ Len(routes_to_add') = Len(calls) + 1
          /\ \A i \in 1..Len(calls) : routes_to_add'[i] = routes_to_add[i]
          /\ routes_to_add'[Len(calls) + 1] = e
      BY <1>5, <2>1, <2>3 DEF Pending, TypeOK
    <2>5. TypeOK'
      BY <1>1, <1>3, <2>1, <2>2, <2>4 DEF TypeOK, Ids
    <2>6. Pending'
      <3>1. ASSUME NEW i \in 1..Len(calls')
            PROVE  /\ calls'[i].when = "in_time"
                   /\ routes_to_add'[i] =
                          [handler_id |-> i - 1, s_types |-> calls'[i].s_types,
                           route |-> calls'[i].route, name |-> calls'[i].name]
        <4>1. CASE i = Len(calls) + 1
          BY <1>3, <1>5, <2>2, <2>4, <4>1 DEF TypeOK
        <4>2. CASE i # Len(calls) + 1
          <5>1. i \in 1..Len(calls)
            BY <1>3, <4>2 DEF TypeOK
          <5> QED BY <1>3, <1>5, <2>4, <5>1 DEF Pending
        <4> QED BY <4>1, <4>2
      <3> QED BY <1>1, <1>3, <1>5, <2>1, <2>2, <2>4, <3>1 DEF Pending
    <2>7. DOMAIN routes_text_names = {}
      BY <1>5 DEF Pending, EmptyMap
    <2> QED
      BY <1>1, <1>3, <1>5, <2>5, <2>6, <2>7
      DEF TypeOK, IdsAreCalls, EveryCallHasItsId, NamesResolve, SnapshotsAgree
  <1> QED BY <1>4, <1>5

\* What commit_routes collects from the Vec: ids 0 to n - 1, each with its own
\* entry, and every name with the last index that has it.
LEMMA Collected ==
  ASSUME RouterInv, ~routes_commited
  PROVE  /\ DOMAIN CollectedRoutes = 0..(Len(calls) - 1)
         /\ \A i \in 1..Len(calls) :
                CollectedRoutes[i - 1] = [s_types |-> calls[i].s_types,
                                          route |-> calls[i].route]
         /\ DOMAIN CollectedNames = {calls[i].name : i \in 1..Len(calls)}
         /\ \A n \in DOMAIN CollectedNames : \E i \in 1..Len(calls) :
                /\ CollectedNames[n] = i - 1
                /\ calls[i].name = n
                /\ \A j \in (i + 1)..Len(calls) : calls[j].name # n
PROOF
  <1> DEFINE L == Len(calls)
  <1>1. /\ L \in Nat
        /\ Len(routes_to_add) = L
        /\ \A i \in 1..L :
               routes_to_add[i] =
                   [handler_id |-> i - 1, s_types |-> calls[i].s_types,
                    route |-> calls[i].route, name |-> calls[i].name]
    BY DEF RouterInv, Pending, TypeOK
  <1> HIDE DEF L
  <1>2. \A i \in 1..L : IdAt(i) = i - 1 /\ NameAt(i) = calls[i].name
    BY <1>1 DEF IdAt, NameAt
  <1>3. ASSUME NEW i \in 1..L PROVE LastWhere(IdAt, i - 1) = i
    <2>1. \A k \in 1..L : IdAt(k) = i - 1 <=> k = i
      BY <1>1, <1>2
    <2> QED BY <1>1, <2>1 DEF LastWhere
  <1>4. {IdAt(i) : i \in 1..L} = 0..(L - 1)
    <2>1. \A h \in 0..(L - 1) : h + 1 \in 1..L /\ IdAt(h + 1) = h
      BY <1>1, <1>2
    <2>2. \A i \in 1..L : IdAt(i) \in 0..(L - 1)
      BY <1>1, <1>2
    <2> QED BY <2>1, <2>2
  <1>5. DOMAIN CollectedRoutes = 0..(L - 1)
    BY <1>1, <1>4 DEF CollectedRoutes
  <1>6. ASSUME NEW i \in 1..L
        PROVE  CollectedRoutes[i - 1] = [s_types |-> calls[i].s_types,
                                         route |-> calls[i].route]
    <2>1. i - 1 \in {IdAt(k) : k \in 1..Len(routes_to_add)}
      BY <1>1, <1>2
    <2>2. CollectedRoutes[i - 1] =
              [s_types |-> routes_to_add[LastWhere(IdAt, i - 1)].s_types,
               route |-> routes_to_add[LastWhere(IdAt, i - 1)].route]
      BY <2>1 DEF CollectedRoutes
    <2> QED BY <1>1, <1>3, <2>2
  <1>7. DOMAIN CollectedNames = {calls[i].name : i \in 1..L}
    BY <1>1, <1>2 DEF CollectedNames
  <1>8. ASSUME NEW n \in DOMAIN CollectedNames
        PROVE  \E i \in 1..L : /\ CollectedNames[n] = i - 1
                               /\ calls[i].name = n
                               /\ \A j \in (i + 1)..L : calls[j].name # n
    <2> DEFINE S == {i \in 1..L : NameAt(i) = n}
    <2>1. S \subseteq 1..L /\ S # {}
      BY <1>2, <1>7
    <2>2. \E m \in S : \A x \in S : x <= m
      <3> HIDE DEF S
      <3> QED BY <1>1, <2>1, LastIndex
    <2>3. \E m \in 1..L : NameAt(m) = n /\ \A j \in 1..L : NameAt(j) = n => j <= m
      BY <2>2
    <2> DEFINE i == LastWhere(NameAt, n)
    <2>4. i \in 1..L /\ NameAt(i) = n /\ \A j \in 1..L : NameAt(j) = n => j <= i
      BY <1>1, <2>3 DEF LastWhere
    <2>5. CollectedNames[n] = routes_to_add[i].handler_id
      BY DEF CollectedNames
    <2> HIDE DEF i
    <2>6. CollectedNames[n] = i - 1 /\ calls[i].name = n
      BY <1>1, <1>2, <2>4, <2>5
    <2>7. ASSUME NEW j \in (i + 1)..L PROVE calls[j].name # n
      <3>1. j \in 1..L /\ ~(j <= i)
        BY <1>1, <2>4
      <3> QED BY <1>2, <2>4, <3>1
    <2> QED BY <2>4, <2>6, <2>7
  <1> QED BY <1>5, <1>6, <1>7, <1>8 DEF L

\* The commit preserves the invariant.
LEMMA Commit ==
  ASSUME RouterInv, commit_routes
  PROVE  RouterInv'
PROOF
  <1> USE RouterConstants
  <1>1. /\ ~routes_commited
        /\ routes' = CollectedRoutes
        /\ routes_text_names' = CollectedNames
        /\ routes_commited' = TRUE
        /\ routes_to_add' = <<>>
        /\ UNCHANGED <<router_incremental, shared, snapshots, calls>>
    BY DEF commit_routes
  <1>2. /\ Len(calls) \in Nat /\ Len(calls) <= MaxCalls
        /\ calls \in Seq(Call)
        /\ \A i \in 1..Len(calls) : calls[i].when = "in_time"
    <2>1. calls \in Seq(Call) /\ Len(calls) <= MaxCalls
      BY DEF RouterInv, TypeOK
    <2>2. \A i \in 1..Len(calls) : calls[i].when = "in_time"
      BY <1>1 DEF RouterInv, Pending
    <2> QED BY <2>1, <2>2
  <1>3. 0..(Len(calls) - 1) \subseteq Ids
    BY <1>2 DEF Ids
  <1>4. \A i \in 1..Len(calls) : calls[i] \in Call
    BY <1>2
  <1>5. routes' \in [0..(Len(calls) - 1) -> Entry]
    <2>1. ASSUME NEW h \in 0..(Len(calls) - 1) PROVE CollectedRoutes[h] \in Entry
      <3>1. h + 1 \in 1..Len(calls) /\ h = (h + 1) - 1
        BY <1>2
      <3>2. CollectedRoutes[h] = [s_types |-> calls[h + 1].s_types,
                                  route |-> calls[h + 1].route]
        BY <1>1, <3>1, Collected
      <3> QED BY <1>4, <3>1, <3>2 DEF Call, Entry
    <2>2. DOMAIN CollectedRoutes = 0..(Len(calls) - 1)
      BY <1>1, Collected
    <2>3. CollectedRoutes = [h \in DOMAIN CollectedRoutes |-> CollectedRoutes[h]]
      BY DEF CollectedRoutes
    <2> QED BY <1>1, <2>1, <2>2, <2>3
  <1>6. routes_text_names' \in [{calls[i].name : i \in 1..Len(calls)} -> Ids]
    <2>1. ASSUME NEW n \in DOMAIN CollectedNames PROVE CollectedNames[n] \in Ids
      <3>1. PICK i \in 1..Len(calls) : CollectedNames[n] = i - 1
        BY <1>1, Collected
      <3> QED BY <1>2, <3>1 DEF Ids
    <2>2. DOMAIN CollectedNames = {calls[i].name : i \in 1..Len(calls)}
      BY <1>1, Collected
    <2>3. CollectedNames = [n \in DOMAIN CollectedNames |-> CollectedNames[n]]
      BY DEF CollectedNames
    <2> QED BY <1>1, <2>1, <2>2, <2>3
  <1>7. routes' \in RouteMaps /\ routes_text_names' \in NameMaps
    <2>1. {calls[i].name : i \in 1..Len(calls)} \subseteq Names
      BY <1>4 DEF Call
    <2> QED BY <1>3, <1>5, <1>6, <2>1 DEF RouteMaps, NameMaps
  <1>8. TypeOK'
    <2>1. routes_to_add' \in Seq(Registration)
      BY <1>1
    <2> QED BY <1>1, <1>7, <2>1 DEF RouterInv, TypeOK
  <1>9. EveryCallHasItsId'
    <2>1. InTime' = 1..Len(calls)
      BY <1>1, <1>2 DEF InTime
    <2>2. {i - 1 : i \in 1..Len(calls)} = 0..(Len(calls) - 1)
      <3>1. \A h \in 0..(Len(calls) - 1) : h + 1 \in 1..Len(calls) /\ h = (h + 1) - 1
        BY <1>2
      <3>2. \A i \in 1..Len(calls) : i - 1 \in 0..(Len(calls) - 1)
        BY <1>2
      <3> QED BY <3>1, <3>2
    <2> QED BY <1>1, <2>1, <2>2, Collected DEF EveryCallHasItsId
  <1>10. IdsAreCalls' /\ NamesResolve'
    <2> SUFFICES ASSUME NEW n \in DOMAIN CollectedNames
                 PROVE  /\ CollectedNames[n] < Len(calls)
                        /\ CollectedNames[n] \in DOMAIN CollectedRoutes
                        /\ LET i == CollectedNames[n] + 1
                           IN  /\ calls[i].name = n /\ calls[i].when = "in_time"
                               /\ \A j \in (i + 1)..Len(calls) :
                                      ~(calls[j].when = "in_time" /\ calls[j].name = n)
      BY <1>1 DEF IdsAreCalls, NamesResolve
    <2>1. PICK i \in 1..Len(calls) :
              /\ CollectedNames[n] = i - 1
              /\ calls[i].name = n
              /\ \A j \in (i + 1)..Len(calls) : calls[j].name # n
      BY <1>1, Collected
    <2>2. CollectedNames[n] + 1 = i /\ i - 1 < Len(calls) /\ i - 1 \in 0..(Len(calls) - 1)
      BY <1>2, <2>1
    <2>3. DOMAIN CollectedRoutes = 0..(Len(calls) - 1)
      BY <1>1, Collected
    <2> QED BY <1>2, <2>1, <2>2, <2>3
  <1>11. SnapshotsAgree'
    <2>1. \A s \in snapshots : s = EmptyMap
      BY <1>1 DEF RouterInv, SnapshotsAgree
    <2> QED BY <1>1, <2>1 DEF SnapshotsAgree
  <1>12. Pending'
    BY <1>1 DEF Pending
  <1> QED BY <1>1, <1>2, <1>8, <1>9, <1>10, <1>11, <1>12 DEF RouterInv

\* get_routes, Share and stuttering preserve the invariant.
LEMMA OtherSteps ==
  ASSUME RouterInv, get_routes \/ Share \/ UNCHANGED routerVars
  PROVE  RouterInv'
PROOF
  <1>1. /\ UNCHANGED <<routes_to_add, routes, routes_text_names, router_incremental,
                       routes_commited, calls>>
        /\ shared' \in BOOLEAN
        /\ snapshots' = snapshots \/ snapshots' = snapshots \cup {routes}
    BY DEF RouterInv, TypeOK, get_routes, Share, routerVars
  <1>2. TypeOK'
    BY <1>1 DEF RouterInv, TypeOK
  <1>3. Pending' /\ IdsAreCalls' /\ Len(calls') <= MaxCalls
    BY <1>1 DEF RouterInv, Pending, IdsAreCalls
  <1>4. EveryCallHasItsId' /\ NamesResolve'
    BY <1>1 DEF RouterInv, EveryCallHasItsId, InTime, NamesResolve
  <1>5. SnapshotsAgree'
    <2>1. routes = EmptyMap \/ routes_commited
      BY DEF RouterInv, Pending
    <2> QED BY <1>1, <2>1 DEF RouterInv, SnapshotsAgree
  <1> QED BY <1>2, <1>3, <1>4, <1>5 DEF RouterInv

\* RouterInv is an inductive invariant of the router.
THEOREM RouterInvariant == Spec => []RouterInv
PROOF
  <1>1. RouterInv /\ [Next]_routerVars => RouterInv'
    <2> SUFFICES ASSUME RouterInv, [Next]_routerVars PROVE RouterInv'
      OBVIOUS
    <2>1. CASE \E route \in Routes, name \in Names, s_types \in SUBSET STypes :
                   add_route(route, name, s_types)
      BY <2>1, AddRoute
    <2>2. CASE commit_routes
      BY <2>2, Commit
    <2>3. CASE get_routes \/ Share \/ UNCHANGED routerVars
      BY <2>3, OtherSteps
    <2> QED BY <2>1, <2>2, <2>3 DEF Next
  <1> QED BY <1>1, InitRouter, PTL DEF Spec

(***************************************************************************)
(* TfServerRouter keeps its types.                                         *)
(***************************************************************************)
THEOREM RouterTypeOK == Spec => []TypeOK
PROOF
  <1>1. RouterInv => TypeOK
    BY DEF RouterInv
  <1> QED BY <1>1, RouterInvariant, PTL

(***************************************************************************)
(* In a committed router every add_route call made in time has the id of   *)
(* its position, with its own route and tags.                              *)
(***************************************************************************)
THEOREM EveryCallServed == Spec => []EveryCallHasItsId
PROOF
  <1>1. RouterInv => EveryCallHasItsId
    BY DEF RouterInv
  <1> QED BY <1>1, RouterInvariant, PTL

(***************************************************************************)
(* In a committed router a name resolves to its last registration, whose   *)
(* route exists.                                                           *)
(***************************************************************************)
THEOREM NamesAlwaysResolve == Spec => []NamesResolve
PROOF
  <1>1. RouterInv => NamesResolve
    BY DEF RouterInv
  <1> QED BY <1>1, RouterInvariant, PTL

(***************************************************************************)
(* get_routes never returns a table between the empty and the final one.   *)
(***************************************************************************)
THEOREM SnapshotsAlwaysAgree == Spec => []SnapshotsAgree
PROOF
  <1>1. RouterInv => SnapshotsAgree
    BY DEF RouterInv
  <1> QED BY <1>1, RouterInvariant, PTL

(***************************************************************************)
(* Nothing changes a committed router.                                     *)
(***************************************************************************)
THEOREM CommittedIsFinal == Spec => CommitIsFinal
PROOF
  <1> DEFINE Kept == routes_commited =>
                       /\ routes_commited'
                       /\ UNCHANGED <<routes, routes_text_names, router_incremental>>
  <1>1. RouterInv /\ [Next]_routerVars => [Kept]_routerVars
    <2> SUFFICES ASSUME RouterInv, [Next]_routerVars, routes_commited
                 PROVE  /\ routes_commited'
                        /\ UNCHANGED <<routes, routes_text_names, router_incremental>>
      OBVIOUS
    <2>1. CASE \E route \in Routes, name \in Names, s_types \in SUBSET STypes :
                   add_route(route, name, s_types)
      BY <2>1 DEF add_route
    <2>2. CASE commit_routes
      BY <2>2 DEF commit_routes
    <2>3. CASE get_routes \/ Share \/ UNCHANGED routerVars
      BY <2>3 DEF get_routes, Share, routerVars
    <2> QED BY <2>1, <2>2, <2>3 DEF Next
  <1> QED BY <1>1, RouterInvariant, PTL DEF Spec, CommitIsFinal
=============================================================================
