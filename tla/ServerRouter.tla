---------------------------- MODULE ServerRouter ----------------------------
(***************************************************************************)
(* TfServerRouter while the program builds it: new, add_route,             *)
(* commit_routes, get_routes, and the move into an Arc that hands it to    *)
(* the server and ends every mutation (add_route and commit_routes take    *)
(* &mut self).  The program may call them in any order.                    *)
(***************************************************************************)
EXTENDS Integers, Sequences

CONSTANTS
    Routes,    \* Arc<Route<S, C>> values
    Names,     \* handler names
    STypes,    \* values of the structure-type enum
    MaxCalls   \* bound on the add_route calls

ASSUME RouterConstants == MaxCalls \in Nat

VARIABLES
    routes_to_add,       \* Vec of registered, uncommitted routes
    routes,              \* committed routes by handler id
    routes_text_names,   \* committed ids by name
    router_incremental,  \* the next handler id
    routes_commited,
    shared,              \* the router was moved into the Arc the server holds
    snapshots,           \* what calls of get_routes returned
    calls                \* history: every add_route call, in order

routerVars == <<routes_to_add, routes, routes_text_names, router_incremental,
                routes_commited, shared, snapshots, calls>>

Ids == 0..(MaxCalls - 1)

\* The TypeTuple of a registration, its route and its name.
Registration ==
    [handler_id : Ids, s_types : SUBSET STypes, route : Routes, name : Names]
Entry == [s_types : SUBSET STypes, route : Routes]
Call == [s_types : SUBSET STypes, route : Routes, name : Names, when : {"in_time", "late"}]

RouteMaps == UNION {[ids -> Entry] : ids \in SUBSET Ids}
NameMaps == UNION {[names -> Ids] : names \in SUBSET Names}

TypeOK ==
    /\ routes_to_add \in Seq(Registration)
    /\ routes \in RouteMaps
    /\ routes_text_names \in NameMaps
    /\ router_incremental \in 0..MaxCalls
    /\ routes_commited \in BOOLEAN
    /\ shared \in BOOLEAN
    /\ snapshots \subseteq RouteMaps
    /\ calls \in Seq(Call)

EmptyMap == [x \in {} |-> x]

\* TfServerRouter::new
Init ==
    /\ routes_to_add = <<>>
    /\ routes = EmptyMap
    /\ routes_text_names = EmptyMap
    /\ router_incremental = 0
    /\ routes_commited = FALSE
    /\ shared = FALSE
    /\ snapshots = {}
    /\ calls = <<>>

\* Which add_route calls take effect.
CallTime == IF routes_commited THEN "late" ELSE "in_time"

\* Mutant: the commit flag is not looked at.
AddRouteAnytime(route, handler_name, s_types) ==
    /\ ~shared
    /\ Len(calls) < MaxCalls
    /\ calls' = Append(calls, [s_types |-> s_types, route |-> route,
                               name |-> handler_name, when |-> CallTime])
    /\ routes_to_add' = Append(routes_to_add,
                               [handler_id |-> router_incremental, s_types |-> s_types,
                                route |-> route, name |-> handler_name])
    /\ router_incremental' = router_incremental + 1
    /\ UNCHANGED <<routes, routes_text_names, routes_commited, shared, snapshots>>

\* A call on a committed router returns without a trace.  The Vec of tags becomes
\* a set.
add_route(route, handler_name, s_types) ==
    /\ ~shared
    /\ Len(calls) < MaxCalls
    /\ calls' = Append(calls, [s_types |-> s_types, route |-> route,
                               name |-> handler_name, when |-> CallTime])
    /\ IF routes_commited
       THEN UNCHANGED <<routes_to_add, router_incremental>>
       ELSE /\ routes_to_add' =
                   Append(routes_to_add,
                          [handler_id |-> router_incremental, s_types |-> s_types,
                           route |-> route, name |-> handler_name])
            /\ router_incremental' = router_incremental + 1
    /\ UNCHANGED <<routes, routes_text_names, routes_commited, shared, snapshots>>

(***************************************************************************)
(* HashMap::insert in the order of the Vec: the last entry with a key      *)
(* stays.                                                                  *)
(***************************************************************************)
LastWhere(Key(_), k) ==
    CHOOSE i \in 1..Len(routes_to_add) :
        /\ Key(i) = k
        /\ \A j \in 1..Len(routes_to_add) : Key(j) = k => j <= i

\* Mutant: ids count from one.
IdFromOne(i) == i

IdAt(i) == routes_to_add[i].handler_id
NameAt(i) == routes_to_add[i].name

CollectedRoutes ==
    [h \in {IdAt(i) : i \in 1..Len(routes_to_add)} |->
        LET e == routes_to_add[LastWhere(IdAt, h)]
        IN  [s_types |-> e.s_types, route |-> e.route]]

\* Mutants: the first registration of a name stays; ids are one too high.
CollectedFirstNames ==
    [n \in {NameAt(i) : i \in 1..Len(routes_to_add)} |->
        LET Same == {i \in 1..Len(routes_to_add) : NameAt(i) = n}
        IN  routes_to_add[CHOOSE i \in Same : \A j \in Same : i <= j].handler_id]
CollectedNextIds ==
    [n \in {NameAt(i) : i \in 1..Len(routes_to_add)} |->
        routes_to_add[LastWhere(NameAt, n)].handler_id + 1]

CollectedNames ==
    [n \in {NameAt(i) : i \in 1..Len(routes_to_add)} |->
        routes_to_add[LastWhere(NameAt, n)].handler_id]

\* Mutant: the flag is not set.
CommitAgain ==
    /\ ~shared
    /\ ~routes_commited
    /\ routes_to_add # <<>>
    /\ routes' = CollectedRoutes
    /\ routes_text_names' = CollectedNames
    /\ routes_to_add' = <<>>
    /\ UNCHANGED <<routes_commited, router_incremental, shared, snapshots, calls>>

\* Nothing happens on a committed router or when no route was added.
commit_routes ==
    /\ ~shared
    /\ ~routes_commited
    /\ routes_to_add # <<>>
    /\ routes' = CollectedRoutes
    /\ routes_text_names' = CollectedNames
    /\ routes_commited' = TRUE
    /\ routes_to_add' = <<>>
    /\ UNCHANGED <<router_incremental, shared, snapshots, calls>>

\* A clone of the Arc that is current now; later commits replace the Arc.
get_routes ==
    /\ snapshots' = snapshots \cup {routes}
    /\ UNCHANGED <<routes_to_add, routes, routes_text_names, router_incremental,
                   routes_commited, shared, calls>>

\* Arc::new(router) for TfServer::new.
Share ==
    /\ ~shared
    /\ shared' = TRUE
    /\ UNCHANGED <<routes_to_add, routes, routes_text_names, router_incremental,
                   routes_commited, snapshots, calls>>

Next ==
    \/ \E route \in Routes, name \in Names, s_types \in SUBSET STypes :
           add_route(route, name, s_types)
    \/ commit_routes
    \/ get_routes
    \/ Share

Spec == Init /\ [][Next]_routerVars
-----------------------------------------------------------------------------
\* The add_route calls that came before the commit.
InTime == {i \in 1..Len(calls) : calls[i].when = "in_time"}

(***************************************************************************)
(* A committed router holds exactly the add_route calls made before the    *)
(* commit: the i-th call has id i - 1 and its own route and tags, so no    *)
(* registration replaced or shadowed another in the id map, and there is   *)
(* no other id.                                                            *)
(***************************************************************************)
EveryCallHasItsId ==
    routes_commited =>
        /\ DOMAIN routes = {i - 1 : i \in InTime}
        /\ \A i \in InTime :
               routes[i - 1] = [s_types |-> calls[i].s_types, route |-> calls[i].route]

(***************************************************************************)
(* A name resolves to the last registration made under it before the       *)
(* commit, whatever was registered around it, and to an id that is in the  *)
(* id map: the two maps commit_routes makes agree.                         *)
(***************************************************************************)
NamesResolve ==
    \A n \in DOMAIN routes_text_names :
        /\ routes_text_names[n] \in DOMAIN routes
        /\ LET i == routes_text_names[n] + 1
           IN  /\ calls[i].name = n /\ calls[i].when = "in_time"
               /\ \A j \in (i + 1)..Len(calls) :
                      ~(calls[j].when = "in_time" /\ calls[j].name = n)

(***************************************************************************)
(* Every snapshot get_routes returned is the final table, or the empty one *)
(* from before the commit; none is a table in between.                     *)
(***************************************************************************)
SnapshotsAgree ==
    \A s \in snapshots : s = EmptyMap \/ (routes_commited /\ s = routes)

(***************************************************************************)
(* commit_routes "Making the current router is final": from then on no     *)
(* call changes what an id or a name means.                                *)
(***************************************************************************)
CommitIsFinal ==
    [][routes_commited =>
          /\ routes_commited'
          /\ UNCHANGED <<routes, routes_text_names, router_incremental>>]_routerVars
=============================================================================
